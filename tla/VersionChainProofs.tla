-------------------------- MODULE VersionChainProofs --------------------------
(***************************************************************************)
(* Proofs about VersionChain, for any number of versions: the links, the   *)
(* index and the tail never disagree, and the chain is the set of ids that *)
(* VersionSet promises.                                                    *)
(*                                                                         *)
(* What holds the chain together is that a node and the next one have      *)
(* nothing between them; walking back from the tail therefore ends at the  *)
(* place of a new version.                                                 *)
(***************************************************************************)
EXTENDS VersionChain, WellFoundedInduction, TLAPS

LEMMA Least ==
  ASSUME NEW T, T \subseteq Nat, T # {}
  PROVE  \E x \in T : \A y \in T : x <= y
<1> DEFINE R == OpToRel(<, Nat)
<1> HIDE DEF R
<1>1. IsWellFoundedOn(R, Nat)
  BY NatLessThanWellFounded DEF R
<1>2. PICK x \in T : \A y \in T : ~ (<<y, x>> \in R)
  BY <1>1, WFMin
<1>3. ASSUME NEW y \in T PROVE x <= y
  <2>1. x \in Nat /\ y \in Nat /\ (<<y, x>> \in R <=> y < x)
    BY DEF OpToRel, R
  <2> QED BY <1>2, <2>1
<1> QED BY <1>3

\* The ids I are linked by p and n from the lowest to t, each to the next one; ids
\* that are not in I have no links.
Chain(I, t, p, n) ==
    /\ I \subseteq Vids /\ p \in [Vids -> Node] /\ n \in [Vids -> Node]
    /\ t \in I /\ n[t] = Null /\ \A w \in I : w <= t
    /\ \A v \in I :
         /\ p[v] # Null => p[v] \in I /\ p[v] < v /\ n[p[v]] = v
         /\ n[v] # Null => n[v] \in I /\ n[v] > v /\ p[n[v]] = v /\ \A w \in I : w <= v \/ n[v] <= w
         /\ n[v] = Null => v = t
         /\ p[v] = Null => \A w \in I : v <= w
    /\ \A v \in Vids : v \notin I => p[v] = Null /\ n[v] = Null

Empty == version_idx = {} /\ tail = Null /\ prev = [v \in Vids |-> Null] /\ next = [v \in Vids |-> Null]

Linked == Empty \/ Chain(version_idx, tail, prev, next)

LEMMA VidsAre == \A v \in Vids : v \in Nat /\ v <= MaxVid /\ v # Null /\ v \in Node
BY ChainOK DEF Vids, Node

-----------------------------------------------------------------------------
(* Walking back.                                                            *)

\* If previous nodes are lower, the walk is defined everywhere.
LEMMA SeekWalks ==
  ASSUME NEW p \in [Vids -> Node], \A m \in Vids : p[m] # Null => p[m] < m, NEW t \in Node, NEW v \in Vids
  PROVE  \E walk : /\ Seek(p, t, v) = walk[<<t, Null>>]
                   /\ \A m \in Node, after \in Node :
                        walk[<<m, after>>] = IF m # Null /\ m > v THEN walk[<<p[m], m>>] ELSE <<m, after>>
<1> DEFINE Up(k) == (0..k) \cup {Null}
           At(f, at) == IF at[1] # Null /\ at[1] > v THEN f[<<p[at[1]], at[1]>>] ELSE at
           Solves(f, k) == /\ f = [at \in Up(k) \X Node |-> f[at]]
                           /\ \A at \in Up(k) \X Node : f[at] = At(f, at)
           T == {k \in Nat : k <= MaxVid /\ ~ \E f : Solves(f, k)}
<1>0. MaxVid \in Nat /\ Null \notin Vids /\ v \in Nat /\ v <= MaxVid
  BY ChainOK, VidsAre
<1>1. T = {}
  <2> SUFFICES ASSUME T # {} PROVE FALSE
    OBVIOUS
  <2>0. T \subseteq Nat
    OBVIOUS
  <2>1. PICK k \in T : \A j \in T : k <= j
    BY <2>0, Least
  <2>2. CASE k = 0
    <3> DEFINE f == [at \in Up(0) \X Node |-> at]
    <3>1. ASSUME NEW at \in Up(0) \X Node PROVE f[at] = At(f, at)
      <4>1. at[1] = Null \/ at[1] = 0
        OBVIOUS
      <4>2. ~ (at[1] # Null /\ at[1] > v)
        BY <1>0, <4>1
      <4> QED BY <4>2
    <3>2. f = [at \in Up(0) \X Node |-> f[at]]
      OBVIOUS
    <3>3. Solves(f, 0)
      BY <3>1, <3>2
    <3> QED BY <2>1, <2>2, <3>3
  <2>3. CASE k # 0
    <3>1. /\ k \in Vids /\ k \in Nat /\ k - 1 \in Nat /\ k - 1 <= MaxVid /\ ~ (k <= k - 1)
          /\ Up(k) = Up(k - 1) \cup {k} /\ k \notin Up(k - 1)
      BY <1>0, <2>1, <2>3 DEF Vids
    <3>2. k - 1 \notin T
      BY <2>1, <3>1
    <3>3. PICK f : Solves(f, k - 1)
      BY <3>1, <3>2
    <3> DEFINE g == [at \in Up(k) \X Node |->
                        IF at[1] = k THEN (IF k > v THEN f[<<p[k], k>>] ELSE at) ELSE f[at]]
    <3>4. \A at \in Up(k - 1) \X Node : g[at] = f[at]
      BY <3>1
    <3>5. \A m \in Up(k) : m # Null => m \in Vids /\ m \in Node /\ p[m] \in Up(m - 1)
      <4> SUFFICES ASSUME NEW m \in Up(k), m # Null PROVE m \in Vids /\ m \in Node /\ p[m] \in Up(m - 1)
        OBVIOUS
      <4>1. m \in Vids
        BY <1>0, <2>1 DEF Vids
      <4>2. p[m] \in Node /\ (p[m] # Null => p[m] < m)
        BY <4>1
      <4> QED BY <4>1, <4>2, VidsAre DEF Node, Vids
    <3>6. ASSUME NEW at \in Up(k) \X Node PROVE g[at] = At(g, at)
      <4> DEFINE m == at[1]
      <4>0. m \in Up(k) /\ g[at] = IF m = k THEN (IF k > v THEN f[<<p[k], k>>] ELSE at) ELSE f[at]
        OBVIOUS
      <4>1. CASE m = k
        <5>1. <<p[k], k>> \in Up(k - 1) \X Node
          BY <3>1, <3>5, VidsAre
        <5>2. g[<<p[k], k>>] = f[<<p[k], k>>]
          BY <3>4, <5>1
        <5> HIDE DEF g
        <5> QED BY <1>0, <3>1, <4>0, <4>1, <5>2
      <4>2. CASE m # k
        <5>1. m \in Up(k - 1) /\ at \in Up(k - 1) \X Node
          <6>1. m \in Up(k - 1)
            BY <3>1, <4>0, <4>2
          <6> QED BY <6>1
        <5>2. f[at] = At(f, at)
          BY <3>3, <5>1
        <5>3. m # Null => <<p[m], m>> \in Up(k - 1) \X Node
          <6>1. m # Null => m \in Vids /\ m \in Node /\ p[m] \in Up(m - 1)
            BY <3>5, <4>0
          <6>2. m # Null => p[m] \in Up(k - 1)
            BY <3>1, <5>1, <6>1
          <6> QED BY <6>1, <6>2
        <5>4. m # Null => g[<<p[m], m>>] = f[<<p[m], m>>]
          BY <3>4, <5>3
        <5> HIDE DEF g
        <5> QED BY <4>0, <4>2, <5>2, <5>4
      <4> QED BY <4>1, <4>2
    <3>7. g = [at \in Up(k) \X Node |-> g[at]]
      OBVIOUS
    <3>8. Solves(g, k)
      BY <3>6, <3>7
    <3> QED BY <2>1, <3>8
  <2> QED BY <2>2, <2>3
<1>2. \E f : Solves(f, MaxVid)
  <2>1. MaxVid \notin T
    BY <1>1
  <2>2. MaxVid \in Nat /\ MaxVid <= MaxVid
    BY <1>0
  <2> HIDE DEF Solves
  <2> QED BY <2>1, <2>2
<1> PICK f : Solves(f, MaxVid)
  BY <1>2
<1>3. Up(MaxVid) = Node
  BY DEF Node, Vids
<1>4. f = [at \in Node \X Node |-> IF at[1] # Null /\ at[1] > v THEN f[<<p[at[1]], at[1]>>] ELSE at]
  BY <1>3
<1>5. PICK walk : /\ walk = [at \in Node \X Node |->
                                IF at[1] # Null /\ at[1] > v THEN walk[<<p[at[1]], at[1]>>] ELSE at]
                  /\ Seek(p, t, v) = walk[<<t, Null>>]
  BY <1>4 DEF Seek
<1>6. ASSUME NEW m \in Node, NEW after \in Node
      PROVE  walk[<<m, after>>] = IF m # Null /\ m > v THEN walk[<<p[m], m>>] ELSE <<m, after>>
  <2>1. <<m, after>> \in Node \X Node /\ <<m, after>>[1] = m
    OBVIOUS
  <2> QED BY <1>5, <2>1
<1> QED BY <1>5, <1>6

\* The place of v in a chain: at[1] and at[2] are the neighbours v will have.
IsPlace(I, t, p, n, v, at) ==
    /\ at[1] \in I \cup {Null} /\ at[2] \in I \cup {Null}
    /\ at[1] # Null => at[1] < v /\ n[at[1]] = at[2]
    /\ at[2] # Null => at[2] > v /\ p[at[2]] = at[1]
    /\ at[1] = Null => at[2] # Null
    /\ at[1] = t <=> at[2] = Null

\* Walking back from the tail ends at the place of an id the chain does not have.
LEMMA SeekFindsPlace ==
  ASSUME NEW I, NEW t, NEW p, NEW n, Chain(I, t, p, n), NEW v \in Vids, v \notin I
  PROVE  IsPlace(I, t, p, n, v, Seek(p, t, v))
<1>1. /\ p \in [Vids -> Node] /\ t \in I /\ t \in Vids /\ t \in Node /\ I \subseteq Vids /\ Null \in Node
      /\ \A m \in Vids : p[m] # Null => p[m] < m
  BY VidsAre DEF Chain, Node
<1>2. PICK walk : /\ Seek(p, t, v) = walk[<<t, Null>>]
                  /\ \A m \in Node, after \in Node :
                       walk[<<m, after>>] = IF m # Null /\ m > v THEN walk[<<p[m], m>>] ELSE <<m, after>>
  BY <1>1, SeekWalks
<1> DEFINE Before(m, after) == \/ m = t /\ after = Null
                               \/ after \in I /\ after > v /\ p[after] = m
           Found(m) == \A after \in Node : Before(m, after) => IsPlace(I, t, p, n, v, walk[<<m, after>>])
           T == {m \in I : ~ Found(m)}
<1>3. Found(Null)
  <2> SUFFICES ASSUME NEW after \in Node, Before(Null, after)
               PROVE  IsPlace(I, t, p, n, v, walk[<<Null, after>>])
    OBVIOUS
  <2>1. walk[<<Null, after>>] = <<Null, after>>
    BY <1>1, <1>2
  <2>2. t # Null /\ after \in I /\ after > v /\ p[after] = Null /\ after # Null
    BY <1>1, VidsAre
  <2> QED BY <2>1, <2>2 DEF IsPlace
<1>4. T = {}
  <2> SUFFICES ASSUME T # {} PROVE FALSE
    OBVIOUS
  <2>1. T \subseteq Nat
    BY <1>1, VidsAre
  <2>2. PICK m \in T : \A j \in T : m <= j
    BY <2>1, Least
  <2>3. m \in I /\ m \in Vids /\ m \in Node /\ m # Null /\ m \in Nat /\ v \in Nat
    BY <1>1, VidsAre
  <2>4. ASSUME NEW after \in Node, Before(m, after) PROVE IsPlace(I, t, p, n, v, walk[<<m, after>>])
    <3>1. walk[<<m, after>>] = IF m > v THEN walk[<<p[m], m>>] ELSE <<m, after>>
      BY <1>2, <2>3
    <3>2. CASE m > v
      <4>1. p[m] # Null => p[m] \in I /\ p[m] < m
        BY <2>3 DEF Chain
      <4>2. Found(p[m])
        <5>1. CASE p[m] = Null
          BY <1>3, <5>1
        <5>2. CASE p[m] # Null
          <6>1. p[m] \in I /\ p[m] \in Nat /\ p[m] < m
            BY <1>1, <4>1, <5>2, VidsAre
          <6>2. p[m] \notin T
            BY <2>2, <2>3, <6>1
          <6> QED BY <6>1, <6>2
        <5> QED BY <5>1, <5>2
      <4>3. Before(p[m], m)
        BY <2>3, <3>2
      <4> HIDE DEF Before
      <4> QED BY <2>3, <3>1, <3>2, <4>2, <4>3
    <3>3. CASE ~ (m > v)
      <4>1. m < v
        BY <2>3, <3>3
      <4>2. after # Null => after \in I /\ after > v /\ p[after] = m
        BY <2>4
      <4>3. after = Null => m = t
        BY <1>1, <2>4, VidsAre
      <4>4. n[m] = after
        BY <2>3, <4>2, <4>3 DEF Chain
      <4>5. m = t => after = Null
        BY <4>4 DEF Chain
      <4>6. walk[<<m, after>>] = <<m, after>>
        BY <3>1, <3>3
      <4>7. after \in I \cup {Null}
        BY <4>2
      <4> HIDE DEF Before
      <4> QED BY <2>3, <4>1, <4>2, <4>3, <4>4, <4>5, <4>6, <4>7 DEF IsPlace
    <3> QED BY <3>2, <3>3
  <2> QED BY <2>2, <2>4
<1>5. Found(t) /\ Before(t, Null)
  BY <1>1, <1>4
<1> QED BY <1>1, <1>2, <1>5

-----------------------------------------------------------------------------
(* The operations on a chain.                                               *)

\* A new id between its neighbours keeps the chain.
LEMMA InsertKeepsChain ==
  ASSUME NEW I, NEW t, NEW p, NEW n, Chain(I, t, p, n), NEW v \in Vids, v \notin I,
         NEW at, IsPlace(I, t, p, n, v, at)
  PROVE  Chain(I \cup {v}, IF at[1] = t THEN v ELSE t,
               [w \in Vids |-> IF w = v THEN at[1] ELSE IF w = at[2] THEN v ELSE p[w]],
               [w \in Vids |-> IF w = v THEN at[2] ELSE IF w = at[1] THEN v ELSE n[w]])
<1> DEFINE a == at[1]
           b == at[2]
           J == I \cup {v}
           P == [w \in Vids |-> IF w = v THEN a ELSE IF w = b THEN v ELSE p[w]]
           N == [w \in Vids |-> IF w = v THEN b ELSE IF w = a THEN v ELSE n[w]]
           last == IF a = t THEN v ELSE t
<1>1. /\ I \subseteq Vids /\ t \in I /\ v \in Nat /\ v # Null
      /\ \A w \in I : w \in Nat /\ w # Null /\ w \in Node /\ w # v
      /\ a \in I \cup {Null} /\ b \in I \cup {Null} /\ a \in Node /\ b \in Node
  BY VidsAre DEF Chain, IsPlace, Node
<1>2. \A w \in I : w > v \/ (a # Null /\ w <= a)
  <2> SUFFICES ASSUME NEW w \in I, ~ (w > v) PROVE a # Null /\ w <= a
    OBVIOUS
  <2>1. CASE b = Null
    BY <1>1, <2>1 DEF Chain, IsPlace
  <2>2. CASE b # Null
    <3>1. b \in I /\ b > v /\ p[b] = a /\ b \in Nat
      BY <1>1, <2>2 DEF IsPlace
    <3>2. ~ (b <= w)
      BY <1>1, <3>1
    <3>3. a # Null
      BY <3>1, <3>2 DEF Chain
    <3>4. a \in I /\ n[a] = b
      BY <1>1, <3>3 DEF IsPlace
    <3> QED BY <2>2, <3>2, <3>3, <3>4 DEF Chain
  <2> QED BY <2>1, <2>2
<1>3. \A w \in I : w < v \/ (b # Null /\ b <= w)
  <2> SUFFICES ASSUME NEW w \in I, ~ (w < v) PROVE b # Null /\ b <= w
    OBVIOUS
  <2>1. CASE a = Null
    BY <1>1, <2>1 DEF Chain, IsPlace
  <2>2. CASE a # Null
    <3>1. a \in I /\ a < v /\ n[a] = b /\ a \in Nat
      BY <1>1, <2>2 DEF IsPlace
    <3>2. ~ (w <= a)
      BY <1>1, <3>1
    <3>3. b # Null
      BY <1>1, <3>1, <3>2 DEF Chain, IsPlace
    <3> QED BY <3>1, <3>2, <3>3 DEF Chain
  <2> QED BY <2>1, <2>2
<1>4. /\ J \subseteq Vids /\ P \in [Vids -> Node] /\ N \in [Vids -> Node]
  BY <1>1, VidsAre DEF Chain
<1>5. /\ P[v] = a /\ N[v] = b
      /\ \A w \in I : P[w] = (IF w = b THEN v ELSE p[w]) /\ N[w] = (IF w = a THEN v ELSE n[w])
      /\ \A w \in Vids : w \notin J => P[w] = p[w] /\ N[w] = n[w]
  <2>1. \A w \in Vids : w # Null
    BY VidsAre
  <2>2. \A w \in Vids : w \notin J => w # v /\ w # a /\ w # b
    BY <1>1, <2>1
  <2>3. \A w \in I : w \in Vids /\ w # v
    BY <1>1
  <2> HIDE DEF a, b, J
  <2> QED BY <2>2, <2>3
<1> HIDE DEF P, N
<1>6. last \in J /\ N[last] = Null /\ \A w \in J : w <= last
  <2>1. CASE a = t
    <3>1. b = Null
      BY <2>1 DEF IsPlace
    <3>2. \A w \in I : w < v
      BY <1>3, <3>1
    <3> QED BY <1>1, <1>5, <2>1, <3>1, <3>2
  <2>2. CASE a # t
    <3>1. b # Null /\ b \in I /\ b > v /\ b <= t
      BY <1>1, <2>2 DEF IsPlace, Chain
    <3>2. last = t /\ N[t] = Null /\ \A w \in I : w <= t
      BY <1>1, <1>5, <2>2 DEF Chain
    <3>3. b \in Nat /\ t \in Nat /\ v <= t
      <4>1. b \in Nat /\ t \in Nat /\ v \in Nat
        BY <1>1, <3>1
      <4> HIDE DEF b
      <4> QED BY <3>1, <4>1
    <3> QED BY <1>1, <3>2, <3>3
  <2> QED BY <2>1, <2>2
<1>7. ASSUME NEW w \in J
      PROVE  /\ P[w] # Null => P[w] \in J /\ P[w] < w /\ N[P[w]] = w
             /\ P[w] = Null => \A u \in J : w <= u
  <2>1. CASE w = v
    <3>1. a # Null => a \in I /\ a < v /\ N[a] = v
      BY <1>1, <1>5 DEF IsPlace
    <3>2. a = Null => \A u \in I : v < u
      BY <1>1, <1>2
    <3> QED BY <1>1, <1>5, <2>1, <3>1, <3>2
  <2>2. CASE w # v /\ w = b
    <3>1. P[w] = v /\ v < w /\ N[v] = w
      BY <1>1, <1>5, <2>2 DEF IsPlace
    <3> QED BY <1>1, <3>1
  <2>3. CASE w # v /\ w # b
    <3>1. w \in I /\ P[w] = p[w]
      BY <1>5, <2>3
    <3>2. p[w] # Null => p[w] # a
      <4> SUFFICES ASSUME p[w] # Null, p[w] = a PROVE FALSE
        OBVIOUS
      <4>1. a \in I /\ n[a] = w
        BY <3>1 DEF Chain
      <4> QED BY <1>1, <2>3, <4>1 DEF IsPlace
    <3>3. p[w] # Null => p[w] \in I /\ p[w] < w /\ N[p[w]] = w
      BY <1>5, <3>1, <3>2 DEF Chain
    <3>4. p[w] = Null => \A u \in I : w <= u
      BY <3>1 DEF Chain
    <3>5. p[w] = Null => w <= v
      <4> SUFFICES ASSUME p[w] = Null, ~ (w <= v) PROVE FALSE
        OBVIOUS
      <4>1. b # Null /\ b <= w
        BY <1>1, <1>3, <3>1
      <4>2. b \in I /\ w <= b
        BY <1>1, <3>4, <4>1
      <4>3. b \in Nat /\ w \in Nat
        BY <1>1, <3>1, <4>2
      <4>4. w = b
        BY <4>1, <4>2, <4>3
      <4> QED BY <2>3, <4>4
    <3> QED BY <3>1, <3>3, <3>4, <3>5
  <2> QED BY <2>1, <2>2, <2>3
<1>8. ASSUME NEW w \in J
      PROVE  /\ N[w] # Null => N[w] \in J /\ N[w] > w /\ P[N[w]] = w /\ \A u \in J : u <= w \/ N[w] <= u
             /\ N[w] = Null => w = last
  <2>1. CASE w = v
    <3>1. b # Null => b \in I /\ b > v /\ P[b] = v
      BY <1>1, <1>5 DEF IsPlace
    <3>2. b # Null => \A u \in J : u <= v \/ b <= u
      BY <1>1, <1>3
    <3>3. b = Null => v = last
      BY DEF IsPlace
    <3> QED BY <1>5, <2>1, <3>1, <3>2, <3>3
  <2>2. CASE w # v /\ w = a
    <3>1. w \in I /\ N[w] = v /\ v > w /\ P[v] = w
      BY <1>1, <1>5, <2>2 DEF IsPlace
    <3>2. \A u \in J : u <= w \/ v <= u
      BY <1>1, <1>2, <2>2
    <3> QED BY <1>1, <3>1, <3>2
  <2>3. CASE w # v /\ w # a
    <3>1. w \in I /\ N[w] = n[w]
      BY <1>5, <2>3
    <3>2. n[w] # Null => n[w] # b
      <4> SUFFICES ASSUME n[w] # Null, n[w] = b PROVE FALSE
        OBVIOUS
      <4>1. b \in I /\ p[b] = w
        BY <3>1 DEF Chain
      <4> QED BY <1>1, <2>3, <4>1 DEF IsPlace
    <3>3. n[w] # Null => n[w] \in I /\ n[w] > w /\ P[n[w]] = w /\ \A u \in I : u <= w \/ n[w] <= u
      BY <1>5, <3>1, <3>2 DEF Chain
    <3>4. n[w] # Null => v <= w \/ n[w] <= v
      <4> SUFFICES ASSUME n[w] # Null, ~ (v <= w), ~ (n[w] <= v) PROVE FALSE
        OBVIOUS
      <4>1. a # Null /\ w <= a
        BY <1>1, <1>2, <3>1
      <4>2. a \in I /\ a < v /\ a \in Nat
        BY <1>1, <4>1 DEF IsPlace
      <4>3. a <= w \/ n[w] <= a
        BY <3>3, <4>2
      <4>4. n[w] \in Nat
        BY <1>1, <3>3
      <4> QED BY <1>1, <2>3, <3>1, <4>1, <4>2, <4>3, <4>4
    <3>5. n[w] = Null => w = t /\ a # t
      BY <2>3, <3>1 DEF Chain
    <3> QED BY <3>1, <3>3, <3>4, <3>5
  <2> QED BY <2>1, <2>2, <2>3
<1>9. \A w \in Vids : w \notin J => P[w] = Null /\ N[w] = Null
  BY <1>5 DEF Chain
<1>10. Chain(J, last, P, N)
  <2> HIDE DEF J, last
  <2> QED BY <1>4, <1>6, <1>7, <1>8, <1>9 DEF Chain
<1> QED BY <1>10 DEF P, N

\* Without v, whose neighbours get linked, the chain is a chain.
LEMMA RemoveKeepsChain ==
  ASSUME NEW I, NEW t, NEW p, NEW n, Chain(I, t, p, n), NEW v \in I, I # {v}
  PROVE  Chain(I \ {v}, IF t = v THEN p[v] ELSE t,
               [w \in Vids |-> IF w = v THEN Null ELSE IF w = n[v] THEN p[v] ELSE p[w]],
               [w \in Vids |-> IF w = v THEN Null ELSE IF w = p[v] THEN n[v] ELSE n[w]])
<1> DEFINE a == p[v]
           b == n[v]
           J == I \ {v}
           P == [w \in Vids |-> IF w = v THEN Null ELSE IF w = b THEN a ELSE p[w]]
           N == [w \in Vids |-> IF w = v THEN Null ELSE IF w = a THEN b ELSE n[w]]
           last == IF t = v THEN a ELSE t
<1>1. /\ I \subseteq Vids /\ v \in Vids /\ t \in I /\ Null \notin Vids /\ n[t] = Null
      /\ \A w \in I : w \in Nat /\ w # Null /\ w \in Node /\ w <= t
      /\ a \in I \cup {Null} /\ b \in I \cup {Null} /\ a \in Node /\ b \in Node /\ Null \in Node
      /\ p \in [Vids -> Node] /\ n \in [Vids -> Node]
  BY VidsAre, ChainOK DEF Chain, Node
<1>2. /\ a # Null => a \in J /\ a < v /\ n[a] = v
      /\ b # Null => b \in J /\ b > v /\ p[b] = v
  BY <1>1 DEF Chain
<1>3. b # Null => \A w \in J : w < v \/ b <= w
  <2> SUFFICES ASSUME b # Null, NEW w \in J PROVE w < v \/ b <= w
    OBVIOUS
  <2>1. w <= v \/ b <= w
    BY DEF Chain
  <2> QED BY <1>1, <2>1
<1>4. a # Null => \A w \in J : w <= a \/ v < w
  <2> SUFFICES ASSUME a # Null, NEW w \in J PROVE w <= a \/ v < w
    OBVIOUS
  <2>1. a \in I /\ n[a] = v /\ v # Null
    BY <1>1, <1>2
  <2>2. w <= a \/ v <= w
    BY <2>1 DEF Chain
  <2> QED BY <1>1, <2>2
<1>5. /\ \A w \in J : /\ w \in Vids /\ w \in I /\ w # v
                      /\ P[w] = (IF w = b THEN a ELSE p[w]) /\ N[w] = (IF w = a THEN b ELSE n[w])
      /\ \A w \in Vids : w \notin J => P[w] = Null /\ N[w] = Null
  <2>1. \A w \in Vids : w \notin J /\ w # v => w # a /\ w # b
    BY <1>1
  <2>2. \A w \in Vids : w \notin J /\ w # v => p[w] = Null /\ n[w] = Null
    BY DEF Chain
  <2>3. \A w \in J : w \in Vids /\ w \in I /\ w # v
    BY <1>1
  <2> HIDE DEF a, b, J
  <2> QED BY <2>1, <2>2, <2>3
<1>6. P \in [Vids -> Node] /\ N \in [Vids -> Node] /\ J \subseteq Vids
  <2> HIDE DEF a, b
  <2> QED BY <1>1
<1> HIDE DEF P, N
<1>7. last \in J /\ N[last] = Null /\ \A w \in J : w <= last
  <2>1. CASE t = v
    <3>1. b = Null
      BY <1>1, <2>1
    <3>2. a # Null
      <4> SUFFICES ASSUME a = Null PROVE FALSE
        OBVIOUS
      <4>1. \A w \in I : v <= w
        BY DEF Chain
      <4>2. \A w \in I : w = v
        BY <1>1, <2>1, <4>1
      <4> QED BY <4>2
    <3>3. a \in J /\ N[a] = Null
      BY <1>2, <1>5, <3>1, <3>2
    <3>4. \A w \in J : w <= a
      BY <1>1, <1>4, <2>1, <3>2
    <3> QED BY <2>1, <3>3, <3>4
  <2>2. CASE t # v
    <3>1. t \in J /\ last = t
      BY <1>1, <2>2
    <3>2. t = a => FALSE
      BY <1>1, <1>2
    <3> QED BY <1>1, <1>5, <3>1, <3>2
  <2> QED BY <2>1, <2>2
<1>8. ASSUME NEW w \in J
      PROVE  /\ P[w] # Null => P[w] \in J /\ P[w] < w /\ N[P[w]] = w
             /\ P[w] = Null => \A u \in J : w <= u
  <2>0. w \in I /\ w # v /\ w \in Nat /\ w # Null /\ v \in Nat
    BY <1>1
  <2>1. CASE w = b
    <3>1. b # Null /\ P[w] = a /\ w > v
      BY <1>2, <1>5, <2>0, <2>1
    <3>2. a # Null => a \in J /\ a \in Nat /\ a < w /\ N[a] = w
      <4> SUFFICES ASSUME a # Null PROVE a \in J /\ a \in Nat /\ a < w /\ N[a] = w
        OBVIOUS
      <4>1. a \in J /\ a \in Nat /\ a < v
        BY <1>1, <1>2
      <4>2. N[a] = b
        BY <1>5, <4>1
      <4> HIDE DEF a, b, J
      <4> QED BY <2>0, <2>1, <3>1, <4>1, <4>2
    <3>3. a = Null => \A u \in I : v <= u
      BY DEF Chain
    <3>4. a = Null => \A u \in J : w <= u
      <4> SUFFICES ASSUME a = Null, NEW u \in J PROVE w <= u
        OBVIOUS
      <4>1. v <= u /\ (u < v \/ b <= u)
        BY <1>3, <3>1, <3>3
      <4> QED BY <1>1, <2>1, <2>0, <4>1
    <3> QED BY <3>1, <3>2, <3>4
  <2>2. CASE w # b
    <3>1. P[w] = p[w]
      BY <1>5, <2>2
    <3>2. p[w] # Null => p[w] \in I /\ p[w] < w /\ n[p[w]] = w
      BY <2>0 DEF Chain
    <3>3. p[w] # Null => p[w] # v /\ p[w] # a
      BY <1>2, <2>0, <2>2, <3>2
    <3>4. p[w] = Null => \A u \in I : w <= u
      BY <2>0 DEF Chain
    <3> QED BY <1>5, <3>1, <3>2, <3>3, <3>4
  <2> QED BY <2>1, <2>2
<1>9. ASSUME NEW w \in J
      PROVE  /\ N[w] # Null => N[w] \in J /\ N[w] > w /\ P[N[w]] = w /\ \A u \in J : u <= w \/ N[w] <= u
             /\ N[w] = Null => w = last
  <2>0. w \in I /\ w # v /\ w \in Nat /\ w # Null /\ v \in Nat
    BY <1>1
  <2>1. CASE w = a
    <3>1. a # Null /\ N[w] = b /\ w < v
      BY <1>2, <1>5, <2>0, <2>1
    <3>2. b # Null => b \in J /\ b \in Nat /\ b > w /\ P[b] = w
      <4> SUFFICES ASSUME b # Null PROVE b \in J /\ b \in Nat /\ b > w /\ P[b] = w
        OBVIOUS
      <4>1. b \in J /\ b \in Nat /\ b > v
        BY <1>1, <1>2
      <4>2. P[b] = a
        BY <1>5, <4>1
      <4> HIDE DEF a, b, J
      <4> QED BY <2>0, <2>1, <3>1, <4>1, <4>2
    <3>3. b # Null => \A u \in J : u <= w \/ b <= u
      <4> SUFFICES ASSUME b # Null, NEW u \in J PROVE u <= w \/ b <= u
        OBVIOUS
      <4>1. (u < v \/ b <= u) /\ (u <= a \/ v < u) /\ u \in Nat
        BY <1>1, <1>3, <1>4, <3>1
      <4> QED BY <2>0, <2>1, <4>1
    <3>4. b = Null => v = t
      BY DEF Chain
    <3> QED BY <2>1, <3>1, <3>2, <3>3, <3>4
  <2>2. CASE w # a
    <3>1. N[w] = n[w]
      BY <1>5, <2>2
    <3>2. /\ n[w] # Null => n[w] \in I /\ n[w] > w /\ p[n[w]] = w /\ \A u \in I : u <= w \/ n[w] <= u
          /\ n[w] = Null => w = t
      BY <2>0 DEF Chain
    <3>3. n[w] # Null => n[w] # v /\ n[w] # b
      BY <1>2, <2>0, <2>2, <3>2
    <3>4. n[w] # Null => n[w] \in J /\ P[n[w]] = w
      BY <1>5, <3>2, <3>3
    <3> QED BY <2>0, <3>1, <3>2, <3>4
  <2> QED BY <2>1, <2>2
<1>10. Chain(J, last, P, N)
  <2> HIDE DEF J, last
  <2> QED BY <1>5, <1>6, <1>7, <1>8, <1>9 DEF Chain
<1> QED BY <1>10 DEF P, N

\* Removing the last id leaves no link.
LEMMA RemoveLast ==
  ASSUME NEW t, NEW p, NEW n, NEW v, Chain({v}, t, p, n)
  PROVE  /\ t = v /\ p[v] = Null /\ n[v] = Null
         /\ \A w \in Vids : w # v => p[w] = Null /\ n[w] = Null
<1>1. v \in Nat /\ t = v /\ n[v] = Null
  BY VidsAre DEF Chain
<1>2. p[v] = Null
  <2> SUFFICES ASSUME p[v] # Null PROVE FALSE
    OBVIOUS
  <2>1. p[v] = v /\ p[v] < v
    BY DEF Chain
  <2> QED BY <1>1, <2>1
<1> QED BY <1>1, <1>2 DEF Chain

\* The dummy head of a new chain.
LEMMA NewChain ==
  Chain({0}, 0, [v \in Vids |-> Null], [v \in Vids |-> Null])
<1>1. 0 \in Vids /\ Null \in Node
  BY ChainOK DEF Vids, Node
<1> QED BY <1>1 DEF Chain

-----------------------------------------------------------------------------
(* The map's operations.                                                    *)

LEMMA LinkedInsert ==
  ASSUME Linked, NEW v \in Vids, Insert(v)
  PROVE  Linked' /\ version_idx' = (IF version_idx = {} THEN {0, v} ELSE version_idx \cup {v})
<1> DEFINE idx == IF tail = Null THEN {0} ELSE version_idx
           last == IF tail = Null THEN 0 ELSE tail
           at == Seek(prev, last, v)
<1>1. /\ Chain(idx, last, prev, next)
      /\ version_idx = {} => idx = {0}
      /\ version_idx # {} => idx = version_idx
  <2>1. CASE Empty
    BY <2>1, NewChain DEF Empty
  <2>2. CASE ~ Empty
    <3>1. Chain(version_idx, tail, prev, next)
      BY <2>2 DEF Linked
    <3>2. tail \in version_idx /\ tail # Null
      BY <3>1, VidsAre DEF Chain
    <3> QED BY <3>1, <3>2
  <2> QED BY <2>1, <2>2
<1>2. CASE v \in idx
  <2>1. version_idx' = idx /\ tail' = last /\ UNCHANGED <<prev, next>>
    BY <1>2 DEF Insert
  <2>2. Chain(version_idx', tail', prev', next')
    BY <1>1, <2>1
  <2>3. {0} \cup {v} = {0, v} /\ idx \cup {v} = idx
    BY <1>2
  <2> QED BY <1>1, <2>1, <2>2, <2>3 DEF Linked
<1>3. CASE v \notin idx
  <2>1. IsPlace(idx, last, prev, next, v, at)
    BY <1>1, <1>3, SeekFindsPlace
  <2>2. /\ version_idx' = idx \cup {v}
        /\ prev' = [w \in Vids |-> IF w = v THEN at[1] ELSE IF w = at[2] THEN v ELSE prev[w]]
        /\ next' = [w \in Vids |-> IF w = v THEN at[2] ELSE IF w = at[1] THEN v ELSE next[w]]
        /\ tail' = IF at[1] = last THEN v ELSE last
    BY <1>3 DEF Insert
  <2>3. Chain(version_idx', tail', prev', next')
    <3> HIDE DEF idx, last, at
    <3> QED BY <1>1, <1>3, <2>1, <2>2, InsertKeepsChain
  <2>4. {0} \cup {v} = {0, v}
    OBVIOUS
  <2> QED BY <1>1, <2>2, <2>3, <2>4 DEF Linked
<1> QED BY <1>2, <1>3

LEMMA LinkedRemove ==
  ASSUME Linked, NEW v \in Vids, Remove(v)
  PROVE  Linked'
<1>1. CASE v \notin version_idx
  BY <1>1 DEF Remove, Linked, Empty
<1>2. CASE v \in version_idx
  <2>1. Chain(version_idx, tail, prev, next)
    BY <1>2 DEF Linked, Empty
  <2>2. /\ version_idx' = version_idx \ {v}
        /\ prev' = [w \in Vids |-> IF w = v THEN Null ELSE IF w = next[v] THEN prev[v] ELSE prev[w]]
        /\ next' = [w \in Vids |-> IF w = v THEN Null ELSE IF w = prev[v] THEN next[v] ELSE next[w]]
        /\ tail' = IF tail = v THEN prev[v] ELSE tail
    BY <1>2 DEF Remove, Unlinked
  <2>3. CASE version_idx = {v}
    <3>1. /\ tail = v /\ prev[v] = Null /\ next[v] = Null
          /\ \A w \in Vids : w # v => prev[w] = Null /\ next[w] = Null
      BY <2>1, <2>3, RemoveLast
    <3> QED BY <2>2, <2>3, <3>1 DEF Linked, Empty
  <2>4. CASE version_idx # {v}
    <3>1. Chain(version_idx \ {v}, IF tail = v THEN prev[v] ELSE tail,
             [w \in Vids |-> IF w = v THEN Null ELSE IF w = next[v] THEN prev[v] ELSE prev[w]],
             [w \in Vids |-> IF w = v THEN Null ELSE IF w = prev[v] THEN next[v] ELSE next[w]])
      BY <1>2, <2>1, <2>4, RemoveKeepsChain
    <3>2. Chain(version_idx', tail', prev', next')
      BY <2>2, <3>1
    <3> QED BY <3>2 DEF Linked
  <2> QED BY <2>3, <2>4
<1> QED BY <1>1, <1>2

\* The links, the index and the tail agree in every reachable state.
LEMMA AlwaysLinked == Spec => []Linked
<1>1. Init => Linked
  BY DEF Init, Linked, Empty
<1>2. Linked /\ [Next]_vars => Linked'
  <2> SUFFICES ASSUME Linked, [Next]_vars PROVE Linked'
    OBVIOUS
  <2>1. CASE Next
    BY <2>1, LinkedInsert, LinkedRemove DEF Next
  <2>2. CASE UNCHANGED vars
    BY <2>2 DEF vars, Linked, Empty
  <2> QED BY <2>1, <2>2
<1> QED BY <1>1, <1>2, PTL DEF Spec

\* The links run through exactly the indexed versions, in ascending order and the
\* same way forwards and backwards: VersionChain::insert and ::remove never leave a
\* node behind that version_idx_ still names, and never link one they deleted.
THEOREM StaysWellLinked == Spec => []WellLinked
<1>1. Linked => WellLinked
  <2> SUFFICES ASSUME Linked PROVE WellLinked
    OBVIOUS
  <2>1. CASE Empty
    <3>1. Null \in Node
      BY DEF Node
    <3>2. TypeOK
      BY <2>1, <3>1 DEF Empty, TypeOK
    <3> QED BY <2>1, <3>2 DEF Empty, WellLinked
  <2>2. CASE ~ Empty
    <3>1. Chain(version_idx, tail, prev, next)
      BY <2>2 DEF Linked
    <3>2. tail \in version_idx /\ tail # Null /\ tail \in Node
      BY <3>1, VidsAre DEF Chain
    <3>3. TypeOK
      BY <3>1, <3>2 DEF Chain, TypeOK
    <3> QED BY <3>1, <3>2, <3>3 DEF Chain, WellLinked
  <2> QED BY <2>1, <2>2
<1> QED BY <1>1, AlwaysLinked, PTL

\* What a removal returns: the links of the node are the ids next to it.
LEMMA RemoveReturnsNeighbours ==
  ASSUME NEW I, NEW t, NEW p, NEW n, Chain(I, t, p, n), NEW v \in I
  PROVE  Set!Neighbours(I, v) = <<IF p[v] # Null THEN p[v] ELSE v - 1,
                                  IF n[v] # Null THEN n[v] ELSE v + 1>>
<1>1. /\ v \in Nat /\ v # Null /\ \A w \in I : w \in Nat /\ w # Null
  BY VidsAre DEF Chain
<1>2. (IF Set!Below(I, v) = {} THEN v - 1 ELSE Set!Max(Set!Below(I, v))) = (IF p[v] # Null THEN p[v] ELSE v - 1)
  <2> DEFINE B == {w \in I : w < v}
  <2>1. CASE p[v] # Null
    <3>1. p[v] \in I /\ p[v] < v /\ n[p[v]] = v
      BY <2>1 DEF Chain
    <3>2. \A w \in I : w <= p[v] \/ v <= w
      BY <1>1, <3>1 DEF Chain
    <3>3. p[v] \in B /\ \A w \in B : w <= p[v]
      BY <1>1, <3>1, <3>2
    <3>4. \A x \in B : (\A w \in B : x >= w) => x = p[v]
      <4> SUFFICES ASSUME NEW x \in B, \A w \in B : x >= w PROVE x = p[v]
        OBVIOUS
      <4>1. x \in Nat /\ p[v] \in Nat /\ x >= p[v] /\ x <= p[v]
        BY <1>1, <3>1, <3>3
      <4> QED BY <4>1
    <3>5. \A w \in B : p[v] >= w
      BY <1>1, <3>1, <3>3
    <3>6. (CHOOSE x \in B : \A w \in B : x >= w) = p[v]
      <4> HIDE DEF B
      <4> QED BY <3>3, <3>4, <3>5
    <3> QED BY <2>1, <3>3, <3>6 DEF Set!Below, Set!Max
  <2>2. CASE p[v] = Null
    <3>1. \A w \in I : v <= w
      BY <2>2 DEF Chain
    <3>2. B = {}
      <4> SUFFICES ASSUME NEW w \in B PROVE FALSE
        OBVIOUS
      <4>1. w \in I /\ w < v
        OBVIOUS
      <4> QED BY <1>1, <3>1, <4>1
    <3> QED BY <2>2, <3>2 DEF Set!Below
  <2> QED BY <2>1, <2>2
<1>3. (IF Set!Above(I, v) = {} THEN v + 1 ELSE Set!Min(Set!Above(I, v))) = (IF n[v] # Null THEN n[v] ELSE v + 1)
  <2> DEFINE A == {w \in I : w > v}
  <2>1. CASE n[v] # Null
    <3>1. n[v] \in I /\ n[v] > v /\ \A w \in I : w <= v \/ n[v] <= w
      BY <2>1 DEF Chain
    <3>2. n[v] \in A /\ \A w \in A : n[v] <= w
      BY <1>1, <3>1
    <3>3. \A x \in A : (\A w \in A : x <= w) => x = n[v]
      <4> SUFFICES ASSUME NEW x \in A, \A w \in A : x <= w PROVE x = n[v]
        OBVIOUS
      <4>1. x \in Nat /\ n[v] \in Nat /\ x <= n[v] /\ n[v] <= x
        BY <1>1, <3>1, <3>2
      <4> QED BY <4>1
    <3>4. (CHOOSE x \in A : \A w \in A : x <= w) = n[v]
      <4> HIDE DEF A
      <4> QED BY <3>2, <3>3
    <3> QED BY <2>1, <3>2, <3>4 DEF Set!Above, Set!Min
  <2>2. CASE n[v] = Null
    <3>1. v = t
      BY <2>2 DEF Chain
    <3>2. A = {}
      <4> SUFFICES ASSUME NEW w \in A PROVE FALSE
        OBVIOUS
      <4>1. w \in I /\ w > v
        OBVIOUS
      <4>2. w <= t
        BY <4>1 DEF Chain
      <4> QED BY <1>1, <3>1, <4>1, <4>2
    <3> QED BY <2>2, <3>2 DEF Set!Above
  <2> QED BY <2>1, <2>2
<1> QED BY <1>2, <1>3 DEF Set!Neighbours

\* VersionMap is a set of version ids per list whose removals return the neighbours
\* of the removed id (or the ids next to it), as the file collection assumes.
THEOREM ImplementsSet == Spec => ImplementsVersionSet
<1>1. Init => Set!Init
  BY DEF Init, Set!Init
<1>2. Linked /\ [Next]_vars => [Set!Next]_(Set!vars)
  <2> SUFFICES ASSUME Linked, [Next]_vars PROVE Set!Next \/ UNCHANGED Set!vars
    OBVIOUS
  <2>1. ASSUME NEW v \in Vids, Insert(v) PROVE Set!Next
    <3>1. version_idx' = Set!Inserted(version_idx, v)
      BY <2>1, LinkedInsert DEF Set!Inserted
    <3>2. UNCHANGED result
      BY <2>1 DEF Insert
    <3>3. Set!Insert(v)
      BY <3>1, <3>2 DEF Set!Insert
    <3> QED BY <3>3 DEF Set!Next, Set!Vids, Vids
  <2>2. ASSUME NEW v \in Vids, Remove(v) PROVE Set!Next
    <3>1. CASE v \notin version_idx
      <4>1. version_idx' = version_idx /\ result' = <<Invalid, Invalid>>
        BY <2>2, <3>1 DEF Remove
      <4>2. version_idx \ {v} = version_idx
        BY <3>1
      <4>3. Set!Remove(v)
        BY <3>1, <4>1, <4>2 DEF Set!Remove
      <4> QED BY <4>3 DEF Set!Next, Set!Vids, Vids
    <3>2. CASE v \in version_idx
      <4>1. Chain(version_idx, tail, prev, next)
        BY <3>2 DEF Linked, Empty
      <4>2. /\ version_idx' = version_idx \ {v}
            /\ result' = <<IF prev[v] # Null THEN prev[v] ELSE v - 1, IF next[v] # Null THEN next[v] ELSE v + 1>>
        BY <2>2, <3>2 DEF Remove
      <4>3. result' = Set!Neighbours(version_idx, v)
        BY <3>2, <4>1, <4>2, RemoveReturnsNeighbours
      <4>4. Set!Remove(v)
        BY <3>2, <4>2, <4>3 DEF Set!Remove
      <4> QED BY <4>4 DEF Set!Next, Set!Vids, Vids
    <3> QED BY <3>1, <3>2
  <2>3. ASSUME UNCHANGED vars PROVE UNCHANGED Set!vars
    BY <2>3 DEF vars, Set!vars
  <2> QED BY <2>1, <2>2, <2>3 DEF Next
<1> QED BY <1>1, <1>2, AlwaysLinked, PTL DEF Spec, ImplementsVersionSet, Set!Spec
=============================================================================
