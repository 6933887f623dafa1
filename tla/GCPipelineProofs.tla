-------------------------- MODULE GCPipelineProofs --------------------------
(***************************************************************************)
(* The collector for any graph, any number of slots, tasks and rows, and   *)
(* whatever statements fail: the invariant of GCInvariant is inductive,    *)
(* and from it follow the types, the counts, the vertex maps and that      *)
(* nothing live is collected; the pipeline implements CatalogGC; and in a  *)
(* schema without cycles it leaks nothing.                                 *)
(*                                                                         *)
(* First sums and histories, which know nothing of the pipeline; then the  *)
(* invariant's three parts, a lemma for every action; then what they say.  *)
(***************************************************************************)
EXTENDS GCInvariant, FiniteSets, FiniteSetTheorems, WellFoundedInduction, TLAPS

\* Induction: a set of naturals that is not empty has a least element.
LEMMA Least ==
  ASSUME NEW T, T \subseteq Nat, T # {}
  PROVE  \E x \in T : \A y \in T : x <= y
<1> DEFINE R == OpToRel(<, Nat)
<1> HIDE DEF R
<1>1. IsWellFoundedOn(R, Nat)
  BY NatLessThanWellFounded DEF R
<1>2. PICK x \in T : \A y \in T : ~ (<<y, x>> \in R)
  BY <1>1, WFMin
<1>3. ASSUME NEW y \in T PROVE x <= y
  <2>1. x \in Nat /\ y \in Nat /\ (<<y, x>> \in R <=> y < x)
    BY DEF OpToRel, R
  <2> QED BY <1>2, <2>1
<1> QED BY <1>3

\* Induction over the subsets of a finite set.
LEMMA SubsetInduction ==
    ASSUME NEW S, IsFiniteSet(S), NEW G,
           \A D \in SUBSET S : (\A E \in SUBSET D : E # D => E \in G) => D \in G
    PROVE  SUBSET S \subseteq G
<1> DEFINE T == {Cardinality(D) : D \in (SUBSET S) \ G}
<1>1. \A D \in SUBSET S : IsFiniteSet(D) /\ Cardinality(D) \in Nat
  BY FS_Subset, FS_CardinalityType
<1> SUFFICES ASSUME T # {} PROVE FALSE
  OBVIOUS
<1>2. T \subseteq Nat
  BY <1>1
<1> HIDE DEF T
<1>3. PICK n \in T : \A m \in T : n <= m
  BY <1>2, Least
<1>4. PICK D \in (SUBSET S) \ G : n = Cardinality(D)
  BY <1>3 DEF T
<1>5. PICK E \in SUBSET D : E # D /\ E \notin G
  BY <1>4
<1>6. Cardinality(E) < Cardinality(D)
  BY <1>1, <1>4, <1>5, FS_Subset
<1>7. Cardinality(E) \in T /\ Cardinality(E) \in Nat /\ Cardinality(D) \in Nat
  BY <1>1, <1>4, <1>5 DEF T
<1> QED BY <1>3, <1>4, <1>6, <1>7

-----------------------------------------------------------------------------
(* Sums.                                                                    *)

Pick(s) == CHOOSE x \in s : TRUE

Rec(f, D, g) == g = [s \in SUBSET D |-> IF s = {} THEN 0 ELSE f[Pick(s)] + g[s \ {Pick(s)}]]

\* A sum is the value a recursive function has for the whole domain.
LEMMA SumIs ==
    ASSUME NEW f, NEW D
    PROVE  Sum(f, D) = (CHOOSE g : Rec(f, D, g))[D]
BY DEF Sum, SumFunctionOnSet, FoldFunctionOnSet, MapThenFoldSet, Rec, Pick

\* A solution of the recursion is the only one.
LEMMA RecOnce ==
    ASSUME NEW f, NEW D, IsFiniteSet(D), NEW g, Rec(f, D, g), NEW h, Rec(f, D, h)
    PROVE  g[D] = h[D]
<1> DEFINE G == {E \in SUBSET D : g[E] = h[E]}
<1>1. ASSUME NEW E \in SUBSET D, \A F \in SUBSET E : F # E => F \in G
      PROVE  E \in G
  <2>1. CASE E = {}
    BY <2>1 DEF Rec
  <2>2. CASE E # {}
    <3>1. Pick(E) \in E
      BY <2>2 DEF Pick
    <3> HIDE DEF G
    <3>2. E \ {Pick(E)} \in G
      BY <1>1, <3>1
    <3>3. g[E \ {Pick(E)}] = h[E \ {Pick(E)}]
      BY <3>2 DEF G
    <3>4. g[E] = f[Pick(E)] + g[E \ {Pick(E)}]
      BY <2>2 DEF Rec
    <3>5. h[E] = f[Pick(E)] + h[E \ {Pick(E)}]
      BY <2>2 DEF Rec
    <3> QED BY <3>3, <3>4, <3>5 DEF G
  <2> QED BY <2>1, <2>2
<1> HIDE DEF G
<1>2. D \in G
  BY <1>1, SubsetInduction
<1> QED BY <1>2 DEF G

\* A sum takes its members one by one.
LEMMA SumUnfolds ==
    ASSUME NEW f, NEW S, IsFiniteSet(S)
    PROVE  Sum(f, S) = IF S = {} THEN 0 ELSE f[Pick(S)] + Sum(f, S \ {Pick(S)})
<1> DEFINE Unfolds(D) == Sum(f, D) = IF D = {} THEN 0 ELSE f[Pick(D)] + Sum(f, D \ {Pick(D)})
           G == {D \in SUBSET S : Unfolds(D)}
<1>1. ASSUME NEW D \in SUBSET S, \A E \in SUBSET D : E # D => E \in G
      PROVE  Unfolds(D)
  <2> DEFINE g == [s \in SUBSET D |-> IF s = {} THEN 0 ELSE f[Pick(s)] + Sum(f, s \ {Pick(s)})]
  <2>1. ASSUME NEW s \in SUBSET D, s # {}
        PROVE  g[s \ {Pick(s)}] = Sum(f, s \ {Pick(s)})
    <3>1. Pick(s) \in s
      BY <2>1 DEF Pick
    <3>2. s \ {Pick(s)} \in SUBSET D /\ s \ {Pick(s)} # D
      BY <3>1
    <3>3. s \ {Pick(s)} \in G
      BY <1>1, <3>2
    <3> QED BY <3>2, <3>3
  <2>2. Rec(f, D, g)
    <3>1. \A s \in SUBSET D : g[s] = IF s = {} THEN 0 ELSE f[Pick(s)] + g[s \ {Pick(s)}]
      BY <2>1
    <3>2. g = [s \in SUBSET D |-> g[s]]
      OBVIOUS
    <3> HIDE DEF g
    <3>3. g = [s \in SUBSET D |-> IF s = {} THEN 0 ELSE f[Pick(s)] + g[s \ {Pick(s)}]]
      BY <3>1, <3>2
    <3> QED BY <3>3 DEF Rec
  <2>3. g[D] = IF D = {} THEN 0 ELSE f[Pick(D)] + Sum(f, D \ {Pick(D)})
    OBVIOUS
  <2> HIDE DEF g
  <2>4. PICK h : Rec(f, D, h) /\ Sum(f, D) = h[D]
    <3>1. Rec(f, D, CHOOSE h : Rec(f, D, h))
      BY <2>2
    <3> QED BY <3>1, SumIs
  <2>5. IsFiniteSet(D)
    BY FS_Subset
  <2>6. Sum(f, D) = g[D]
    BY <2>2, <2>4, <2>5, RecOnce
  <2> QED BY <2>3, <2>6
<1>2. \A D \in SUBSET S : (\A E \in SUBSET D : E # D => E \in G) => D \in G
  BY <1>1
<1> HIDE DEF G
<1>3. S \in G
  BY <1>2, SubsetInduction
<1> QED BY <1>3 DEF G

\* Sums of integers are integers, and do not depend on the order.
LEMMA SumTakes ==
    ASSUME NEW S, IsFiniteSet(S), NEW f, \A x \in S : f[x] \in Int
    PROVE  /\ Sum(f, S) \in Int
           /\ \A x \in S : Sum(f, S) = f[x] + Sum(f, S \ {x})
<1> DEFINE Takes(D) == /\ Sum(f, D) \in Int
                       /\ \A x \in D : Sum(f, D) = f[x] + Sum(f, D \ {x})
           G == {D \in SUBSET S : Takes(D)}
<1>1. ASSUME NEW D \in SUBSET S, \A E \in SUBSET D : E # D => E \in G
      PROVE  Takes(D)
  <2>0. IsFiniteSet(D)
    BY FS_Subset
  <2>1. CASE D = {}
    <3>1. Sum(f, D) = 0
      BY <2>0, <2>1, SumUnfolds
    <3> QED BY <2>1, <3>1
  <2>2. CASE D # {}
    <3> DEFINE p == Pick(D)
    <3>1. p \in D
      BY <2>2 DEF Pick
    <3>2. Sum(f, D) = f[p] + Sum(f, D \ {p})
      BY <2>0, <2>2, SumUnfolds
    <3> HIDE DEF p
    <3>3. \A x \in D : Takes(D \ {x})
      <4>1. ASSUME NEW x \in D PROVE D \ {x} \in G
        <5>1. D \ {x} \in SUBSET D /\ D \ {x} # D
          OBVIOUS
        <5> HIDE DEF G
        <5> QED BY <1>1, <5>1
      <4> QED BY <4>1
    <3>4. Sum(f, D) \in Int
      BY <3>1, <3>2, <3>3
    <3>5. ASSUME NEW x \in D, x # p
          PROVE  Sum(f, D) = f[x] + Sum(f, D \ {x})
      <4>1. /\ x \in D \ {p} /\ p \in D \ {x}
            /\ (D \ {p}) \ {x} = (D \ {x}) \ {p}
        BY <3>1, <3>5
      <4>2. Sum(f, D \ {p}) = f[x] + Sum(f, (D \ {p}) \ {x})
        BY <3>1, <3>3, <4>1
      <4>3. Sum(f, D \ {x}) = f[p] + Sum(f, (D \ {p}) \ {x})
        BY <3>3, <4>1
      <4>4. f[x] \in Int /\ f[p] \in Int /\ Sum(f, D \ {x}) \in Int /\ Sum(f, D \ {p}) \in Int
        BY <3>1, <3>3
      <4> DEFINE rest == Sum(f, (D \ {p}) \ {x})
      <4>5. rest \in Int
        <5>1. D \ {p, x} = (D \ {p}) \ {x}
          OBVIOUS
        <5>2. D \ {p, x} \in SUBSET D /\ D \ {p, x} # D
          BY <3>1
        <5>3. D \ {p, x} \in G
          <6> HIDE DEF G
          <6> QED BY <1>1, <5>2
        <5>4. Sum(f, D \ {p, x}) \in Int
          BY <5>3
        <5> QED BY <5>1, <5>4
      <4> HIDE DEF rest
      <4>6. Sum(f, D \ {p}) = f[x] + rest /\ Sum(f, D \ {x}) = f[p] + rest
        BY <4>2, <4>3 DEF rest
      <4> QED BY <3>2, <4>4, <4>5, <4>6
    <3> QED BY <3>2, <3>4, <3>5
  <2> QED BY <2>1, <2>2
<1>2. \A D \in SUBSET S : (\A E \in SUBSET D : E # D => E \in G) => D \in G
  BY <1>1
<1> HIDE DEF G
<1>3. S \in G
  BY <1>2, SubsetInduction
<1> QED BY <1>3 DEF G

\* Induction over a finite set, member by member.
LEMMA Insertion ==
    ASSUME NEW S, IsFiniteSet(S), NEW G, {} \in G,
           \A D \in SUBSET S : \A x \in S \ D : D \in G => D \cup {x} \in G
    PROVE  S \in G
<1>1. ASSUME NEW D \in SUBSET S, \A E \in SUBSET D : E # D => E \in G
      PROVE  D \in G
  <2>1. CASE D # {}
    <3>1. PICK x \in D : TRUE
      BY <2>1
    <3>2. D \ {x} \in SUBSET D /\ D \ {x} # D /\ x \in S \ (D \ {x}) /\ D = (D \ {x}) \cup {x}
      OBVIOUS
    <3>3. D \ {x} \in G
      BY <1>1, <3>2
    <3> QED BY <3>2, <3>3
  <2> QED BY <2>1
<1> QED BY <1>1, SubsetInduction

\* The sum of nothing.
LEMMA SumEmpty == ASSUME NEW f PROVE Sum(f, {}) = 0
BY SumUnfolds, FS_EmptySet

\* A sum over one element more.
LEMMA SumAdds ==
    ASSUME NEW S, IsFiniteSet(S), NEW x, x \notin S, NEW f, \A y \in S \cup {x} : f[y] \in Int
    PROVE  Sum(f, S \cup {x}) = f[x] + Sum(f, S) /\ Sum(f, S) \in Int
<1>1. IsFiniteSet(S \cup {x}) /\ (S \cup {x}) \ {x} = S
  BY FS_AddElement
<1> QED BY <1>1, SumTakes

\* Sums of sums.
LEMMA SumPlus ==
    ASSUME NEW S, IsFiniteSet(S), NEW f, NEW g, NEW h,
           \A x \in S : f[x] \in Int /\ g[x] \in Int /\ h[x] = f[x] + g[x]
    PROVE  Sum(h, S) = Sum(f, S) + Sum(g, S)
<1> DEFINE G == {D \in SUBSET S : Sum(h, D) = Sum(f, D) + Sum(g, D)}
<1>1. {} \in G
  BY SumEmpty
<1>2. ASSUME NEW D \in SUBSET S, NEW x \in S \ D, D \in G
      PROVE  D \cup {x} \in G
  <2>1. IsFiniteSet(D) /\ Sum(h, D) = Sum(f, D) + Sum(g, D)
    BY <1>2, FS_Subset
  <2>6. x \notin D /\ \A y \in D \cup {x} : f[y] \in Int /\ g[y] \in Int /\ h[y] \in Int
    BY <1>2
  <2>2. Sum(h, D \cup {x}) = h[x] + Sum(h, D)
    BY <2>1, <2>6, SumAdds
  <2>3. Sum(f, D \cup {x}) = f[x] + Sum(f, D) /\ Sum(f, D) \in Int
    BY <2>1, <2>6, SumAdds
  <2>4. Sum(g, D \cup {x}) = g[x] + Sum(g, D) /\ Sum(g, D) \in Int
    BY <2>1, <2>6, SumAdds
  <2>5. D \cup {x} \in SUBSET S /\ f[x] \in Int /\ g[x] \in Int /\ h[x] = f[x] + g[x]
    BY <1>2
  <2> QED BY <2>1, <2>2, <2>3, <2>4, <2>5
<1> HIDE DEF G
<1>3. S \in G
  BY <1>1, <1>2, Insertion
<1> QED BY <1>3 DEF G

\* A sum of zeroes.
LEMMA SumZero ==
    ASSUME NEW S, IsFiniteSet(S), NEW f, \A x \in S : f[x] = 0
    PROVE  Sum(f, S) = 0
<1>1. Sum(f, S) \in Int
  BY SumTakes
<1>3. \A x \in S : f[x] \in Int /\ f[x] = f[x] + f[x]
  OBVIOUS
<1>2. Sum(f, S) = Sum(f, S) + Sum(f, S)
  BY <1>3, SumPlus
<1>4. \A a \in Int : a = a + a => a = 0
  OBVIOUS
<1> QED BY <1>1, <1>2, <1>4

\* Equal terms have equal sums.
LEMMA SumSame ==
    ASSUME NEW S, IsFiniteSet(S), NEW f, NEW g, \A x \in S : f[x] \in Int /\ f[x] = g[x]
    PROVE  Sum(f, S) = Sum(g, S)
<1> DEFINE z == [x \in S |-> 0]
<1>1. Sum(z, S) = 0
  BY SumZero
<1>2. \A x \in S : g[x] \in Int /\ z[x] \in Int /\ f[x] = g[x] + z[x]
  OBVIOUS
<1>3. Sum(g, S) \in Int
  BY <1>2, SumTakes
<1> HIDE DEF z
<1>4. Sum(f, S) = Sum(g, S) + Sum(z, S)
  BY <1>2, SumPlus
<1> QED BY <1>1, <1>3, <1>4

\* Sums of naturals.
LEMMA SumNat ==
    ASSUME NEW S, IsFiniteSet(S), NEW f, \A x \in S : f[x] \in Nat
    PROVE  Sum(f, S) \in Nat /\ \A x \in S : f[x] <= Sum(f, S)
<1> DEFINE G == {D \in SUBSET S : Sum(f, D) \in Nat}
<1>1. {} \in G
  BY SumEmpty
<1>2. ASSUME NEW D \in SUBSET S, NEW x \in S \ D, D \in G
      PROVE  D \cup {x} \in G
  <2>1. IsFiniteSet(D) /\ x \notin D /\ \A y \in D \cup {x} : f[y] \in Int
    BY FS_Subset
  <2>2. Sum(f, D \cup {x}) = f[x] + Sum(f, D)
    BY <2>1, SumAdds
  <2>3. f[x] \in Nat /\ Sum(f, D) \in Nat
    BY <1>2
  <2> QED BY <2>2, <2>3
<1> HIDE DEF G
<1>3. \A D \in SUBSET S : Sum(f, D) \in Nat
  <2> SUFFICES ASSUME NEW D \in SUBSET S PROVE Sum(f, D) \in Nat
    OBVIOUS
  <2>1. D \in G
    BY <1>1, <1>2, Insertion, FS_Subset
  <2> QED BY <2>1 DEF G
<1>4. \A x \in S : Sum(f, S) = f[x] + Sum(f, S \ {x}) /\ f[x] \in Nat /\ Sum(f, S \ {x}) \in Nat
  BY <1>3, SumTakes
<1>5. \A a, b \in Nat : a <= a + b
  OBVIOUS
<1> QED BY <1>3, <1>4, <1>5

\* A sum over two sets that share no element.
LEMMA SumUnion ==
    ASSUME NEW S, NEW T, IsFiniteSet(S), IsFiniteSet(T), S \cap T = {},
           NEW f, \A x \in S \cup T : f[x] \in Int
    PROVE  Sum(f, S \cup T) = Sum(f, S) + Sum(f, T)
<1> DEFINE G == {D \in SUBSET T : Sum(f, S \cup D) = Sum(f, S) + Sum(f, D)}
<1>0. Sum(f, S) \in Int
  BY SumTakes
<1>1. {} \in G
  BY <1>0, SumEmpty
<1>2. ASSUME NEW D \in SUBSET T, NEW x \in T \ D, D \in G
      PROVE  D \cup {x} \in G
  <2>1. IsFiniteSet(D) /\ IsFiniteSet(S \cup D) /\ x \notin D /\ x \notin S \cup D
    BY FS_Subset, FS_Union
  <2>2. Sum(f, D \cup {x}) = f[x] + Sum(f, D) /\ Sum(f, D) \in Int
    BY <2>1, SumAdds
  <2>3. Sum(f, (S \cup D) \cup {x}) = f[x] + Sum(f, S \cup D)
    BY <2>1, SumAdds
  <2>4. (S \cup D) \cup {x} = S \cup (D \cup {x}) /\ f[x] \in Int /\ D \cup {x} \in SUBSET T
    BY <1>2
  <2>5. Sum(f, S \cup D) = Sum(f, S) + Sum(f, D)
    BY <1>2
  <2>6. Sum(f, S \cup (D \cup {x})) = Sum(f, S) + Sum(f, D \cup {x})
    <3>1. \A a, b, c \in Int : a + (b + c) = b + (a + c)
      OBVIOUS
    <3> HIDE DEF G
    <3>2. Sum(f, S \cup (D \cup {x})) = f[x] + (Sum(f, S) + Sum(f, D))
      BY <2>3, <2>4, <2>5
    <3>3. Sum(f, S) + Sum(f, D \cup {x}) = Sum(f, S) + (f[x] + Sum(f, D))
      BY <2>2
    <3> QED BY <1>0, <2>2, <2>4, <3>1, <3>2, <3>3
  <2> QED BY <2>4, <2>6
<1> HIDE DEF G
<1>3. T \in G
  BY <1>1, <1>2, Insertion
<1> QED BY <1>3 DEF G

\* A sum over what a set is mapped to.
LEMMA SumImage ==
    ASSUME NEW T, IsFiniteSet(T), NEW h, \A x, y \in T : h[x] = h[y] => x = y,
           NEW f, NEW g, \A x \in T : g[x] = f[h[x]] /\ g[x] \in Int
    PROVE  IsFiniteSet({h[x] : x \in T}) /\ Sum(f, {h[x] : x \in T}) = Sum(g, T)
<1> DEFINE Image(D) == {h[x] : x \in D}
           G == {D \in SUBSET T : IsFiniteSet(Image(D)) /\ Sum(f, Image(D)) = Sum(g, D)}
<1>1. {} \in G
  <2>1. Image({}) = {}
    OBVIOUS
  <2> QED BY <2>1, SumEmpty, FS_EmptySet
<1>2. ASSUME NEW D \in SUBSET T, NEW x \in T \ D, D \in G
      PROVE  D \cup {x} \in G
  <2>1. IsFiniteSet(D) /\ x \notin D /\ D \cup {x} \in SUBSET T
    BY FS_Subset
  <2>2. Image(D \cup {x}) = Image(D) \cup {h[x]} /\ h[x] \notin Image(D)
    OBVIOUS
  <2>3. \A y \in Image(D) \cup {h[x]} : f[y] \in Int
    OBVIOUS
  <2>4. IsFiniteSet(Image(D)) /\ Sum(f, Image(D)) = Sum(g, D)
    BY <1>2
  <2>5. Sum(g, D \cup {x}) = g[x] + Sum(g, D)
    BY <2>1, SumAdds
  <2>7. g[x] = f[h[x]]
    OBVIOUS
  <2> HIDE DEF Image
  <2>6. Sum(f, Image(D) \cup {h[x]}) = f[h[x]] + Sum(f, Image(D))
    BY <2>2, <2>3, <2>4, SumAdds
  <2>8. IsFiniteSet(Image(D) \cup {h[x]})
    BY <2>4, FS_AddElement
  <2> QED BY <2>1, <2>2, <2>4, <2>5, <2>6, <2>7, <2>8
<1> HIDE DEF G
<1>3. T \in G
  BY <1>1, <1>2, Insertion
<1> QED BY <1>3 DEF G

\* Counting a set by parts.
Share(Q, k, s) == {q \in Q : k[q] = s}

\* The shares of a finite set add up to its cardinality.
LEMMA SumCount ==
    ASSUME NEW S, IsFiniteSet(S), NEW Q, IsFiniteSet(Q), NEW k, \A q \in Q : k[q] \in S,
           NEW f, \A s \in S : f[s] = Cardinality(Share(Q, k, s))
    PROVE  Sum(f, S) = Cardinality(Q)
<1> DEFINE Part(D, s) == {q \in D : k[q] = s}
           Counts(D) == [s \in S |-> Cardinality(Part(D, s))]
           G == {D \in SUBSET Q : Sum(Counts(D), S) = Cardinality(D)}
<1>0. \A D \in SUBSET Q : \A s \in S : IsFiniteSet(D) /\ IsFiniteSet(Part(D, s)) /\ Counts(D)[s] \in Nat
  <2> SUFFICES ASSUME NEW D \in SUBSET Q, NEW s \in S
               PROVE  IsFiniteSet(D) /\ IsFiniteSet(Part(D, s)) /\ Counts(D)[s] \in Nat
    OBVIOUS
  <2>1. Part(D, s) \in SUBSET Q
    OBVIOUS
  <2> HIDE DEF Part
  <2> QED BY <2>1, FS_Subset, FS_CardinalityType
<1>1. {} \in G
  <2>1. \A s \in S : Counts({})[s] = 0
    <3>1. \A s \in S : Part({}, s) = {}
      OBVIOUS
    <3> HIDE DEF Part
    <3> QED BY <3>1, FS_EmptySet
  <2> HIDE DEF Counts
  <2> QED BY <2>1, SumZero, FS_EmptySet
<1>2. ASSUME NEW D \in SUBSET Q, NEW x \in Q \ D, D \in G
      PROVE  D \cup {x} \in G
  <2> DEFINE E == D \cup {x}
             t == k[x]
  <2>0. E \in SUBSET Q /\ t \in S
    OBVIOUS
  <2>1. \A s \in S : Part(E, s) = IF s = t THEN Part(D, s) \cup {x} ELSE Part(D, s)
    OBVIOUS
  <2>2. x \notin Part(D, t)
    OBVIOUS
  <2>3. Counts(D) = [s \in S |-> Cardinality(Part(D, s))] /\ Counts(E) = [s \in S |-> Cardinality(Part(E, s))]
    OBVIOUS
  <2>13. Sum(Counts(D), S) = Cardinality(D)
    BY <1>2
  <2> HIDE DEF Part, Counts, G
  <2>4. \A s \in S : s # t => Counts(E)[s] = Counts(D)[s]
    BY <2>1, <2>3
  <2>5. Counts(E)[t] = Counts(D)[t] + 1
    <3>1. Cardinality(Part(D, t) \cup {x}) = Cardinality(Part(D, t)) + 1
      BY <1>0, <2>0, <2>2, FS_AddElement
    <3> HIDE DEF t, E
    <3> QED BY <2>0, <2>1, <2>3, <3>1
  <2>6. \A s \in S : Counts(E)[s] \in Int /\ Counts(D)[s] \in Int
    BY <1>0, <2>0
  <2>7. Sum(Counts(E), S) = Counts(E)[t] + Sum(Counts(E), S \ {t})
    BY <2>0, <2>6, SumTakes
  <2>8. Sum(Counts(D), S) = Counts(D)[t] + Sum(Counts(D), S \ {t})
    BY <2>0, <2>6, SumTakes
  <2>9. IsFiniteSet(S \ {t})
    BY FS_RemoveElement
  <2>10. Sum(Counts(E), S \ {t}) = Sum(Counts(D), S \ {t}) /\ Sum(Counts(D), S \ {t}) \in Int
    BY <2>4, <2>6, <2>9, SumSame, SumTakes
  <2>11. Cardinality(E) = Cardinality(D) + 1 /\ Cardinality(D) \in Int
    BY <1>0, <1>2, FS_AddElement, FS_CardinalityType, FS_Subset
  <2>12. Sum(Counts(E), S) = Cardinality(E)
    <3> DEFINE a == Sum(Counts(D), S \ {t})
    <3>1. a \in Int /\ Counts(D)[t] \in Int
      BY <2>0, <2>6, <2>10
    <3>2. Sum(Counts(E), S) = (Counts(D)[t] + 1) + a
      BY <2>5, <2>7, <2>10
    <3>3. Cardinality(D) = Counts(D)[t] + a
      BY <2>13, <2>8
    <3> HIDE DEF a, E
    <3> QED BY <3>1, <3>2, <3>3, <2>11
  <2> QED BY <2>0, <2>12 DEF G
<1>3. Q \in G
  <2> HIDE DEF G
  <2> QED BY <1>1, <1>2, Insertion
<1>4. Sum(Counts(Q), S) = Cardinality(Q)
  BY <1>3
<1>5. \A s \in S : Counts(Q)[s] = f[s] /\ Counts(Q)[s] \in Int
  BY <1>0 DEF Share
<1> HIDE DEF Counts
<1> QED BY <1>4, <1>5, SumSame

-----------------------------------------------------------------------------
(* Reachability.                                                            *)

Closed(S, edges) == Catalog!Closed(S, edges)

\* What is reachable: what every closed set of vertices contains.
LEMMA ReachIs ==
    ASSUME NEW edges
    PROVE  Reach(edges) = {v \in Vertices : \A S \in SUBSET Vertices : Closed(S, edges) => v \in S}
BY DEF Reach, Closed, Catalog!Reach

\* A closed set contains what is reachable.
LEMMA ReachIsLeast ==
    ASSUME NEW edges, NEW S \in SUBSET Vertices, Closed(S, edges)
    PROVE  Reach(edges) \subseteq S
BY ReachIs

\* What it takes to be closed.
LEMMA ClosedIs ==
    ASSUME NEW edges, NEW S
    PROVE  Closed(S, edges) <=> Root \in S /\ \A e \in edges : e[1] \in S => e[2] \in S
BY DEF Closed, Catalog!Closed

\* The set of what is reachable is closed itself.
LEMMA ReachIsClosed ==
    ASSUME NEW edges \in SUBSET Schema
    PROVE  /\ Root \in Reach(edges) /\ Reach(edges) \in SUBSET Vertices
           /\ \A e \in edges : e[1] \in Reach(edges) => e[2] \in Reach(edges)
<1>1. Root \in Reach(edges) /\ Reach(edges) \in SUBSET Vertices
  BY PipelineOK, ReachIs, ClosedIs
<1>2. ASSUME NEW e \in edges, e[1] \in Reach(edges)
      PROVE  e[2] \in Reach(edges)
  <2>1. e[2] \in Vertices
    BY PipelineOK
  <2>2. ASSUME NEW S \in SUBSET Vertices, Closed(S, edges)
        PROVE  e[2] \in S
    <3>1. e[1] \in S
      BY <1>2, <2>2, ReachIsLeast
    <3> QED
      BY <2>2, <3>1, ClosedIs
  <2> QED
    BY <2>1, <2>2, ReachIs
<1> QED
  BY <1>1, <1>2

\* More references reach more.
LEMMA ReachIsMonotone ==
    ASSUME NEW more \in SUBSET Schema, NEW fewer \in SUBSET more
    PROVE  Reach(fewer) \subseteq Reach(more)
<1>1. Closed(Reach(more), fewer)
  BY ReachIsClosed, ClosedIs
<1> QED
  BY <1>1, ReachIsClosed, ReachIsLeast

-----------------------------------------------------------------------------
(* Histories: a graph K, and a set U of operations that are still to come.  *)

\* The types of operations, of what they add and of what they drop.
LEMMA OpsOf ==
    ASSUME NEW U \in SUBSET Operation
    PROVE  /\ AddsOf(U) \in SUBSET Schema /\ DropsOf(U) \in SUBSET Schema
           /\ \A r \in U : r.id \in Nat /\ r.op \in {"add", "drop"} /\ r.edge \in Schema
           /\ \A r \in U : r.op = "add" => r.edge \in AddsOf(U)
           /\ \A r \in U : r.op = "drop" => r.edge \in DropsOf(U)
BY DEF Operation, AddsOf, DropsOf

\* A history's graphs are graphs of the schema.
LEMMA GraphIs ==
    ASSUME NEW K \in SUBSET Schema, NEW U \in SUBSET Operation
    PROVE  Graph(K, U) \in SUBSET Schema
BY OpsOf DEF Graph

\* All operations that are to come are a part the engine may apply, and so are none.
LEMMA AllIsCut ==
    ASSUME NEW U PROVE Cut(U, U) /\ Cut({}, U)
BY DEF Cut

\* The steps of the engine.  After one, a part c of the operations that are left leads
\* where c and the operations X it applied led before.
Shift(K, U, O, L, V, P, X) ==
    \A c \in SUBSET V : Cut(c, V) =>
        /\ Cut(c \cup X, U)
        /\ Reach(Graph(L, c)) = Reach(Graph(K, c \cup X))
        /\ Known(P, c) \subseteq Known(O, c \cup X)

\* A step of the engine keeps the promise that what exists and is not reachable
\* is not reachable later.
LEMMA ShiftMonotone ==
    ASSUME NEW K, NEW U, NEW O, NEW L, NEW V, NEW P, NEW X \in SUBSET U,
           V \subseteq U, Shift(K, U, O, L, V, P, X), Monotone(K, U, O)
    PROVE  Monotone(L, V, P)
<1> SUFFICES ASSUME NEW c \in SUBSET V, NEW d \in SUBSET V, Cut(c, V), Cut(d, V), c \subseteq d
             PROVE  Reach(Graph(L, d)) \cap Known(P, c) \subseteq Reach(Graph(L, c))
  BY DEF Monotone
<1>1. /\ Cut(c \cup X, U) /\ Reach(Graph(L, c)) = Reach(Graph(K, c \cup X))
      /\ Known(P, c) \subseteq Known(O, c \cup X)
      /\ Cut(d \cup X, U) /\ Reach(Graph(L, d)) = Reach(Graph(K, d \cup X))
  BY DEF Shift
<1>2. c \cup X \in SUBSET U /\ d \cup X \in SUBSET U /\ c \cup X \subseteq d \cup X
  OBVIOUS
<1>3. Reach(Graph(K, d \cup X)) \cap Known(O, c \cup X) \subseteq Reach(Graph(K, c \cup X))
  BY <1>1, <1>2 DEF Monotone
<1> QED BY <1>1, <1>3

\* What is cut off stays cut off in a step of the engine.
LEMMA ShiftCutOff ==
    ASSUME NEW K, NEW U, NEW O, NEW L, NEW V, NEW P, NEW X \in SUBSET U,
           V \subseteq U, Shift(K, U, O, L, V, P, X), NEW v, CutOff(v, K, U)
    PROVE  CutOff(v, L, V)
<1> SUFFICES ASSUME NEW c \in SUBSET V, Cut(c, V)
             PROVE  v \notin Reach(Graph(L, c))
  BY DEF CutOff
<1>1. Cut(c \cup X, U) /\ Reach(Graph(L, c)) = Reach(Graph(K, c \cup X))
  BY DEF Shift
<1>2. c \cup X \in SUBSET U
  OBVIOUS
<1> QED BY <1>1, <1>2 DEF CutOff

\* A step of the engine keeps the promise that clients refer from what they reach,
\* if what it applies is older than what is left.
LEMMA ShiftSourced ==
    ASSUME NEW K, NEW U, NEW O, NEW L, NEW V, NEW P, NEW X \in SUBSET U, NEW inOrder,
           V \subseteq U, Shift(K, U, O, L, V, P, X), Sourced(K, U, inOrder),
           V \in SUBSET Operation,
           \A r \in V, x \in X : (r.op = "add" \/ inOrder) /\ x.op = "drop" => x.id < r.id,
           \A x \in U : x \in V \/ x \in X
    PROVE  Sourced(L, V, inOrder)
<1> SUFFICES ASSUME NEW r \in V, NEW c \in SUBSET V, Cut(c, V), Around(r, c, V),
                    r.op = "add" \/ inOrder
             PROVE  SourcedBy(r, L, c, inOrder)
  BY OpsOf DEF Sourced, SourcedBy
<1>1. Cut(c \cup X, U) /\ Reach(Graph(L, c)) = Reach(Graph(K, c \cup X))
  BY DEF Shift
<1>2. Around(r, c \cup X, U)
  BY DEF Around
<1>3. c \cup X \in SUBSET U /\ r \in U
  OBVIOUS
<1>4. SourcedBy(r, K, c \cup X, inOrder)
  BY <1>1, <1>2, <1>3 DEF Sourced
<1> QED BY <1>1, <1>4 DEF SourcedBy

\* Applying the oldest adds.
LEMMA AddsShift ==
    ASSUME NEW K \in SUBSET Schema, NEW U \in SUBSET Operation, NEW O, NEW P, NEW A \in SUBSET U,
           \A a \in A : a.op = "add",
           \A a \in A, q \in U \ A : q.op = "add" => a.id < q.id,
           P \subseteq O \cup {e[2] : e \in AddsOf(A)}
    PROVE  Shift(K, U, O, K \cup AddsOf(A), U \ A, P, A)
<1> SUFFICES ASSUME NEW c \in SUBSET (U \ A), Cut(c, U \ A)
             PROVE  /\ Cut(c \cup A, U)
                    /\ Graph(K \cup AddsOf(A), c) = Graph(K, c \cup A)
                    /\ Known(P, c) \subseteq Known(O, c \cup A)
  BY DEF Shift
<1>0. \A r \in U : r.id \in Nat
  BY OpsOf
<1>1. Cut(c \cup A, U)
  <2> SUFFICES ASSUME NEW r \in c \cup A, NEW q \in U, q.op = "add", q.id < r.id, q \notin A
               PROVE  q \in c
    BY DEF Cut
  <2>1. r \notin A
    <3> SUFFICES ASSUME r \in A PROVE FALSE
      OBVIOUS
    <3>1. r.id < q.id
      OBVIOUS
    <3> QED BY <1>0, <3>1
  <2> QED BY <2>1 DEF Cut
<1>2. AddsOf(c \cup A) = AddsOf(c) \cup AddsOf(A) /\ DropsOf(c \cup A) = DropsOf(c)
  BY DEF AddsOf, DropsOf
<1>3. Known(P, c) \subseteq Known(O, c \cup A)
  BY <1>2 DEF Known
<1> QED BY <1>1, <1>2, <1>3 DEF Graph

\* Applying drops that are older than the adds to come.
LEMMA DropsShift ==
    ASSUME NEW K \in SUBSET Schema, NEW U \in SUBSET Operation, NEW O, NEW P, NEW D \in SUBSET U,
           \A x \in D : x.op = "drop",
           \A x \in D, q \in U : q.op = "add" => x.id < q.id,
           Unique(K, U), P \subseteq O
    PROVE  Shift(K, U, O, K \ DropsOf(D), U \ D, P, D)
<1> SUFFICES ASSUME NEW c \in SUBSET (U \ D), Cut(c, U \ D)
             PROVE  /\ Cut(c \cup D, U)
                    /\ Graph(K \ DropsOf(D), c) = Graph(K, c \cup D)
                    /\ Known(P, c) \subseteq Known(O, c \cup D)
  BY DEF Shift
<1>0. \A r \in U : r.id \in Nat
  BY OpsOf
<1>1. Cut(c \cup D, U)
  <2> SUFFICES ASSUME NEW r \in c \cup D, NEW q \in U, q.op = "add", q.id < r.id, q \notin D
               PROVE  q \in c
    BY DEF Cut
  <2>1. r \notin D
    <3> SUFFICES ASSUME r \in D PROVE FALSE
      OBVIOUS
    <3>1. r.id < q.id
      OBVIOUS
    <3> QED BY <1>0, <3>1
  <2> QED BY <2>1 DEF Cut
<1>2. AddsOf(c \cup D) = AddsOf(c) /\ DropsOf(c \cup D) = DropsOf(c) \cup DropsOf(D)
  BY DEF AddsOf, DropsOf
<1>3. AddsOf(c) \cap DropsOf(D) = {}
  <2> SUFFICES ASSUME NEW a \in c, NEW x \in D, a.op = "add", a.edge = x.edge
               PROVE  FALSE
    BY DEF AddsOf, DropsOf
  <2>1. a \in U /\ x \in U /\ x.op = "drop" /\ x.id < a.id
    OBVIOUS
  <2>2. a.id < x.id
    BY <2>1 DEF Unique, UniqueTo
  <2> QED BY <1>0, <2>1, <2>2
<1>4. Known(P, c) \subseteq Known(O, c \cup D)
  BY <1>2 DEF Known
<1>5. Graph(K \ DropsOf(D), c) = Graph(K, c \cup D)
  BY <1>2, <1>3 DEF Graph
<1> QED BY <1>1, <1>4, <1>5

\* Taking vertices that are cut off, with the references they make.
LEMMA TakeShift ==
    ASSUME NEW K \in SUBSET Schema, NEW U \in SUBSET Operation, NEW O, NEW P \in SUBSET O,
           NEW L \in SUBSET K, NEW T, \A v \in T : CutOff(v, K, U),
           \A e \in K : e[1] \in T \/ e \in L
    PROVE  Shift(K, U, O, L, U, P, {})
<1> SUFFICES ASSUME NEW c \in SUBSET U, Cut(c, U)
             PROVE  Reach(Graph(L, c)) = Reach(Graph(K, c)) /\ Known(P, c) \subseteq Known(O, c)
  BY DEF Shift
<1>1. Known(P, c) \subseteq Known(O, c)
  BY DEF Known
<1>2. /\ Graph(L, c) \subseteq Graph(K, c) /\ Graph(K, c) \in SUBSET Schema
      /\ Graph(L, c) \in SUBSET Schema
  BY OpsOf DEF Graph
<1>3. Reach(Graph(L, c)) \subseteq Reach(Graph(K, c))
  BY <1>2, ReachIsMonotone
<1>4. ASSUME NEW e \in Graph(K, c), e[1] \in Reach(Graph(L, c))
      PROVE  e[2] \in Reach(Graph(L, c))
  <2>1. e[1] \notin T
    BY <1>3, <1>4 DEF CutOff
  <2>2. e \in Graph(L, c)
    BY <2>1 DEF Graph
  <2> QED BY <1>2, <1>4, <2>2, ReachIsClosed
<1>5. Closed(Reach(Graph(L, c)), Graph(K, c)) /\ Reach(Graph(L, c)) \in SUBSET Vertices
  BY <1>2, <1>4, ReachIsClosed, ClosedIs
<1>6. Reach(Graph(K, c)) \subseteq Reach(Graph(L, c))
  BY <1>5, ReachIsLeast
<1> QED BY <1>1, <1>3, <1>6

-----------------------------------------------------------------------------
(* What clients do to a history.                                            *)

\* An operation younger than all others.
Newest(n, U) == n \in Operation /\ \A q \in U : q.id < n.id

\* The vertices the history names.
Within(W, K, U, O) ==
    /\ O \subseteq W
    /\ \A e \in K \cup AddsOf(U) \cup DropsOf(U) : e[1] \in W /\ e[2] \in W

\* A part with the newest operation has all older adds.
LEMMA NewestCut ==
    ASSUME NEW U \in SUBSET Operation, NEW n, Newest(n, U),
           NEW c \in SUBSET (U \cup {n}), Cut(c, U \cup {n})
    PROVE  /\ n \notin U /\ c \ {n} \in SUBSET U /\ Cut(c \ {n}, U)
           /\ n \in c => AddsOf(c \ {n}) = AddsOf(U)
<1>1. n.id \in Nat /\ ~ (n.id < n.id)
  BY DEF Newest, Operation
<1>2. n \notin U
  BY <1>1 DEF Newest
<1>3. c \ {n} \in SUBSET U /\ Cut(c \ {n}, U)
  BY <1>2 DEF Cut
<1>4. ASSUME n \in c PROVE AddsOf(c \ {n}) = AddsOf(U)
  <2>1. \A q \in U : q.op = "add" => q \in c
    BY <1>4 DEF Cut, Newest
  <2> QED BY <1>2, <2>1 DEF AddsOf
<1> QED BY <1>2, <1>3, <1>4

\* Without a newest operation, nothing new is to be shown.
LEMMA OldCut ==
    ASSUME NEW U, NEW n, n \notin U, NEW c \in SUBSET (U \cup {n}), n \notin c
    PROVE  c \in SUBSET U /\ c \ {n} = c
OBVIOUS

\* Where a new reference leads.
LEMMA NewAddReach ==
    ASSUME NEW K \in SUBSET Schema, NEW U \in SUBSET Operation, NEW O, NEW W,
           Within(W, K, U, O), NEW n, Newest(n, U), n.op = "add",
           n.edge[2] \in Reach(Graph(K, U)) \/ n.edge[2] \notin W,
           NEW c \in SUBSET (U \cup {n}), Cut(c, U \cup {n}), n \in c
    PROVE  /\ Reach(Graph(K, c)) \subseteq Reach(Graph(K, c \ {n})) \cup {n.edge[2]}
           /\ n.edge[2] \in W => n.edge[2] \in Reach(Graph(K, c \ {n}))
<1> DEFINE b == c \ {n}
<1>1. n \notin U /\ b \in SUBSET U /\ Cut(b, U) /\ AddsOf(b) = AddsOf(U)
  BY NewestCut
<1>2. n.edge \in Schema /\ n.edge[2] \in Vertices
  BY PipelineOK DEF Newest, Operation
<1>3. b \in SUBSET Operation /\ c \in SUBSET Operation /\ c = b \cup {n} /\ U \in SUBSET Operation
  BY <1>1 DEF Newest
<1> HIDE DEF b
<1>4. AddsOf(c) = AddsOf(b) \cup {n.edge} /\ DropsOf(c) = DropsOf(b)
  BY <1>3 DEF AddsOf, DropsOf
<1>5. Graph(K, b) \in SUBSET Schema /\ Graph(K, c) \in SUBSET Schema
  BY <1>3, GraphIs
<1>6. Graph(K, U) \subseteq Graph(K, b)
  <2>1. DropsOf(b) \subseteq DropsOf(U)
    BY <1>1 DEF DropsOf
  <2> QED BY <1>1, <2>1 DEF Graph
<1>7. Reach(Graph(K, U)) \subseteq Reach(Graph(K, b))
  BY <1>5, <1>6, ReachIsMonotone
<1>8. Graph(K, c) \subseteq Graph(K, b) \cup {n.edge}
  BY <1>4 DEF Graph
<1>9. \A f \in Graph(K, b) : f[1] \in W
  <2>1. AddsOf(b) \subseteq AddsOf(U)
    BY <1>1
  <2> QED BY <2>1 DEF Graph, Within
<1> DEFINE S == Reach(Graph(K, b)) \cup {n.edge[2]}
<1>10. Closed(S, Graph(K, c)) /\ S \in SUBSET Vertices
  <2>1. ASSUME NEW f \in Graph(K, c), f[1] \in S PROVE f[2] \in S
    <3>1. CASE f = n.edge
      BY <3>1
    <3>2. CASE f \in Graph(K, b)
      <4>1. f[1] \in Reach(Graph(K, b))
        BY <1>7, <1>9, <2>1, <3>2
      <4> QED BY <1>5, <3>2, <4>1, ReachIsClosed
    <3> QED BY <1>8, <3>1, <3>2
  <2>2. Root \in S /\ S \in SUBSET Vertices
    BY <1>2, <1>5, ReachIsClosed
  <2> HIDE DEF S
  <2> QED BY <2>1, <2>2, ClosedIs
<1>11. Reach(Graph(K, c)) \subseteq S
  BY <1>10, ReachIsLeast
<1> QED BY <1>7, <1>11 DEF b

\* With the newest operation, later parts have all adds and more drops.
LEMMA NewestShrinks ==
    ASSUME NEW K \in SUBSET Schema, NEW U \in SUBSET Operation, NEW n, Newest(n, U),
           NEW c \in SUBSET (U \cup {n}), NEW d \in SUBSET (U \cup {n}),
           Cut(c, U \cup {n}), Cut(d, U \cup {n}), c \subseteq d, n \in c
    PROVE  Reach(Graph(K, d)) \subseteq Reach(Graph(K, c))
<1>1. \A q \in U : q.op = "add" => q \in c /\ q \in d
  BY DEF Cut, Newest
<1>2. AddsOf(c) = AddsOf(d) /\ DropsOf(c) \subseteq DropsOf(d)
  BY <1>1 DEF AddsOf, DropsOf
<1>3. Graph(K, d) \subseteq Graph(K, c)
  BY <1>2 DEF Graph
<1>4. c \in SUBSET Operation
  BY DEF Newest
<1> QED BY <1>3, <1>4, GraphIs, ReachIsMonotone

\* A client that refers to what is reachable, or new, makes nothing reachable that
\* was not.
LEMMA NewAddMonotone ==
    ASSUME NEW K \in SUBSET Schema, NEW U \in SUBSET Operation, NEW O, NEW W,
           Within(W, K, U, O), NEW n, Newest(n, U), n.op = "add",
           n.edge[2] \in Reach(Graph(K, U)) \/ n.edge[2] \notin W,
           Monotone(K, U, O)
    PROVE  Monotone(K, U \cup {n}, O)
<1> SUFFICES ASSUME NEW c \in SUBSET (U \cup {n}), NEW d \in SUBSET (U \cup {n}),
                    Cut(c, U \cup {n}), Cut(d, U \cup {n}), c \subseteq d,
                    NEW v \in Reach(Graph(K, d)), v \in Known(O, c)
             PROVE  v \in Reach(Graph(K, c))
  BY DEF Monotone
<1>1. CASE n \in c
  BY <1>1, NewestShrinks
<1>2. CASE n \notin c
  <2>1. /\ n \notin U /\ c \in SUBSET U /\ Cut(c, U)
        /\ d \ {n} \in SUBSET U /\ Cut(d \ {n}, U) /\ c \subseteq d \ {n}
    <3>1. n \notin U /\ Cut(c \ {n}, U)
      BY NewestCut
    <3>3. d \ {n} \in SUBSET U /\ Cut(d \ {n}, U)
      BY NewestCut
    <3>2. c \ {n} = c
      BY <1>2
    <3> QED BY <1>2, <3>1, <3>2, <3>3
  <2>2. Reach(Graph(K, d \ {n})) \cap Known(O, c) \subseteq Reach(Graph(K, c))
    BY <2>1 DEF Monotone
  <2>3. v \in W
    <3>1. Known(O, c) \subseteq W
      BY <2>1 DEF Known, Within, AddsOf
    <3> QED BY <3>1
  <2>4. v \in Reach(Graph(K, d \ {n}))
    <3>1. CASE n \in d
      <4>1. /\ Reach(Graph(K, d)) \subseteq Reach(Graph(K, d \ {n})) \cup {n.edge[2]}
            /\ n.edge[2] \in W => n.edge[2] \in Reach(Graph(K, d \ {n}))
        BY <3>1, NewAddReach
      <4> QED BY <2>3, <4>1
    <3>2. CASE n \notin d
      <4>1. d \ {n} = d
        BY <3>2
      <4> QED BY <4>1
    <3> QED BY <3>1, <3>2
  <2> QED BY <2>2, <2>4
<1> QED BY <1>1, <1>2

\* What is cut off stays cut off when a client refers to what is reachable, or new.
LEMMA NewAddCutOff ==
    ASSUME NEW K \in SUBSET Schema, NEW U \in SUBSET Operation, NEW O, NEW W,
           Within(W, K, U, O), NEW n, Newest(n, U), n.op = "add",
           n.edge[2] \in Reach(Graph(K, U)) \/ n.edge[2] \notin W,
           NEW v \in W, CutOff(v, K, U)
    PROVE  CutOff(v, K, U \cup {n})
<1> SUFFICES ASSUME NEW c \in SUBSET (U \cup {n}), Cut(c, U \cup {n})
             PROVE  v \notin Reach(Graph(K, c))
  BY DEF CutOff
<1>1. n \notin U /\ c \ {n} \in SUBSET U /\ Cut(c \ {n}, U)
  BY NewestCut
<1>2. v \notin Reach(Graph(K, c \ {n}))
  BY <1>1 DEF CutOff
<1>3. CASE n \in c
  <2>1. /\ Reach(Graph(K, c)) \subseteq Reach(Graph(K, c \ {n})) \cup {n.edge[2]}
        /\ n.edge[2] \in W => n.edge[2] \in Reach(Graph(K, c \ {n}))
    BY <1>3, NewAddReach
  <2> QED BY <1>2, <2>1
<1>4. CASE n \notin c
  <2>1. c \ {n} = c
    BY <1>4
  <2> QED BY <1>2, <2>1
<1> QED BY <1>3, <1>4

\* With all adds, a part reaches what all operations together do.
LEMMA AllReach ==
    ASSUME NEW K \in SUBSET Schema, NEW U \in SUBSET Operation, NEW c \in SUBSET Operation,
           AddsOf(U) \subseteq AddsOf(c), DropsOf(c) \subseteq DropsOf(U)
    PROVE  Reach(Graph(K, U)) \subseteq Reach(Graph(K, c))
<1>1. Graph(K, U) \subseteq Graph(K, c)
  BY DEF Graph
<1> QED BY <1>1, GraphIs, ReachIsMonotone

\* The newest operation is sourced; the others are as before.
LEMMA NewSourced ==
    ASSUME NEW K \in SUBSET Schema, NEW U \in SUBSET Operation, NEW n, Newest(n, U),
           NEW inOrder, SourcedBy(n, K, U, inOrder), Sourced(K, U, inOrder)
    PROVE  Sourced(K, U \cup {n}, inOrder)
<1> SUFFICES ASSUME NEW r \in U \cup {n}, NEW c \in SUBSET (U \cup {n}),
                    Cut(c, U \cup {n}), Around(r, c, U \cup {n})
             PROVE  SourcedBy(r, K, c, inOrder)
  BY DEF Sourced
<1> DEFINE b == c \ {n}
<1>1. n \notin U /\ b \in SUBSET U /\ Cut(b, U) /\ n.id \in Nat /\ c \in SUBSET Operation
  BY NewestCut DEF Newest, Operation
<1>2. n \in Operation /\ \A q \in U : q.id < n.id /\ q.id \in Nat
  BY OpsOf DEF Newest
<1>3. CASE r = n
  <2>1. AddsOf(U) \subseteq AddsOf(c)
    BY <1>2, <1>3 DEF Around, AddsOf
  <2>2. n \in c => n.op # "drop"
    BY <1>1, <1>3 DEF Around
  <2>3. DropsOf(c) \subseteq DropsOf(U)
    BY <2>2 DEF DropsOf
  <2>4. Reach(Graph(K, U)) \subseteq Reach(Graph(K, c))
    BY <1>1, <2>1, <2>3, AllReach
  <2> QED BY <1>3, <2>4 DEF SourcedBy
<1>4. CASE r \in U
  <2>1. Around(r, b, U)
    BY <1>1 DEF Around
  <2>2. SourcedBy(r, K, b, inOrder)
    BY <1>1, <1>4, <2>1 DEF Sourced
  <2>3. n \in c => n.op # "drop"
    BY <1>1, <1>2, <1>4 DEF Around
  <2>4. DropsOf(c) \subseteq DropsOf(b) /\ AddsOf(b) \subseteq AddsOf(c)
    BY <2>3 DEF DropsOf, AddsOf
  <2>5. b \in SUBSET Operation
    BY <1>1
  <2>6. Reach(Graph(K, b)) \subseteq Reach(Graph(K, c))
    BY <1>1, <2>4, <2>5, AllReach
  <2> HIDE DEF b
  <2> QED BY <2>2, <2>6 DEF SourcedBy
<1> QED BY <1>3, <1>4

\* A client adds an edge once, and drops it once if it is not the root's.
LEMMA NewUnique ==
    ASSUME NEW K, NEW U \in SUBSET Operation, NEW n, Newest(n, U), Unique(K, U),
           n.op = "add" => n.edge \notin K \cup AddsOf(U) \cup DropsOf(U),
           n.op = "drop" /\ n.edge[1] # Root => n.edge \notin DropsOf(U)
    PROVE  Unique(K, U \cup {n})
<1>1. n \in Operation /\ n.id \in Nat /\ n.op \in {"add", "drop"}
  BY DEF Newest, Operation
<1>2. \A q \in U : q.id \in Nat /\ q.id < n.id /\ q.op \in {"add", "drop"}
  BY OpsOf DEF Newest
<1>3. ~ (n.id < n.id) /\ \A q \in U : q.id # n.id
  BY <1>1, <1>2
<1>4. \A q \in U : q.op = "add" => q.edge \in AddsOf(U)
  BY DEF AddsOf
<1>5. \A q \in U : q.op = "drop" => q.edge \in DropsOf(U)
  BY DEF DropsOf
<1>6. \A r \in U : UniqueTo(r, K, U)
  BY DEF Unique
<1>7. UniqueTo(n, K, U \cup {n})
  BY <1>1, <1>3, <1>4, <1>5 DEF UniqueTo
<1>8. ASSUME NEW r \in U PROVE UniqueTo(r, K, U \cup {n})
  <2>1. UniqueTo(r, K, U)
    BY <1>6
  <2>2. UniqueTo(r, K, {n})
    BY <1>1, <1>2, <1>3, <1>4, <1>5, <2>1 DEF UniqueTo
  <2> QED BY <2>1, <2>2 DEF UniqueTo
<1> QED BY <1>7, <1>8 DEF Unique

\* A drop makes nothing reachable.
LEMMA NewDropReach ==
    ASSUME NEW K \in SUBSET Schema, NEW U \in SUBSET Operation, NEW n, Newest(n, U),
           n.op = "drop", NEW c \in SUBSET (U \cup {n})
    PROVE  Reach(Graph(K, c)) \subseteq Reach(Graph(K, c \ {n}))
<1>1. c \ {n} \in SUBSET Operation /\ c \in SUBSET Operation
  BY DEF Newest
<1>2. AddsOf(c) \subseteq AddsOf(c \ {n}) /\ DropsOf(c \ {n}) \subseteq DropsOf(c)
  BY DEF AddsOf, DropsOf
<1> QED BY <1>1, <1>2, AllReach

\* A drop keeps the promise that what is not reachable is not reachable later.
LEMMA NewDropMonotone ==
    ASSUME NEW K \in SUBSET Schema, NEW U \in SUBSET Operation, NEW O,
           NEW n, Newest(n, U), n.op = "drop", Monotone(K, U, O)
    PROVE  Monotone(K, U \cup {n}, O)
<1> SUFFICES ASSUME NEW c \in SUBSET (U \cup {n}), NEW d \in SUBSET (U \cup {n}),
                    Cut(c, U \cup {n}), Cut(d, U \cup {n}), c \subseteq d
             PROVE  Reach(Graph(K, d)) \cap Known(O, c) \subseteq Reach(Graph(K, c))
  BY DEF Monotone
<1>1. CASE n \in c
  BY <1>1, NewestShrinks
<1>2. CASE n \notin c
  <2>1. /\ c \in SUBSET U /\ Cut(c, U)
        /\ d \ {n} \in SUBSET U /\ Cut(d \ {n}, U) /\ c \subseteq d \ {n}
    <3>1. n \notin U /\ Cut(c \ {n}, U)
      BY NewestCut
    <3>3. d \ {n} \in SUBSET U /\ Cut(d \ {n}, U)
      BY NewestCut
    <3>2. c \ {n} = c
      BY <1>2
    <3> QED BY <1>2, <3>1, <3>2, <3>3
  <2>2. Reach(Graph(K, d \ {n})) \cap Known(O, c) \subseteq Reach(Graph(K, c))
    BY <2>1 DEF Monotone
  <2>3. Reach(Graph(K, d)) \subseteq Reach(Graph(K, d \ {n}))
    BY NewDropReach
  <2> QED BY <2>2, <2>3
<1> QED BY <1>1, <1>2

\* What is cut off stays cut off when a client drops.
LEMMA NewDropCutOff ==
    ASSUME NEW K \in SUBSET Schema, NEW U \in SUBSET Operation,
           NEW n, Newest(n, U), n.op = "drop", NEW v, CutOff(v, K, U)
    PROVE  CutOff(v, K, U \cup {n})
<1> SUFFICES ASSUME NEW c \in SUBSET (U \cup {n}), Cut(c, U \cup {n})
             PROVE  v \notin Reach(Graph(K, c))
  BY DEF CutOff
<1>1. n \notin U /\ c \ {n} \in SUBSET U /\ Cut(c \ {n}, U)
  BY NewestCut
<1>2. v \notin Reach(Graph(K, c \ {n}))
  BY <1>1 DEF CutOff
<1> QED BY <1>2, NewDropReach

\* The steps of the engine keep what is unique.
LEMMA ShiftUnique ==
    ASSUME NEW K, NEW U, NEW L, NEW V \in SUBSET U, Unique(K, U),
           L \subseteq K \cup AddsOf(U \ V)
    PROVE  Unique(L, V)
<1> SUFFICES ASSUME NEW r \in V, NEW q \in V
             PROVE  /\ r.id = q.id => r = q
                    /\ r.op = "add" => r.edge \notin L
                    /\ r.op = "add" /\ q.op = "add" /\ r.edge = q.edge => r = q
                    /\ r.op = "add" /\ q.op = "drop" /\ r.edge = q.edge => r.id < q.id
                    /\ r.op = "drop" /\ q.op = "drop" /\ r.edge = q.edge /\ r.edge[1] # Root => r = q
  BY DEF Unique, UniqueTo
<1>1. UniqueTo(r, K, U) /\ r \in U /\ q \in U
  BY DEF Unique
<1>2. r.op = "add" => r.edge \notin AddsOf(U \ V)
  BY <1>1 DEF UniqueTo, AddsOf
<1> QED BY <1>1, <1>2 DEF UniqueTo

\* Clients reach the ends of a reference that is to be added.
LEMMA AddEndsReached ==
    ASSUME NEW K \in SUBSET Schema, NEW U \in SUBSET Operation, NEW inOrder,
           Sourced(K, U, inOrder), Unique(K, U), NEW r \in U, r.op = "add"
    PROVE  ~ CutOff(r.edge[1], K, U) /\ ~ CutOff(r.edge[2], K, U)
<1> DEFINE c == {q \in U : q.id < r.id}
           d == c \cup {r}
<1>1. \A q \in U : q.id \in Nat
  BY OpsOf
<1>2. c \in SUBSET U /\ Cut(c, U) /\ Around(r, c, U)
  BY <1>1 DEF Cut, Around
<1>3. r.edge[1] \in Reach(Graph(K, c))
  BY <1>2 DEF Sourced, SourcedBy
<1>4. d \in SUBSET U /\ Cut(d, U) /\ d \in SUBSET Operation /\ c \in SUBSET Operation
  BY <1>1, <1>2 DEF Cut
<1>5. AddsOf(c) \subseteq AddsOf(d) /\ DropsOf(d) \subseteq DropsOf(c)
  BY DEF AddsOf, DropsOf
<1>6. r.edge \in Graph(K, d)
  <2>1. r.edge \in AddsOf(d)
    BY DEF AddsOf
  <2>2. ASSUME NEW q \in d, q.op = "drop", q.edge = r.edge PROVE FALSE
    <3>1. UniqueTo(r, K, U) /\ q \in U /\ q.id < r.id
      BY <1>2, <2>2 DEF Unique
    <3>2. r.id < q.id
      BY <2>2, <3>1 DEF UniqueTo
    <3> QED BY <1>1, <3>1, <3>2
  <2>3. r.edge \notin DropsOf(d)
    BY <2>2 DEF DropsOf
  <2> HIDE DEF d
  <2> QED BY <2>1, <2>3 DEF Graph
<1> HIDE DEF c, d
<1>7. r.edge[1] \in Reach(Graph(K, d))
  BY <1>3, <1>4, <1>5, AllReach
<1>8. r.edge[2] \in Reach(Graph(K, d))
  BY <1>4, <1>6, <1>7, GraphIs, ReachIsClosed
<1> QED BY <1>2, <1>3, <1>4, <1>8 DEF CutOff

\* In order, clients reach the ends of a reference that is to be dropped.
LEMMA DropEndsReached ==
    ASSUME NEW K, NEW U \in SUBSET Operation, Sourced(K, U, TRUE), NEW r \in U, r.op = "drop"
    PROVE  ~ CutOff(r.edge[1], K, U) /\ ~ CutOff(r.edge[2], K, U)
<1> DEFINE c == {q \in U : q.id < r.id}
<1>1. \A q \in U : q.id \in Nat
  BY OpsOf
<1>2. c \in SUBSET U /\ Cut(c, U) /\ Around(r, c, U)
  BY <1>1 DEF Cut, Around
<1>3. {r.edge[1], r.edge[2]} \subseteq Reach(Graph(K, c))
  BY <1>2 DEF Sourced, SourcedBy
<1> QED BY <1>2, <1>3 DEF CutOff

-----------------------------------------------------------------------------
(* Sequences of tasks.                                                      *)

\* A function on 1..n is a sequence.
LEMMA SeqOfFunction ==
    ASSUME NEW S, NEW n \in Nat, NEW s \in [1..n -> S]
    PROVE  s \in Seq(S) /\ Len(s) = n
OBVIOUS

\* A task stays a task record when its fields may hold more.
LEMMA Wider ==
    ASSUME NEW any, NEW more, any \subseteq more, NEW task \in TaskOf(any)
    PROVE  task \in TaskOf(more)
<1>1. PICK p \in Phases, r \in any, f \in any, h \in any, l \in any, d \in any :
        task = [phase |-> p, rows |-> r, fresh |-> f, hit |-> h, lists |-> l, dead |-> d]
  BY DEF TaskOf
<1>2. r \in more /\ f \in more /\ h \in more /\ l \in more /\ d \in more
  OBVIOUS
<1> QED
  BY <1>1, <1>2 DEF TaskOf

\* Task i changes, the others stay.
Moved(i) ==
    /\ TasksShaped'
    /\ DOMAIN tasks' = DOMAIN tasks /\ Len(tasks') = Len(tasks)
    /\ \A j \in DOMAIN tasks : j # i => tasks'[j] = tasks[j]

\* Replacing a task record leaves the other tasks alone.
LEMMA Replaced ==
    ASSUME NEW any, tasks \in Seq(TaskOf(any)), NEW i \in DOMAIN tasks,
           NEW p \in Phases, NEW rowsOf, NEW fresh, NEW hit, NEW lists, NEW dead,
           tasks' = [tasks EXCEPT ![i] = [phase |-> p, rows |-> rowsOf, fresh |-> fresh,
                                          hit |-> hit, lists |-> lists, dead |-> dead]]
    PROVE  Moved(i)
<1> DEFINE more == any \cup {rowsOf, fresh, hit, lists, dead}
           new == [phase |-> p, rows |-> rowsOf, fresh |-> fresh, hit |-> hit,
                   lists |-> lists, dead |-> dead]
<1>1. DOMAIN tasks = 1..Len(tasks) /\ Len(tasks) \in Nat
  OBVIOUS
<1>2. new \in TaskOf(more)
  BY DEF TaskOf
<1>3. ASSUME NEW j \in DOMAIN tasks
      PROVE  tasks[j] \in TaskOf(more)
  <2>1. tasks[j] \in TaskOf(any) /\ any \subseteq more
    OBVIOUS
  <2> QED
    BY <2>1, Wider
<1> HIDE DEF more, new
<1>4. tasks' \in [1..Len(tasks) -> TaskOf(more)] /\ tasks' = [tasks EXCEPT ![i] = new]
  BY <1>1, <1>2, <1>3 DEF new
<1>5. tasks' \in Seq(TaskOf(more)) /\ Len(tasks') = Len(tasks)
  BY <1>1, <1>4, SeqOfFunction
<1> QED
  BY <1>1, <1>5 DEF TasksShaped, Moved

\* What a task's move to its next phase leaves alone.
LEMMA Passed ==
    ASSUME TasksShaped, NEW i \in DOMAIN tasks, NEW p \in Phases, Pass(i, p)
    PROVE  /\ Moved(i) /\ tasks'[i].phase = p
           /\ tasks'[i].fresh = tasks[i].fresh /\ tasks'[i].dead = tasks[i].dead
<1>1. PICK any : tasks \in Seq(TaskOf(any))
  BY DEF TasksShaped
<1>2. tasks[i] \in TaskOf(any)
  BY <1>1
<1> DEFINE new == [phase |-> p, rows |-> tasks[i].rows, fresh |-> tasks[i].fresh,
                   hit |-> tasks[i].hit, lists |-> tasks[i].lists, dead |-> tasks[i].dead]
<1>3. tasks'[i] = new
  BY <1>1, <1>2 DEF Pass, TaskOf
<1>4. tasks' = [tasks EXCEPT ![i] = tasks'[i]]
  BY <1>1 DEF Pass
<1>5. Moved(i)
  BY <1>1, <1>3, <1>4, Replaced
<1> QED
  BY <1>3, <1>5

\* Removing an element shifts those after it.
LEMMA Removal ==
    ASSUME NEW S, NEW s \in Seq(S), NEW i \in DOMAIN s
    PROVE  /\ RemoveAt(s, i) \in Seq(S) /\ Len(RemoveAt(s, i)) = Len(s) - 1
           /\ \A j \in 1..(Len(s) - 1) :
                RemoveAt(s, i)[j] = IF j < i THEN s[j] ELSE s[j + 1]
<1> DEFINE front == SubSeq(s, 1, i - 1)
           back == SubSeq(s, i + 1, Len(s))
<1>1. i \in 1..Len(s) /\ Len(s) \in Nat
  OBVIOUS
<1>2. front \in Seq(S) /\ Len(front) = i - 1 /\ \A j \in 1..(i - 1) : front[j] = s[j]
  BY <1>1
<1>3. /\ back \in Seq(S) /\ Len(back) = Len(s) - i
      /\ \A j \in 1..(Len(s) - i) : back[j] = s[i + j]
  BY <1>1
<1> HIDE DEF front, back
<1>4. front \o back \in Seq(S) /\ Len(front \o back) = Len(s) - 1
  BY <1>1, <1>2, <1>3
<1>5. ASSUME NEW j \in 1..(Len(s) - 1)
      PROVE  (front \o back)[j] = IF j < i THEN s[j] ELSE s[j + 1]
  <2>1. CASE j < i
    BY <1>1, <1>2, <1>3, <2>1
  <2>2. CASE j >= i
    <3>1. (front \o back)[j] = back[j - (i - 1)]
      BY <1>1, <1>2, <1>3, <2>2
    <3>2. j - (i - 1) \in 1..(Len(s) - i) /\ i + (j - (i - 1)) = j + 1
      BY <1>1, <2>2
    <3> QED
      BY <1>3, <2>2, <3>1, <3>2
  <2>3. j < i \/ (j >= i /\ ~(j < i))
    BY <1>1
  <2> QED
    BY <2>1, <2>2, <2>3
<1> QED
  BY <1>4, <1>5 DEF RemoveAt, front, back

-----------------------------------------------------------------------------
(* Steps that leave the maps alone.                                         *)

\* The tasks are numbered from 1, and each is in a phase.
LEMMA TaskIndex ==
    ASSUME TasksShaped
    PROVE  /\ DOMAIN tasks = 1..Len(tasks) /\ Len(tasks) \in Nat
           /\ \A i \in DOMAIN tasks : tasks[i].phase \in Phases
<1>1. PICK any : tasks \in Seq(TaskOf(any))
  BY DEF TasksShaped
<1>2. DOMAIN tasks = 1..Len(tasks) /\ Len(tasks) \in Nat
  BY <1>1
<1>3. ASSUME NEW i \in DOMAIN tasks
      PROVE  tasks[i].phase \in Phases
  <2>1. tasks[i] \in TaskOf(any)
    BY <1>1
  <2> QED
    BY <2>1 DEF TaskOf
<1> QED
  BY <1>2, <1>3

\* A task goes on, without new unreachable vertices.
LEMMA MoveKeeps ==
    ASSUME MapsInv, NEW i \in DOMAIN tasks, Moved(i), UNCHANGED <<iMap, oMap, alloc>>,
           tasks'[i].dead = tasks[i].dead,
           tasks'[i].phase \in Early => tasks[i].phase \in Early,
           tasks'[i].phase \in {"clear", "maps"} => tasks'[i].fresh \cap DOMAIN iMap = {}
    PROVE  MapsInv'
<1>1. \A j \in DOMAIN tasks : tasks'[j].dead = tasks[j].dead
  BY DEF Moved
<1>2. InTurn'
  BY TaskIndex DEF MapsInv, InTurn, Moved
<1>3. FreshHaveNoSlot'
  BY DEF MapsInv, FreshHaveNoSlot, Moved
<1>4. DeadInv'
  BY <1>1 DEF MapsInv, DeadInv, DeadHaveEntries, DeadOnce, DeadHaveNoSlot, Moved
<1>5. MapsAgree' /\ TasksShaped'
  BY DEF MapsInv, MapsAgree, Moved
<1> QED
  BY <1>2, <1>3, <1>4, <1>5 DEF MapsInv

\* A task goes on to its next phase and changes nothing else.
LEMMA PassKeeps ==
    ASSUME MapsInv, NEW i \in DOMAIN tasks, NEW p \in Phases, Pass(i, p),
           UNCHANGED <<iMap, oMap, alloc>>,
           p \in Early => tasks[i].phase \in Early,
           p \in {"clear", "maps"} => tasks[i].phase \in {"clear", "maps"}
    PROVE  MapsInv'
<1>1. /\ Moved(i) /\ tasks'[i].phase = p
      /\ tasks'[i].fresh = tasks[i].fresh /\ tasks'[i].dead = tasks[i].dead
  BY Passed DEF MapsInv
<1>2. p \in {"clear", "maps"} => tasks[i].fresh \cap DOMAIN iMap = {}
  BY DEF MapsInv, FreshHaveNoSlot
<1> QED
  BY <1>1, <1>2, MoveKeeps

\* Stage 0 notes vertices that have no slot.
LEMMA StoreKeeps ==
    ASSUME MapsInv, NEW i, Store(i)
    PROVE  MapsInv'
<1>1. PICK any : tasks \in Seq(TaskOf(any))
  BY DEF MapsInv, TasksShaped
<1>2. i \in DOMAIN tasks /\ tasks[i].phase = "store"
  BY DEF Store, Turn
<1>3. tasks[i] \in TaskOf(any) /\ "clear" \in Phases
  BY <1>1, <1>2 DEF Phases, Stage
<1> DEFINE new == [phase |-> "clear", rows |-> tasks[i].rows, fresh |-> Fresh(i),
                   hit |-> tasks[i].hit, lists |-> tasks[i].lists, dead |-> tasks[i].dead]
<1>4. tasks' = [tasks EXCEPT ![i].phase = "clear", ![i].fresh = Fresh(i)]
  BY DEF Store
<1>5. tasks'[i] = new /\ tasks' = [tasks EXCEPT ![i] = tasks'[i]]
  <2> HIDE DEF Fresh
  <2> QED
    BY <1>1, <1>2, <1>3, <1>4 DEF TaskOf
<1>6. Moved(i)
  BY <1>1, <1>2, <1>3, <1>5, Replaced
<1>7. Fresh(i) \cap DOMAIN iMap = {}
  BY DEF Fresh
<1> QED
  BY <1>2, <1>5, <1>6, <1>7, MoveKeeps DEF Store, mapVars, engineVars, Early

\* Stage 3 notes the slots it hit: none is taken yet.
LEMMA DeletesKeeps ==
    ASSUME MapsInv, NEW i, Deletes(i)
    PROVE  MapsInv'
<1>1. PICK any : tasks \in Seq(TaskOf(any))
  BY DEF MapsInv, TasksShaped
<1>2. i \in DOMAIN tasks /\ tasks[i].phase = "deletes"
  BY DEF Deletes, Turn
<1>3. tasks[i] \in TaskOf(any) /\ "init" \in Phases
  BY <1>1, <1>2 DEF Phases, Stage
<1>4. PICK hit : tasks' = [tasks EXCEPT ![i].phase = "init", ![i].hit = hit]
  BY DEF Deletes
<1> DEFINE new == [phase |-> "init", rows |-> tasks[i].rows, fresh |-> tasks[i].fresh,
                   hit |-> hit, lists |-> tasks[i].lists, dead |-> tasks[i].dead]
<1>5. tasks'[i] = new /\ tasks' = [tasks EXCEPT ![i] = tasks'[i]]
  BY <1>1, <1>2, <1>3, <1>4 DEF TaskOf
<1>6. Moved(i)
  BY <1>1, <1>2, <1>3, <1>5, Replaced
<1> QED
  BY <1>5, <1>6, <1>2, MoveKeeps DEF Deletes, mapVars, engineVars, Early

-----------------------------------------------------------------------------
(* Steps that change the maps or the slots in use.                          *)

\* execRC: the slots taken were in use, so that nobody had taken their vertices,
\* and no other slot in use stands for one of these.
LEMMA TakeKeeps ==
    ASSUME MapsInv, NEW i \in DOMAIN tasks, NEW slots, NEW lists, slots \subseteq alloc,
           Take(i, slots, lists), UNCHANGED <<iMap, oMap>>
    PROVE  MapsInv'
<1> DEFINE taken == Owners(slots)
<1>1. PICK any : tasks \in Seq(TaskOf(any))
  BY DEF MapsInv, TasksShaped
<1>2. tasks[i] \in TaskOf(any) /\ "sources" \in Phases /\ "cascade" \in Phases
  BY <1>1 DEF Phases, Stage
<1>3. PICK p \in {"sources", "cascade"} : \E left :
        tasks' = [tasks EXCEPT ![i].phase = p, ![i].lists = left, ![i].dead = @ \cup taken]
  BY DEF Take
<1>17. PICK left :
        tasks' = [tasks EXCEPT ![i].phase = p, ![i].lists = left, ![i].dead = @ \cup taken]
  BY <1>3
<1> DEFINE new == [phase |-> p, rows |-> tasks[i].rows, fresh |-> tasks[i].fresh,
                   hit |-> tasks[i].hit, lists |-> left, dead |-> tasks[i].dead \cup taken]
<1>4. tasks'[i] = new /\ tasks' = [tasks EXCEPT ![i] = tasks'[i]]
  <2> HIDE DEF taken
  <2> QED
    BY <1>1, <1>2, <1>17 DEF TaskOf
<1>5. p \in Phases
  BY <1>2
<1>6. Moved(i)
  <2> HIDE DEF taken
  <2> QED
    BY <1>1, <1>4, <1>5, Replaced
<1>7. tasks'[i].phase = p /\ tasks'[i].dead = tasks[i].dead \cup taken /\ p \notin Early
  BY <1>4 DEF Early
<1>8. \A s \in slots : s \in alloc /\ oMap[s] \in DOMAIN iMap /\ iMap[oMap[s]] = s
  BY DEF MapsInv, MapsAgree
<1>16. \A v : v \in taken <=> \E s \in slots : v = oMap[s]
  BY DEF Owners, MapsInv, MapsAgree
<1> HIDE DEF taken
<1>9. alloc' = alloc \ slots
  BY DEF Take
<1>10. InTurn'
  BY <1>6, <1>7, TaskIndex DEF MapsInv, InTurn, Moved
<1>11. FreshHaveNoSlot'
  BY <1>6, <1>7 DEF MapsInv, FreshHaveNoSlot, Moved, Early
<1>12. DeadHaveEntries'
  BY <1>6, <1>7, <1>8, <1>16 DEF MapsInv, DeadInv, DeadHaveEntries, Moved
<1>13. DeadOnce'
  BY <1>6, <1>7, <1>8, <1>16 DEF MapsInv, DeadInv, DeadOnce, DeadHaveNoSlot, Moved
<1>14. DeadHaveNoSlot'
  <2>1. ASSUME NEW s \in alloc \ slots PROVE oMap[s] \notin taken
    BY <1>8, <1>16 DEF MapsInv, MapsAgree
  <2> QED
    BY <2>1, <1>6, <1>7, <1>9 DEF MapsInv, DeadInv, DeadHaveNoSlot, Moved
<1>15. MapsAgree'
  BY <1>9 DEF MapsInv, MapsAgree
<1> QED
  BY <1>6, <1>10, <1>11, <1>12, <1>13, <1>14, <1>15 DEF MapsInv, DeadInv, Moved

\* The first step of execRC takes slots that were hit.
LEMMA StartKeeps ==
    ASSUME MapsInv, NEW i, Start(i)
    PROVE  MapsInv'
<1>1. i \in DOMAIN tasks
  BY DEF Start, Turn
<1>2. PICK slots : slots \subseteq alloc /\ Take(i, slots, {})
  BY DEF Start
<1> QED
  BY <1>1, <1>2, TakeKeeps DEF Start, mapVars

\* Its other steps take neighbours that lose their last reference.
LEMMA CascadeKeeps ==
    ASSUME MapsInv, NEW i, Cascade(i)
    PROVE  MapsInv'
<1>1. i \in DOMAIN tasks
  BY DEF Cascade, Turn
<1>2. PICK slots, lists : slots \subseteq alloc /\ Take(i, slots, lists)
  <2>1. PICK list \in tasks[i].lists :
          Take(i, Zeroed(list[2]), tasks[i].lists \ {list})
    BY DEF Cascade
  <2>2. Zeroed(list[2]) \subseteq alloc
    BY DEF Zeroed
  <2> QED
    BY <2>1, <2>2
<1> QED
  BY <1>1, <1>2, TakeKeeps DEF Cascade, mapVars

\* updateVertexMaps: the task is the youngest, so that the vertices it noted have
\* no slot yet; each gets a slot of its own that was free.
LEMMA MapsKeeps ==
    ASSUME MapsInv, NEW i, Maps(i)
    PROVE  MapsInv'
<1> DEFINE fresh == tasks[i].fresh
<1>1. i \in DOMAIN tasks /\ tasks[i].phase = "maps"
  BY DEF Maps, Turn
<1>2. i = Len(tasks)
  BY <1>1, TaskIndex DEF MapsInv, InTurn, Early
<1>3. /\ Moved(i) /\ tasks'[i].phase = "adds"
      /\ tasks'[i].fresh = fresh /\ tasks'[i].dead = tasks[i].dead
  <2>1. "adds" \in Phases /\ Pass(i, "adds")
    BY DEF Phases, Stage, Maps
  <2> QED
    BY <1>1, <2>1, Passed DEF MapsInv
<1>4. PICK pos \in Injection(fresh, Slots \ alloc) :
        /\ alloc' = alloc \cup Range(pos)
        /\ iMap' = [v \in DOMAIN iMap \cup fresh |-> IF v \in fresh THEN pos[v] ELSE iMap[v]]
        /\ oMap' = [s \in DOMAIN oMap \cup Range(pos) |->
                      IF s \in Range(pos) THEN CHOOSE v \in fresh : pos[v] = s ELSE oMap[s]]
  BY DEF Maps
<1>5. /\ pos \in [fresh -> Slots \ alloc]
      /\ \A v, w \in fresh : pos[v] = pos[w] => v = w
  BY DEF Injection, IsInjective
<1>6. \A s : s \in Range(pos) <=> \E v \in fresh : pos[v] = s
  BY <1>5 DEF Range
<1> HIDE DEF fresh
<1>7. Range(pos) \cap alloc = {}
  BY <1>5, <1>6
<1>8. fresh \cap DOMAIN iMap = {}
  BY <1>1 DEF MapsInv, FreshHaveNoSlot, fresh
<1>9. ASSUME NEW s \in Range(pos)
      PROVE  s \in DOMAIN oMap' /\ oMap'[s] \in fresh /\ pos[oMap'[s]] = s
  <2>1. s \in DOMAIN oMap' /\ oMap'[s] = CHOOSE v \in fresh : pos[v] = s
    BY <1>4, <1>9
  <2>2. \E v \in fresh : pos[v] = s
    BY <1>6, <1>9
  <2> QED
    BY <2>1, <2>2
<1>10. ASSUME NEW s \in alloc
       PROVE  s \in DOMAIN oMap' /\ oMap'[s] = oMap[s] /\ oMap[s] \in DOMAIN iMap
  BY <1>4, <1>7 DEF MapsInv, MapsAgree
<1>11. MapsAgree'
  <2>1. ASSUME NEW s \in Range(pos)
        PROVE  s \in DOMAIN oMap' /\ oMap'[s] \in DOMAIN iMap' /\ iMap'[oMap'[s]] = s
    BY <1>4, <1>9
  <2>2. ASSUME NEW s \in alloc
        PROVE  s \in DOMAIN oMap' /\ oMap'[s] \in DOMAIN iMap' /\ iMap'[oMap'[s]] = s
    <3>1. oMap[s] \in DOMAIN iMap /\ oMap[s] \notin fresh /\ iMap[oMap[s]] = s
      BY <1>8, <1>10 DEF MapsInv, MapsAgree
    <3>2. oMap[s] \in DOMAIN iMap' /\ iMap'[oMap[s]] = iMap[oMap[s]]
      BY <1>4, <3>1
    <3> QED
      BY <1>10, <3>1, <3>2
  <2> QED
    BY <1>4, <2>1, <2>2 DEF MapsAgree
<1>12. \A j \in DOMAIN tasks : tasks'[j].dead = tasks[j].dead
  BY <1>3 DEF Moved
<1>13. DeadInv'
  <2>1. DOMAIN iMap \subseteq DOMAIN iMap'
    BY <1>4
  <2>2. ASSUME NEW j \in DOMAIN tasks, NEW s \in alloc'
        PROVE  oMap'[s] \notin tasks[j].dead
    BY <1>4, <1>8, <1>9, <1>10
       DEF MapsInv, DeadInv, DeadHaveEntries, DeadHaveNoSlot
  <2> QED
    BY <1>3, <1>12, <2>1, <2>2
       DEF MapsInv, DeadInv, DeadHaveEntries, DeadOnce, DeadHaveNoSlot, Moved
<1>14. InTurn'
  BY <1>3, TaskIndex DEF MapsInv, InTurn, Moved, Early
<1>15. FreshHaveNoSlot'
  BY <1>1, <1>2, <1>3, TaskIndex DEF MapsInv, InTurn, FreshHaveNoSlot, Moved, Early
<1> QED
  BY <1>3, <1>11, <1>13, <1>14, <1>15 DEF MapsInv, Moved

\* A task leaves the pipeline; at most the vertices it took lose their entries.
LEMMA FinishKeeps ==
    ASSUME MapsInv, NEW i \in DOMAIN tasks, Finish(i), alloc' = alloc,
           DOMAIN iMap' \subseteq DOMAIN iMap,
           \A v \in DOMAIN iMap \ tasks[i].dead : v \in DOMAIN iMap' /\ iMap'[v] = iMap[v],
           \A s \in alloc : s \in DOMAIN oMap' /\ oMap'[s] = oMap[s]
    PROVE  MapsInv'
<1> DEFINE old(j) == IF j < i THEN j ELSE j + 1
<1>1. PICK any : tasks \in Seq(TaskOf(any))
  BY DEF MapsInv, TasksShaped
<1>2. /\ tasks' \in Seq(TaskOf(any)) /\ Len(tasks') = Len(tasks) - 1
      /\ \A j \in 1..(Len(tasks) - 1) : tasks'[j] = tasks[old(j)]
  <2>1. /\ RemoveAt(tasks, i) \in Seq(TaskOf(any)) /\ Len(RemoveAt(tasks, i)) = Len(tasks) - 1
        /\ \A j \in 1..(Len(tasks) - 1) :
             RemoveAt(tasks, i)[j] = IF j < i THEN tasks[j] ELSE tasks[j + 1]
    BY <1>1, Removal
  <2> QED
    BY <2>1 DEF Finish
<1>3. DOMAIN tasks = 1..Len(tasks) /\ Len(tasks) \in Nat /\ DOMAIN tasks' = 1..(Len(tasks) - 1)
  BY <1>1, <1>2
<1>4. ASSUME NEW j \in DOMAIN tasks'
      PROVE  /\ old(j) \in DOMAIN tasks /\ old(j) # i /\ tasks'[j] = tasks[old(j)]
             /\ \A k \in DOMAIN tasks' : k # j => old(k) # old(j)
             /\ j < Len(tasks) - 1 => old(j) < Len(tasks)
  BY <1>2, <1>3
<1> HIDE DEF old
<1>5. InTurn'
  <2>1. ASSUME NEW j \in 1..(Len(tasks') - 1)
        PROVE  tasks'[j].phase \notin Early
    <3>1. j \in DOMAIN tasks' /\ j < Len(tasks) - 1
      BY <1>2, <1>3
    <3>2. old(j) \in 1..(Len(tasks) - 1) /\ tasks'[j] = tasks[old(j)]
      BY <1>3, <1>4, <3>1
    <3> QED
      BY <3>2 DEF MapsInv, InTurn
  <2> QED
    BY <2>1 DEF InTurn, Early
<1>6. FreshHaveNoSlot'
  BY <1>4 DEF MapsInv, FreshHaveNoSlot
<1>7. DeadHaveEntries'
  <2>1. ASSUME NEW j \in DOMAIN tasks', NEW v \in tasks'[j].dead
        PROVE  v \in DOMAIN iMap'
    BY <1>4 DEF MapsInv, DeadInv, DeadHaveEntries, DeadOnce
  <2> QED
    BY <2>1 DEF DeadHaveEntries
<1>8. DeadOnce'
  BY <1>4 DEF MapsInv, DeadInv, DeadOnce
<1>9. DeadHaveNoSlot'
  BY <1>4 DEF MapsInv, DeadInv, DeadHaveNoSlot
<1>10. MapsAgree'
  BY DEF MapsInv, MapsAgree, DeadInv, DeadHaveNoSlot
<1> QED
  BY <1>2, <1>5, <1>6, <1>7, <1>8, <1>9, <1>10 DEF MapsInv, TasksShaped, DeadInv

\* Stage 6 forgets what its task took, which no slot in use stands for.
LEMMA PostKeeps ==
    ASSUME MapsInv, NEW i, Post(i)
    PROVE  MapsInv'
<1> DEFINE gone == tasks[i].dead \cap DOMAIN iMap
           stale == {s \in DOMAIN oMap : oMap[s] \in gone /\ iMap[oMap[s]] = s}
<1>1. i \in DOMAIN tasks
  BY DEF Post, Turn
<1>2. /\ iMap' = Restrict(iMap, DOMAIN iMap \ gone)
      /\ oMap' = Restrict(oMap, DOMAIN oMap \ stale)
      /\ Finish(i) /\ alloc' = alloc
  BY DEF Post, engineVars
<1>3. /\ DOMAIN iMap' \subseteq DOMAIN iMap
      /\ \A v \in DOMAIN iMap \ tasks[i].dead : v \in DOMAIN iMap' /\ iMap'[v] = iMap[v]
  BY <1>2 DEF Restrict
<1>4. ASSUME NEW s \in alloc
      PROVE  s \in DOMAIN oMap' /\ oMap'[s] = oMap[s]
  <2>1. s \in DOMAIN oMap /\ s \notin stale
    BY <1>1 DEF MapsInv, MapsAgree, DeadInv, DeadHaveNoSlot
  <2> QED
    BY <1>2, <2>1 DEF Restrict
<1> QED
  BY <1>1, <1>2, <1>3, <1>4, FinishKeeps

\* A task that is given up leaves the maps as they are.
LEMMA FailKeeps ==
    ASSUME MapsInv, NEW i, Fail(i)
    PROVE  MapsInv'
<1>1. i \in DOMAIN tasks /\ Finish(i) /\ UNCHANGED <<iMap, oMap, alloc>>
  BY DEF Fail, Turn, mapVars, engineVars
<1>2. \A s \in alloc : s \in DOMAIN oMap
  BY DEF MapsInv, MapsAgree
<1> QED
  BY <1>1, <1>2, FinishKeeps

\* An ingest starts when every other task is past stage 2.
LEMMA IngestKeeps ==
    ASSUME QuietStage \in 2..6, MapsInv, Ingest
    PROVE  MapsInv'
<1>1. PICK any : tasks \in Seq(TaskOf(any))
  BY DEF MapsInv, TasksShaped
<1>2. PICK read : tasks' = Append(tasks, NewTask(read))
  BY DEF Ingest
<1> DEFINE more == any \cup {read, {}}
<1>3. NewTask(read) \in TaskOf(more)
  BY DEF NewTask, TaskOf, Phases, Stage
<1>4. tasks \in Seq(TaskOf(more))
  <2>1. \A j \in DOMAIN tasks : tasks[j] \in TaskOf(more)
    <3>1. ASSUME NEW j \in DOMAIN tasks PROVE tasks[j] \in TaskOf(more)
      <4>1. tasks[j] \in TaskOf(any) /\ any \subseteq more
        BY <1>1
      <4> QED
        BY <4>1, Wider
    <3> QED
      BY <3>1
  <2> HIDE DEF more
  <2>2. tasks \in [1..Len(tasks) -> TaskOf(more)] /\ Len(tasks) \in Nat
    BY <1>1, <2>1
  <2> QED
    BY <2>2, SeqOfFunction
<1> HIDE DEF more
<1> DEFINE last == NewTask(read)
<1>5. last.phase = "store" /\ last.dead = {}
  BY DEF NewTask
<1> HIDE DEF last
<1>6. /\ tasks' \in Seq(TaskOf(more)) /\ Len(tasks) \in Nat
      /\ DOMAIN tasks = 1..Len(tasks) /\ DOMAIN tasks' = 1..(Len(tasks) + 1)
      /\ Len(tasks') = Len(tasks) + 1
      /\ \A j \in DOMAIN tasks : tasks'[j] = tasks[j]
      /\ tasks'[Len(tasks) + 1] = last
  BY <1>2, <1>3, <1>4 DEF last
<1>7. UNCHANGED <<iMap, oMap, alloc>>
  BY DEF Ingest, mapVars, engineVars
<1>8. \A j \in DOMAIN tasks : tasks[j].phase \notin Early
  BY DEF Ingest, Early, Stage
<1>9. InTurn'
  BY <1>6, <1>8 DEF InTurn, Early
<1>10. FreshHaveNoSlot'
  BY <1>5, <1>6, <1>7, <1>8 DEF FreshHaveNoSlot, Early
<1>11. \A j \in DOMAIN tasks' :
         \/ j \in DOMAIN tasks /\ tasks'[j] = tasks[j]
         \/ j = Len(tasks) + 1 /\ tasks'[j].dead = {}
  BY <1>5, <1>6
<1>12. DeadInv'
  BY <1>7, <1>11 DEF MapsInv, DeadInv, DeadHaveEntries, DeadOnce, DeadHaveNoSlot
<1>13. MapsAgree'
  BY <1>7 DEF MapsInv, MapsAgree
<1> QED
  BY <1>6, <1>9, <1>10, <1>12, <1>13 DEF MapsInv, TasksShaped

\* At the start the root has its slot, and there is no task.
LEMMA MapsInvInit == Init => MapsInv
<1> SUFFICES ASSUME Init PROVE MapsInv
  OBVIOUS
<1>1. tasks = <<>> /\ DOMAIN tasks = {} /\ Len(tasks) = 0
  BY DEF Init
<1>2. TasksShaped
  BY <1>1 DEF TasksShaped
<1>3. InTurn /\ FreshHaveNoSlot /\ DeadInv
  BY <1>1 DEF InTurn, FreshHaveNoSlot, DeadInv, DeadHaveEntries, DeadOnce, DeadHaveNoSlot
<1>4. MapsAgree
  BY DEF Init, MapsAgree
<1> QED
  BY <1>2, <1>3, <1>4 DEF MapsInv

\* Clients of the catalog do not touch the collector.
LEMMA UnchangedKeeps ==
    ASSUME MapsInv, UNCHANGED <<iMap, oMap, alloc, tasks>>
    PROVE  MapsInv'
BY DEF MapsInv, TasksShaped, InTurn, Early, FreshHaveNoSlot, DeadInv, DeadHaveEntries,
       DeadOnce, DeadHaveNoSlot, MapsAgree

\* Every stage of the pipeline keeps the invariant.
LEMMA StagesKeep ==
    ASSUME MapsInv, NEW i, Stages(i)
    PROVE  MapsInv'
<1> USE DEF Turn, mapVars, engineVars
<1>1. CASE Store(i)
  BY <1>1, StoreKeeps
<1>2. CASE Clear(i)
  BY <1>2, PassKeeps DEF Clear, Phases, Stage, Early
<1>3. CASE Maps(i)
  BY <1>3, MapsKeeps
<1>4. CASE Adds(i)
  <2>1. Pass(i, "deletes") /\ i \in DOMAIN tasks /\ UNCHANGED <<iMap, oMap, alloc>>
    BY <1>4 DEF Adds
  <2> QED
    BY <2>1, PassKeeps DEF Phases, Stage, Early
<1>5. CASE Deletes(i)
  BY <1>5, DeletesKeeps
<1>6. CASE Start(i)
  BY <1>6, StartKeeps
<1>7. CASE Cascade(i)
  BY <1>7, CascadeKeeps
<1>8. CASE DeleteSources(i)
  BY <1>8, PassKeeps DEF DeleteSources, Phases, Stage, Early
<1>9. CASE DeleteDests(i)
  BY <1>9, PassKeeps DEF DeleteDests, Phases, Stage, Early
<1>10. CASE DeleteEnts(i)
  BY <1>10, PassKeeps DEF DeleteEnts, Phases, Stage, Early
<1>11. CASE Post(i)
  BY <1>11, PostKeeps
<1> QED
  BY <1>1, <1>2, <1>3, <1>4, <1>5, <1>6, <1>7, <1>8, <1>9, <1>10, <1>11 DEF Stages

\* The maps agree, and keep agreeing whatever happens next.
LEMMA NextMaps ==
    ASSUME QuietStage \in 2..6, MapsInv, [Next]_vars
    PROVE  MapsInv'
<1>1. CASE Client
  <2>1. UNCHANGED <<iMap, oMap, alloc, tasks>>
    BY <1>1 DEF Client, Refer, DropRel, DropRoot, mapVars, engineVars
  <2> QED
    BY <2>1, UnchangedKeeps
<1>2. CASE Ingest
  BY <1>2, IngestKeeps
<1>3. CASE \E i \in 1..MaxTasks : Stages(i) \/ Fail(i)
  BY <1>3, StagesKeep, FailKeeps
<1>4. CASE UNCHANGED vars
  <2>1. UNCHANGED <<iMap, oMap, alloc, tasks>>
    BY <1>4 DEF vars, mapVars, engineVars
  <2> QED
    BY <2>1, UnchangedKeeps
<1> QED
  BY <1>1, <1>2, <1>3, <1>4 DEF Next

\* Whatever the graph and however many slots and tasks there are, whichever
\* statements are given up and however clients order their drops: if ingestGC
\* waits for stage 2 of the tasks before it, a slot in use and its vertex name
\* each other in o_vertex_map_ and i_vertex_map_.
THEOREM SlotsAndMapsAgree ==
    ASSUME QuietStage \in 2..6
    PROVE  Spec => []MapsAgree
<1>1. Init => MapsInv
  BY MapsInvInit
<1>2. MapsInv /\ [Next]_vars => MapsInv'
  BY NextMaps
<1>3. MapsInv => MapsAgree
  BY DEF MapsInv
<1> QED
  BY <1>1, <1>2, <1>3, PTL DEF Spec

-----------------------------------------------------------------------------
(* Tasks.                                                                   *)

\* The types of the tasks and their fields.
LEMMA TaskTypes ==
    ASSUME tasks \in Seq(Task)
    PROVE  /\ DOMAIN tasks = 1..Len(tasks) /\ Len(tasks) \in Nat
           /\ \A i \in DOMAIN tasks :
                /\ tasks[i] \in Task /\ tasks[i].phase \in Phases /\ tasks[i].rows \in SUBSET Row
                /\ tasks[i].fresh \in SUBSET Vertices /\ tasks[i].hit \in SUBSET Slots
                /\ tasks[i].lists \in SUBSET ((SUBSET Vertices) \X [Slots -> Nat])
                /\ tasks[i].dead \in SUBSET Vertices
<1>1. DOMAIN tasks = 1..Len(tasks) /\ Len(tasks) \in Nat
  OBVIOUS
<1>2. \A i \in DOMAIN tasks : tasks[i] \in Task
  OBVIOUS
<1> QED BY <1>1, <1>2 DEF Task

\* Task i goes on with its rows, the others stay.
NewState(i, p, f, h, l, d) ==
    [phase |-> p, rows |-> tasks[i].rows, fresh |-> f, hit |-> h, lists |-> l, dead |-> d]

Becomes(i, p, f, h, l, d) ==
    /\ i \in DOMAIN tasks /\ tasks' \in Seq(Task)
    /\ DOMAIN tasks' = DOMAIN tasks /\ Len(tasks') = Len(tasks)
    /\ \A j \in DOMAIN tasks : j # i => tasks'[j] = tasks[j]
    /\ tasks'[i].phase = p /\ tasks'[i].rows = tasks[i].rows /\ tasks'[i].fresh = f
    /\ tasks'[i].hit = h /\ tasks'[i].lists = l /\ tasks'[i].dead = d

\* Replacing a task's record leaves the other tasks alone.
LEMMA BecomesIs ==
    ASSUME tasks \in Seq(Task), NEW i \in DOMAIN tasks, NEW p \in Phases,
           NEW f \in SUBSET Vertices, NEW h \in SUBSET Slots,
           NEW l \in SUBSET ((SUBSET Vertices) \X [Slots -> Nat]), NEW d \in SUBSET Vertices,
           tasks' = [tasks EXCEPT ![i] = NewState(i, p, f, h, l, d)]
    PROVE  Becomes(i, p, f, h, l, d)
<1>1. DOMAIN tasks = 1..Len(tasks) /\ Len(tasks) \in Nat /\ tasks \in [1..Len(tasks) -> Task]
  OBVIOUS
<1>2. NewState(i, p, f, h, l, d) \in Task
  BY TaskTypes DEF NewState, Task
<1>3. tasks' \in [1..Len(tasks) -> Task]
  BY <1>1, <1>2
<1>4. tasks' \in Seq(Task) /\ Len(tasks') = Len(tasks)
  BY <1>1, <1>3, SeqOfFunction
<1>5. tasks'[i] = NewState(i, p, f, h, l, d)
  BY <1>1
<1> QED BY <1>1, <1>3, <1>4, <1>5 DEF Becomes, NewState

Same(i) == NewState(i, tasks[i].phase, tasks[i].fresh, tasks[i].hit, tasks[i].lists, tasks[i].dead)

\* A task is the record of its fields.
LEMMA SameIs ==
    ASSUME tasks \in Seq(Task), NEW i \in DOMAIN tasks
    PROVE  tasks[i] = Same(i)
BY TaskTypes DEF Task, Same, NewState

\* What becomes of a task that only changes its phase.
LEMMA PassBecomes ==
    ASSUME tasks \in Seq(Task), NEW i \in DOMAIN tasks, NEW p \in Phases, Pass(i, p)
    PROVE  Becomes(i, p, tasks[i].fresh, tasks[i].hit, tasks[i].lists, tasks[i].dead)
<1>1. tasks' = [tasks EXCEPT ![i] = [tasks[i] EXCEPT !.phase = p]]
  BY DEF Pass
<1>2. [tasks[i] EXCEPT !.phase = p]
        = NewState(i, p, tasks[i].fresh, tasks[i].hit, tasks[i].lists, tasks[i].dead)
  BY SameIs DEF Same, NewState
<1> QED BY <1>1, <1>2, BecomesIs, TaskTypes

\* What becomes of a task that updateGraphStore has stored: it knows which vertices
\* are missing.
LEMMA StoreBecomes ==
    ASSUME tasks \in Seq(Task), NEW i, Store(i), Fresh(i) \in SUBSET Vertices
    PROVE  Becomes(i, "clear", Fresh(i), tasks[i].hit, tasks[i].lists, tasks[i].dead)
<1>0. i \in DOMAIN tasks /\ "clear" \in Phases
  BY DEF Store, Turn, Phases, Stage
<1>1. tasks' = [tasks EXCEPT ![i].phase = "clear", ![i].fresh = Fresh(i)]
  BY DEF Store
<1>3. tasks[i] \in Task
  BY <1>0, TaskTypes
<1> HIDE DEF Fresh
<1>2. /\ tasks'[i] = NewState(i, "clear", Fresh(i), tasks[i].hit, tasks[i].lists, tasks[i].dead)
      /\ tasks' = [tasks EXCEPT ![i] = tasks'[i]]
  BY <1>0, <1>1, <1>3 DEF Task, NewState
<1> QED BY <1>0, <1>1, <1>2, BecomesIs, TaskTypes

Less(i) == [t \in Slots |-> SumFunction([s \in Slots |-> Found(i, s, t)])]

\* What becomes of a task after applyDeleteEdges: it knows which slots were hit.
LEMMA DeletesBecomes ==
    ASSUME tasks \in Seq(Task), NEW i, Deletes(i), alloc \subseteq Slots
    PROVE  Becomes(i, "init", tasks[i].fresh, Zeroed(Less(i)), tasks[i].lists, tasks[i].dead)
<1>0. i \in DOMAIN tasks /\ "init" \in Phases
  BY DEF Deletes, Turn, Phases, Stage
<1> DEFINE h == Zeroed(Less(i))
<1>3. h \in SUBSET Slots
  BY DEF Zeroed
<1>1. tasks' = [tasks EXCEPT ![i].phase = "init", ![i].hit = h]
  BY DEF Deletes, Less
<1>5. tasks[i] \in Task
  BY <1>0, TaskTypes
<1> HIDE DEF h
<1>2. /\ tasks'[i] = NewState(i, "init", tasks[i].fresh, h, tasks[i].lists, tasks[i].dead)
      /\ tasks' = [tasks EXCEPT ![i] = tasks'[i]]
  BY <1>0, <1>1, <1>5 DEF Task, NewState
<1>4. Becomes(i, "init", tasks[i].fresh, h, tasks[i].lists, tasks[i].dead)
  BY <1>0, <1>1, <1>2, <1>3, BecomesIs, TaskTypes
<1> QED BY <1>4 DEF h

AfterTake(active) == IF active = {} THEN "sources" ELSE "cascade"

\* What becomes of a task when execRC takes slots out of the engine.
LEMMA TakeBecomes ==
    ASSUME tasks \in Seq(Task), NEW i \in DOMAIN tasks, NEW slots, NEW lists, Take(i, slots, lists),
           Active(slots, lists) \in SUBSET ((SUBSET Vertices) \X [Slots -> Nat]),
           Owners(slots) \in SUBSET Vertices
    PROVE  Becomes(i, AfterTake(Active(slots, lists)), tasks[i].fresh, tasks[i].hit,
                   Active(slots, lists), tasks[i].dead \cup Owners(slots))
<1> DEFINE l == Active(slots, lists)
           d == tasks[i].dead \cup Owners(slots)
           p == AfterTake(l)
<1>0. p \in Phases
  BY DEF AfterTake, Phases, Stage
<1>1. tasks' = [tasks EXCEPT ![i].phase = p, ![i].lists = l,
                            ![i].dead = tasks[i].dead \cup Owners(slots)]
  BY DEF Take, AfterTake
<1>5. tasks[i] \in Task
  BY TaskTypes
<1>3. d \in SUBSET Vertices /\ l \in SUBSET ((SUBSET Vertices) \X [Slots -> Nat])
  BY TaskTypes
<1>6. d = tasks[i].dead \cup Owners(slots)
  OBVIOUS
<1> HIDE DEF l, d, p
<1>2. /\ tasks'[i] = NewState(i, p, tasks[i].fresh, tasks[i].hit, l, d)
      /\ tasks' = [tasks EXCEPT ![i] = tasks'[i]]
  BY <1>1, <1>5, <1>6 DEF Task, NewState
<1>4. Becomes(i, p, tasks[i].fresh, tasks[i].hit, l, d)
  BY <1>0, <1>1, <1>2, <1>3, BecomesIs, TaskTypes
<1> QED BY <1>4 DEF l, d, p

\* Task i leaves, the others keep their order.
Leaves(i) ==
    \E old \in [DOMAIN tasks' -> DOMAIN tasks] :
        /\ \A j, k \in DOMAIN tasks' : j < k => old[j] < old[k]
        /\ \A j \in DOMAIN tasks' : old[j] # i /\ tasks'[j] = tasks[old[j]]
        /\ \A k \in DOMAIN tasks : k # i => \E j \in DOMAIN tasks' : old[j] = k

\* What becomes of the tasks when one leaves the pipeline.
LEMMA FinishLeaves ==
    ASSUME tasks \in Seq(Task), NEW i \in DOMAIN tasks, Finish(i)
    PROVE  tasks' \in Seq(Task) /\ Len(tasks') = Len(tasks) - 1 /\ Leaves(i)
<1>1. /\ tasks' \in Seq(Task) /\ Len(tasks') = Len(tasks) - 1
      /\ \A j \in 1..(Len(tasks) - 1) : tasks'[j] = IF j < i THEN tasks[j] ELSE tasks[j + 1]
  <2>1. /\ RemoveAt(tasks, i) \in Seq(Task) /\ Len(RemoveAt(tasks, i)) = Len(tasks) - 1
        /\ \A j \in 1..(Len(tasks) - 1) :
             RemoveAt(tasks, i)[j] = IF j < i THEN tasks[j] ELSE tasks[j + 1]
    BY Removal
  <2> QED BY <2>1 DEF Finish
<1> DEFINE n == Len(tasks)
           old == [j \in DOMAIN tasks' |-> IF j < i THEN j ELSE j + 1]
<1>2. n \in Nat /\ DOMAIN tasks = 1..n /\ DOMAIN tasks' = 1..(n - 1) /\ i \in 1..n
  BY <1>1, TaskTypes
<1> HIDE DEF n
<1>3. old \in [DOMAIN tasks' -> DOMAIN tasks]
  BY <1>2
<1>4. \A j \in DOMAIN tasks' : old[j] = IF j < i THEN j ELSE j + 1
  OBVIOUS
<1> HIDE DEF old
<1>5. \A j, k \in DOMAIN tasks' : j < k => old[j] < old[k]
  BY <1>2, <1>4
<1>6. \A j \in DOMAIN tasks' : old[j] # i /\ tasks'[j] = tasks[old[j]]
  BY <1>1, <1>2, <1>4 DEF n
<1>7. ASSUME NEW k \in DOMAIN tasks, k # i
      PROVE  \E j \in DOMAIN tasks' : old[j] = k
  <2>1. CASE k < i
    BY <1>2, <1>4, <2>1
  <2>2. CASE k > i
    <3>1. k - 1 \in DOMAIN tasks' /\ ~ (k - 1 < i) /\ (k - 1) + 1 = k
      BY <1>2, <2>2
    <3> QED BY <1>4, <3>1
  <2> QED BY <1>2, <1>7, <2>1, <2>2
<1> QED BY <1>1, <1>3, <1>5, <1>6, <1>7 DEF Leaves

\* An ingest adds a task at the end.
LEMMA IngestAppends ==
    ASSUME tasks \in Seq(Task), NEW R \in SUBSET Row, tasks' = Append(tasks, NewTask(R))
    PROVE  /\ tasks' \in Seq(Task) /\ Len(tasks') = Len(tasks) + 1
           /\ DOMAIN tasks' = DOMAIN tasks \cup {Len(tasks) + 1}
           /\ Len(tasks) + 1 \notin DOMAIN tasks
           /\ \A j \in DOMAIN tasks : tasks'[j] = tasks[j] /\ j < Len(tasks) + 1
           /\ tasks'[Len(tasks) + 1] = NewTask(R)
<1> DEFINE new == NewTask(R)
<1>1. new \in Task
  BY DEF NewTask, Task, Phases, Stage
<1> HIDE DEF new
<1>2. tasks' = Append(tasks, new)
  BY DEF new
<1>3. /\ tasks' \in Seq(Task) /\ Len(tasks') = Len(tasks) + 1 /\ tasks'[Len(tasks) + 1] = new
      /\ \A j \in 1..Len(tasks) : tasks'[j] = tasks[j]
  BY <1>1, <1>2
<1>4. /\ DOMAIN tasks' = 1..(Len(tasks) + 1) /\ DOMAIN tasks = 1..Len(tasks) /\ Len(tasks) \in Nat
  BY <1>3
<1> QED BY <1>3, <1>4 DEF new

-----------------------------------------------------------------------------
(* What holds whatever fails: the steps of the tasks.                       *)

\* A task fits in with more rows written and more vertices used.
LEMMA FitsGrow ==
    ASSUME NEW t, NEW n \in Nat, NEW m \in Nat, n <= m, NEW us, NEW ws, us \subseteq ws,
           TaskFits(t, n, us)
    PROVE  TaskFits(t, m, ws)
BY DEF TaskFits, Fits, Spans, Row

\* The ends of rows that fit were created.
LEMMA EndsFit ==
    ASSUME NEW i, NEW n, NEW us, TaskFits(tasks[i], n, us)
    PROVE  Ends(Added(i)) \subseteq us \cup {Root}
<1> SUFFICES ASSUME NEW r \in Added(i), NEW v \in {r.edge[1], r.edge[2]}
             PROVE  v \in us \cup {Root}
  BY DEF Ends
<1>1. Fits(r, n, us)
  BY DEF Added, TaskFits
<1> QED BY <1>1 DEF Fits, Spans

\* The tasks fit together after one of them moved on to a later phase.
LEMMA MoveFits ==
    ASSUME Types, TasksFit, NEW i, NEW p \in Phases, NEW f, NEW h, NEW l, NEW d, Becomes(i, p, f, h, l, d),
           UNCHANGED <<rows, used>>, f \subseteq used \cup {Root}, IsFiniteSet(l),
           p # "cascade" => l = {}, p \in Unapplied => d = {} /\ h = {},
           \A j \in DOMAIN tasks : ReadFrom(tasks'[j], log'),
           Stage[p] >= Stage[tasks[i].phase],
           p = "cascade" => \A j \in 1..(i - 1) : Stage[tasks[j].phase] > 4
    PROVE  TasksFit'
<1>0. DOMAIN tasks = 1..Len(tasks) /\ \A j \in DOMAIN tasks : tasks[j].phase \in Phases
  BY TaskTypes DEF Types
<1>1. QuietStage = 6 => Len(tasks') <= 1
  BY DEF TasksFit, Becomes
<1>2. ASSUME NEW j \in DOMAIN tasks'
      PROVE  TaskFits(tasks'[j], rows, used)
  <2>1. j \in DOMAIN tasks /\ TaskFits(tasks[j], rows, used)
    BY DEF Becomes, TasksFit
  <2>2. CASE j = i
    BY <2>1, <2>2 DEF TaskFits, Becomes
  <2>3. CASE j # i
    <3>1. tasks'[j] = tasks[j]
      BY <2>1, <2>3 DEF Becomes
    <3> QED BY <2>1, <3>1
  <2> QED BY <2>2, <2>3
<1>3. ASSUME NEW j \in DOMAIN tasks', NEW k \in DOMAIN tasks', j < k
      PROVE  Before(tasks'[j], tasks'[k])
  <2>1. j \in DOMAIN tasks /\ k \in DOMAIN tasks /\ Before(tasks[j], tasks[k]) /\ j # k
    BY <1>0, <1>3 DEF Becomes, TasksFit
  <2>2. tasks'[j].rows = tasks[j].rows /\ tasks'[k].rows = tasks[k].rows
    BY <2>1 DEF Becomes
  <2>3. tasks'[k].phase = "cascade" => Stage[tasks'[j].phase] > 4
    <3>1. CASE k = i
      <4>1. tasks'[j].phase = tasks[j].phase /\ j \in 1..(i - 1) /\ tasks'[k].phase = p
        BY <1>0, <1>3, <2>1, <3>1 DEF Becomes
      <4> QED BY <4>1
    <3>2. CASE j = i
      <4>1. tasks'[k].phase = tasks[k].phase /\ tasks'[j].phase = p
        BY <2>1, <3>2 DEF Becomes
      <4>2. tasks[k].phase = "cascade" => Stage[tasks[i].phase] > 4
        BY <2>1, <3>2 DEF Before
      <4>3. Stage[p] \in Int /\ Stage[tasks[i].phase] \in Int
        BY <1>0, <2>1, <3>2 DEF Phases, Stage
      <4> QED BY <4>1, <4>2, <4>3
    <3>3. CASE j # i /\ k # i
      BY <2>1, <3>3 DEF Becomes, Before
    <3> QED BY <3>1, <3>2, <3>3
  <2> QED BY <2>1, <2>2, <2>3 DEF Before
<1>4. DOMAIN tasks' = DOMAIN tasks
  BY DEF Becomes
<1> QED BY <1>1, <1>2, <1>3, <1>4 DEF TasksFit

\* A step that leaves the log alone and does not cross stage 1.
LEMMA ReadOn ==
    ASSUME TasksFit, NEW i, NEW p, NEW f, NEW h, NEW l, NEW d, Becomes(i, p, f, h, l, d),
           log' = log, p \in Unread <=> tasks[i].phase \in Unread
    PROVE  \A j \in DOMAIN tasks : ReadFrom(tasks'[j], log')
<1> SUFFICES ASSUME NEW j \in DOMAIN tasks PROVE ReadFrom(tasks'[j], log)
  OBVIOUS
<1>1. ReadFrom(tasks[j], log)
  BY DEF TasksFit
<1>2. tasks'[j].rows = tasks[j].rows /\ (tasks'[j].phase \in Unread <=> tasks[j].phase \in Unread)
  BY DEF Becomes
<1> QED BY <1>1, <1>2 DEF ReadFrom

\* Stage 1: the rows of the task leave the log, and no others of a task that has
\* still to clear its own.
LEMMA ClearReads ==
    ASSUME LogFits, TasksFit, NEW i, NEW f, NEW h, NEW l, NEW d, Becomes(i, "maps", f, h, l, d),
           log' = log \ tasks[i].rows, tasks[i].phase \in Unread,
           DOMAIN tasks = 1..Len(tasks)
    PROVE  \A j \in DOMAIN tasks : ReadFrom(tasks'[j], log')
<1> SUFFICES ASSUME NEW j \in DOMAIN tasks PROVE ReadFrom(tasks'[j], log')
  OBVIOUS
<1>1. ReadFrom(tasks[j], log) /\ tasks'[j].rows = tasks[j].rows
  BY DEF TasksFit, Becomes
<1>2. i \in DOMAIN tasks /\ ReadFrom(tasks[i], log)
  BY DEF TasksFit, Becomes
<1>3. CASE j = i
  <2>1. tasks'[i].phase = "maps" /\ tasks[i].rows \subseteq log
    BY <1>2 DEF Becomes, ReadFrom
  <2>2. \A r \in tasks[i].rows : \A q \in log' : r.id # q.id
    BY <2>1 DEF LogFits
  <2> QED BY <1>1, <1>3, <2>1, <2>2 DEF ReadFrom, Unread
<1>4. CASE j # i
  <2>1. tasks'[j] = tasks[j]
    BY <1>4 DEF Becomes
  <2>2. \A r \in tasks[j].rows : r \notin tasks[i].rows
    <3> SUFFICES ASSUME NEW r \in tasks[j].rows, r \in tasks[i].rows PROVE FALSE
      OBVIOUS
    <3>1. i < j \/ j < i
      BY <1>2, <1>4
    <3>2. r.id < r.id
      BY <1>2, <3>1 DEF TasksFit, Before
    <3>3. r.id \in Int
      BY DEF TasksFit, TaskFits, Fits, Row
    <3> QED BY <3>2, <3>3
  <2> QED BY <1>1, <2>1, <2>2 DEF ReadFrom
<1> QED BY <1>3, <1>4

\* A task that goes leaves the others as they are.
LEMMA LeaveFits ==
    ASSUME Types, LogFits, TasksFit, NEW i \in DOMAIN tasks, Finish(i), UNCHANGED <<rows, used>>,
           log' = log \/ (log' = log \ tasks[i].rows)
    PROVE  TasksFit'
<1>1. tasks' \in Seq(Task) /\ Len(tasks') = Len(tasks) - 1 /\ Leaves(i)
  BY FinishLeaves DEF Types
<1>2. DOMAIN tasks = 1..Len(tasks) /\ Len(tasks) \in Nat /\ DOMAIN tasks' = 1..(Len(tasks) - 1)
  BY <1>1, TaskTypes DEF Types
<1>3. PICK old \in [DOMAIN tasks' -> DOMAIN tasks] :
        /\ \A j, k \in DOMAIN tasks' : j < k => old[j] < old[k]
        /\ \A j \in DOMAIN tasks' : old[j] # i /\ tasks'[j] = tasks[old[j]]
  BY <1>1 DEF Leaves
<1>4. QuietStage = 6 => Len(tasks') <= 1
  BY <1>1, <1>2 DEF TasksFit
<1>5. \A j \in DOMAIN tasks' : TaskFits(tasks'[j], rows, used)
  BY <1>3 DEF TasksFit
<1>6. \A j, k \in DOMAIN tasks' : j < k => Before(tasks'[j], tasks'[k])
  BY <1>3 DEF TasksFit
<1>7. ASSUME NEW j \in DOMAIN tasks' PROVE ReadFrom(tasks'[j], log')
  <2> DEFINE k == old[j]
  <2>1. k \in DOMAIN tasks /\ k # i /\ tasks'[j] = tasks[k] /\ ReadFrom(tasks[k], log)
    BY <1>3 DEF TasksFit
  <2> HIDE DEF k
  <2>2. \A r \in tasks[k].rows : r \notin tasks[i].rows
    <3> SUFFICES ASSUME NEW r \in tasks[k].rows, r \in tasks[i].rows PROVE FALSE
      OBVIOUS
    <3>1. i < k \/ k < i
      BY <1>2, <2>1
    <3>2. r.id < r.id
      BY <2>1, <3>1 DEF TasksFit, Before
    <3>3. r.id \in Int
      BY <2>1 DEF TasksFit, TaskFits, Fits, Row
    <3> QED BY <3>2, <3>3
  <2> QED BY <2>1, <2>2 DEF ReadFrom
<1> QED BY <1>4, <1>5, <1>6, <1>7 DEF TasksFit

\* Fewer rows in the log.
LEMMA LogShrinks ==
    ASSUME LogFits, UNCHANGED <<rows, used>>, log' \subseteq log
    PROVE  LogFits'
<1>1. IsFiniteSet(log')
  BY FS_Subset DEF LogFits
<1> QED BY <1>1 DEF LogFits

\* The state keeps its types when a task moves and the catalog only shrinks.
LEMMA TypesMove ==
    ASSUME Types, NEW i, NEW p, NEW f, NEW h, NEW l, NEW d, Becomes(i, p, f, h, l, d),
           UNCHANGED <<used, rows, iMap, oMap, alloc, rc, out, lost>>,
           ents' \subseteq ents, rels' \subseteq rels, dropped' \subseteq dropped
    PROVE  Types'
BY DEF Types, Becomes

\* What is known of a task whose turn it is.
LEMMA Started ==
    ASSUME Basic, NEW i, NEW p, Turn(i, p)
    PROVE  /\ i \in DOMAIN tasks /\ tasks \in Seq(Task) /\ tasks[i].phase = p
           /\ TaskFits(tasks[i], rows, used) /\ ReadFrom(tasks[i], log)
           /\ \A j \in 1..(i - 1) : Stage[tasks[j].phase] > Stage[p]
           /\ tasks[i].phase # "cascade" => tasks[i].lists = {}
BY DEF Basic, Types, TasksFit, Turn, TaskFits

\* A task goes on to phase p, and the engine is left alone.
LEMMA PassBasic ==
    ASSUME Basic, NEW i, NEW q, NEW p \in Phases, Turn(i, q), Pass(i, p),
           q # "cascade" /\ p # "cascade", p \in Unread <=> q \in Unread,
           p \in Unapplied => q \in Unapplied, Stage[p] >= Stage[q],
           log' = log, UNCHANGED <<used, rows, iMap, oMap, alloc, rc, out, lost>>,
           ents' \subseteq ents, rels' \subseteq rels, dropped' \subseteq dropped
    PROVE  Basic'
<1>1. Becomes(i, p, tasks[i].fresh, tasks[i].hit, tasks[i].lists, tasks[i].dead)
  BY Started, PassBecomes
<1>2. Types'
  BY <1>1, TypesMove DEF Basic
<1>3. LogFits'
  BY LogShrinks DEF Basic
<1>4. \A j \in DOMAIN tasks : ReadFrom(tasks'[j], log')
  BY <1>1, Started, ReadOn DEF Basic
<1>5. /\ tasks[i].fresh \subseteq used \cup {Root} /\ IsFiniteSet(tasks[i].lists)
      /\ tasks[i].lists = {} /\ (p \in Unapplied => tasks[i].dead = {} /\ tasks[i].hit = {})
      /\ Stage[p] >= Stage[tasks[i].phase]
  BY Started DEF TaskFits
<1>6. TasksFit'
  BY <1>1, <1>4, <1>5, MoveFits DEF Basic
<1> QED BY <1>2, <1>3, <1>6 DEF Basic

\* updateGraphStore keeps the shape of the state.
LEMMA StoreBasic ==
    ASSUME Basic, NEW i, Store(i)
    PROVE  Basic'
<1>0. Turn(i, "store") /\ "clear" \in Phases /\ Stage["clear"] >= Stage["store"]
  BY DEF Store, Phases, Stage
<1>1. Fresh(i) \in SUBSET Vertices /\ Fresh(i) \subseteq used \cup {Root}
  <2>1. Ends(Added(i)) \subseteq used \cup {Root}
    BY <1>0, Started, EndsFit
  <2> QED BY <2>1, PipelineOK DEF Fresh, Basic, Types
<1>2. Becomes(i, "clear", Fresh(i), tasks[i].hit, tasks[i].lists, tasks[i].dead)
  BY <1>0, <1>1, Started, StoreBecomes
<1>3. log' = log /\ UNCHANGED <<used, rows, iMap, oMap, alloc, rc, out, lost, ents, rels, dropped>>
  BY DEF Store, catalogVars, mapVars, engineVars
<1>4. Types'
  BY <1>2, <1>3, TypesMove DEF Basic
<1>5. LogFits'
  BY <1>3, LogShrinks DEF Basic
<1>6. \A j \in DOMAIN tasks : ReadFrom(tasks'[j], log')
  BY <1>0, <1>2, <1>3, Started, ReadOn DEF Basic, Unread
<1>7. /\ IsFiniteSet(tasks[i].lists) /\ tasks[i].lists = {} /\ tasks[i].dead = {} /\ tasks[i].hit = {}
      /\ Stage["clear"] >= Stage[tasks[i].phase]
  BY <1>0, Started DEF TaskFits, Unapplied
<1>8. TasksFit'
  BY <1>0, <1>1, <1>2, <1>3, <1>6, <1>7, MoveFits DEF Basic
<1> QED BY <1>4, <1>5, <1>8 DEF Basic

\* clearCatalogEdges keeps the shape of the state: the log loses the task's rows.
LEMMA ClearBasic ==
    ASSUME Basic, NEW i, Clear(i)
    PROVE  Basic'
<1>0. Turn(i, "clear") /\ "maps" \in Phases /\ Stage["maps"] >= Stage["clear"] /\ Pass(i, "maps")
  BY DEF Clear, Phases, Stage
<1>1. /\ log' = log \ tasks[i].rows
      /\ UNCHANGED <<used, rows, iMap, oMap, alloc, rc, out, lost, ents, rels, dropped>>
  BY DEF Clear, catalogVars, mapVars, engineVars
<1>2. Becomes(i, "maps", tasks[i].fresh, tasks[i].hit, tasks[i].lists, tasks[i].dead)
  BY <1>0, Started, PassBecomes
<1>3. Types'
  BY <1>1, <1>2, TypesMove DEF Basic
<1>4. LogFits'
  BY <1>1, LogShrinks DEF Basic
<1>5. \A j \in DOMAIN tasks : ReadFrom(tasks'[j], log')
  <2>1. DOMAIN tasks = 1..Len(tasks) /\ tasks[i].phase \in Unread
    BY <1>0, Started, TaskTypes DEF Unread
  <2> QED BY <1>1, <1>2, <2>1, ClearReads DEF Basic
<1>6. /\ tasks[i].fresh \subseteq used \cup {Root}
      /\ IsFiniteSet(tasks[i].lists) /\ tasks[i].lists = {} /\ tasks[i].dead = {} /\ tasks[i].hit = {}
      /\ Stage["maps"] >= Stage[tasks[i].phase]
  BY <1>0, Started DEF TaskFits, Unapplied
<1>7. TasksFit'
  BY <1>0, <1>1, <1>2, <1>5, <1>6, MoveFits DEF Basic
<1> QED BY <1>3, <1>4, <1>7 DEF Basic

\* The catalog's part of stage 5.
LEMMA CommitBasic ==
    ASSUME Basic, NEW i, DeleteSources(i) \/ DeleteDests(i) \/ DeleteEnts(i)
    PROVE  Basic'
<1>1. /\ log' = log /\ UNCHANGED <<used, rows, iMap, oMap, alloc, rc, out, lost>>
      /\ ents' \subseteq ents /\ rels' \subseteq rels /\ dropped' \subseteq dropped
  BY DEF DeleteSources, DeleteDests, DeleteEnts, Without, mapVars, engineVars
<1>2. PICK q \in {"sources", "dests", "ents"} :
        /\ Turn(i, q)
        /\ Pass(i, IF q = "sources" THEN "dests" ELSE IF q = "dests" THEN "ents" ELSE "post")
  BY DEF DeleteSources, DeleteDests, DeleteEnts
<1> DEFINE p == IF q = "sources" THEN "dests" ELSE IF q = "dests" THEN "ents" ELSE "post"
<1>3. /\ p \in Phases /\ q # "cascade" /\ p # "cascade" /\ (p \in Unread <=> q \in Unread)
      /\ (p \in Unapplied => q \in Unapplied) /\ Stage[p] >= Stage[q] /\ Pass(i, p)
  BY <1>2 DEF Phases, Stage, Unread, Unapplied
<1> HIDE DEF p
<1> QED BY <1>1, <1>2, <1>3, PassBasic

\* The rows of a task are finite, and so are those that satisfy a condition.
LEMMA CountType ==
    ASSUME NEW R, IsFiniteSet(R), NEW S \in SUBSET R
    PROVE  IsFiniteSet(S) /\ Cardinality(S) \in Nat
BY FS_Subset, FS_CardinalityType

New(i, pos, s, t) == {r \in Added(i) : pos[r.edge[1]] = s /\ pos[r.edge[2]] = t}

Into(i, pos, t) == {r \in Added(i) : pos[r.edge[2]] = t}

\* applyAddEdges counts the references between two slots, and those into a slot.
LEMMA AddsIs ==
    ASSUME NEW i, Adds(i)
    PROVE  \E pos \in [Ends(Added(i)) -> Slots] :
             /\ \A v \in DOMAIN pos \cap DOMAIN iMap : pos[v] = iMap[v]
             /\ out' = [s \in Slots |-> [t \in Slots |-> out[s][t] + Cardinality(New(i, pos, s, t))]]
             /\ rc' = [t \in Slots |-> rc[t] + Cardinality(Into(i, pos, t))]
BY DEF Adds, New, Into

\* applyAddEdges keeps the shape of the state.
LEMMA AddsBasic ==
    ASSUME Basic, NEW i, Adds(i)
    PROVE  Basic'
<1>0. Turn(i, "adds") /\ "deletes" \in Phases /\ Stage["deletes"] >= Stage["adds"] /\ Pass(i, "deletes")
  BY DEF Adds, Phases, Stage
<1>1. log' = log /\ UNCHANGED <<used, rows, iMap, oMap, alloc, lost, ents, rels, dropped>>
  BY DEF Adds, catalogVars, mapVars
<1>2. Becomes(i, "deletes", tasks[i].fresh, tasks[i].hit, tasks[i].lists, tasks[i].dead)
  BY <1>0, Started, PassBecomes
<1>3. PICK pos \in [Ends(Added(i)) -> Slots] :
        /\ out' = [s \in Slots |-> [t \in Slots |-> out[s][t] + Cardinality(New(i, pos, s, t))]]
        /\ rc' = [t \in Slots |-> rc[t] + Cardinality(Into(i, pos, t))]
  BY AddsIs
<1>4. \A s, t \in Slots : Cardinality(New(i, pos, s, t)) \in Nat /\ Cardinality(Into(i, pos, t)) \in Nat
  <2> SUFFICES ASSUME NEW s \in Slots, NEW t \in Slots
               PROVE  Cardinality(New(i, pos, s, t)) \in Nat /\ Cardinality(Into(i, pos, t)) \in Nat
    OBVIOUS
  <2>1. New(i, pos, s, t) \in SUBSET tasks[i].rows /\ Into(i, pos, t) \in SUBSET tasks[i].rows
    BY DEF New, Into, Added
  <2>2. IsFiniteSet(tasks[i].rows)
    BY <1>0, Started DEF TaskFits
  <2> QED BY <2>1, <2>2, CountType
<1>5. rc' \in [Slots -> Int] /\ out' \in [Slots -> [Slots -> Nat]]
  <2>1. \A s, t \in Slots : rc[t] \in Int /\ out[s][t] \in Nat
    BY DEF Basic, Types
  <2>2. \A a \in Int, b, n \in Nat : a + n \in Int /\ b + n \in Nat
    OBVIOUS
  <2>3. \A s, t \in Slots : /\ rc[t] + Cardinality(Into(i, pos, t)) \in Int
                            /\ out[s][t] + Cardinality(New(i, pos, s, t)) \in Nat
    BY <1>4, <2>1, <2>2
  <2> QED BY <1>3, <2>3
<1>6. Types'
  BY <1>1, <1>2, <1>5 DEF Basic, Types, Becomes
<1>7. LogFits'
  BY <1>1, LogShrinks DEF Basic
<1>8. \A j \in DOMAIN tasks : ReadFrom(tasks'[j], log')
  BY <1>0, <1>1, <1>2, Started, ReadOn DEF Basic, Unread
<1>9. /\ tasks[i].fresh \subseteq used \cup {Root}
      /\ IsFiniteSet(tasks[i].lists) /\ tasks[i].lists = {} /\ tasks[i].dead = {} /\ tasks[i].hit = {}
      /\ Stage["deletes"] >= Stage[tasks[i].phase]
  BY <1>0, Started DEF TaskFits, Unapplied
<1>10. TasksFit'
  BY <1>0, <1>1, <1>2, <1>8, <1>9, MoveFits DEF Basic
<1> QED BY <1>6, <1>7, <1>10 DEF Basic

\* No more references are removed than an edge list has.
LEMMA FoundIs ==
    ASSUME Basic, NEW i \in DOMAIN tasks
    PROVE  \A s, t \in Slots :
             /\ Asked(i, s, t) \in Nat /\ Found(i, s, t) \in Nat /\ out[s][t] \in Nat
             /\ Found(i, s, t) <= out[s][t] /\ out[s][t] - Found(i, s, t) \in Nat
<1> SUFFICES ASSUME NEW s \in Slots, NEW t \in Slots
             PROVE  /\ Asked(i, s, t) \in Nat /\ Found(i, s, t) \in Nat /\ out[s][t] \in Nat
                    /\ Found(i, s, t) <= out[s][t] /\ out[s][t] - Found(i, s, t) \in Nat
  OBVIOUS
<1>1. out[s][t] \in Nat
  BY DEF Basic, Types
<1>2. Asked(i, s, t) \in Nat
  <2> DEFINE A == {r \in Removed(i) : /\ {r.edge[1], r.edge[2]} \subseteq DOMAIN iMap
                                      /\ iMap[r.edge[1]] = s /\ iMap[r.edge[2]] = t}
  <2>1. A \in SUBSET tasks[i].rows /\ Asked(i, s, t) = Cardinality(A)
    BY DEF Removed, Asked
  <2>2. IsFiniteSet(tasks[i].rows)
    BY DEF Basic, TasksFit, TaskFits
  <2> HIDE DEF A
  <2> QED BY <2>1, <2>2, CountType
<1> QED BY <1>1, <1>2 DEF Found

\* What applyDeleteEdges takes off a count is a sum over the edge lists.
LEMMA LessIs ==
    ASSUME Basic, NEW i \in DOMAIN tasks
    PROVE  \A t \in Slots : /\ Less(i)[t] = Sum([s \in Slots |-> Found(i, s, t)], Slots)
                            /\ Less(i)[t] \in Nat
<1> SUFFICES ASSUME NEW t \in Slots
             PROVE  /\ Less(i)[t] = Sum([s \in Slots |-> Found(i, s, t)], Slots)
                    /\ Less(i)[t] \in Nat
  OBVIOUS
<1> DEFINE f == [s \in Slots |-> Found(i, s, t)]
<1>1. Less(i)[t] = Sum(f, Slots)
  BY DEF Less, SumFunction, Sum
<1>2. \A s \in Slots : f[s] \in Nat
  BY FoundIs
<1> HIDE DEF f
<1>3. Sum(f, Slots) \in Nat
  BY <1>2, SumNat, PipelineOK
<1> QED BY <1>1, <1>3 DEF f

\* applyDeleteEdges keeps the shape of the state: it takes no more out of an edge
\* list than is in it.
LEMMA DeletesBasic ==
    ASSUME Basic, NEW i, Deletes(i)
    PROVE  Basic'
<1>0. Turn(i, "deletes") /\ "init" \in Phases /\ Stage["init"] >= Stage["deletes"]
  BY DEF Deletes, Phases, Stage
<1>1. log' = log /\ UNCHANGED <<used, rows, iMap, oMap, alloc, lost, ents, rels, dropped>>
  BY DEF Deletes, catalogVars, mapVars
<1>2. Becomes(i, "init", tasks[i].fresh, Zeroed(Less(i)), tasks[i].lists, tasks[i].dead)
  BY <1>0, Started, DeletesBecomes DEF Basic, Types
<1>3. /\ out' = [s \in Slots |-> [t \in Slots |-> out[s][t] - Found(i, s, t)]]
      /\ rc' = [t \in Slots |-> IF t \in alloc THEN rc[t] - Less(i)[t] ELSE rc[t]]
  BY DEF Deletes, Less
<1>4. i \in DOMAIN tasks
  BY <1>0 DEF Turn
<1>5. \A t \in Slots : Less(i)[t] \in Nat /\ \A s \in Slots : out[s][t] - Found(i, s, t) \in Nat
  BY <1>4, LessIs, FoundIs
<1>6. rc' \in [Slots -> Int] /\ out' \in [Slots -> [Slots -> Nat]]
  BY <1>3, <1>5 DEF Basic, Types
<1>7. Types'
  BY <1>1, <1>2, <1>6 DEF Basic, Types, Becomes
<1>8. LogFits'
  BY <1>1, LogShrinks DEF Basic
<1>9. \A j \in DOMAIN tasks : ReadFrom(tasks'[j], log')
  BY <1>0, <1>1, <1>2, Started, ReadOn DEF Basic, Unread
<1>10. /\ tasks[i].fresh \subseteq used \cup {Root}
       /\ IsFiniteSet(tasks[i].lists) /\ tasks[i].lists = {}
       /\ Stage["init"] >= Stage[tasks[i].phase] /\ "init" \notin Unapplied
  BY <1>0, Started DEF TaskFits, Unapplied
<1>11. TasksFit'
  BY <1>0, <1>1, <1>2, <1>9, <1>10, MoveFits DEF Basic
<1> QED BY <1>7, <1>8, <1>11 DEF Basic

\* execRC: the edge lists of what is taken are finitely many.
LEMMA ActiveTypes ==
    ASSUME Basic, NEW slots \in SUBSET Slots, NEW lists \in SUBSET ((SUBSET Vertices) \X [Slots -> Nat]),
           IsFiniteSet(lists)
    PROVE  /\ Owners(slots) \in SUBSET Vertices /\ IsFiniteSet(Active(slots, lists))
           /\ Active(slots, lists) \in SUBSET ((SUBSET Vertices) \X [Slots -> Nat])
<1> DEFINE some == {s \in slots : out[s] # Nowhere}
           pair(s) == <<Owners({s}), out[s]>>
           image == {pair(s) : s \in some}
<1>1. \A sl \in SUBSET Slots : Owners(sl) \in SUBSET Vertices
  BY DEF Owners, Basic, Types
<1>2. \A s \in Slots : out[s] \in [Slots -> Nat]
  BY DEF Basic, Types
<1>3. \A s \in some : pair(s) \in (SUBSET Vertices) \X [Slots -> Nat]
  <2> SUFFICES ASSUME NEW s \in some PROVE pair(s) \in (SUBSET Vertices) \X [Slots -> Nat]
    OBVIOUS
  <2>1. s \in Slots /\ {s} \in SUBSET Slots
    OBVIOUS
  <2>2. Owners({s}) \in SUBSET Vertices
    BY <1>1, <2>1
  <2> QED BY <1>2, <2>1, <2>2
<1>4. IsFiniteSet(some)
  <2>1. some \in SUBSET Slots
    OBVIOUS
  <2> QED BY <2>1, FS_Subset, PipelineOK
<1>5. Active(slots, lists) = lists \cup image
  BY DEF Active
<1> HIDE DEF pair, some
<1>6. IsFiniteSet(image)
  <2> DEFINE f == [s \in some |-> pair(s)]
  <2>1. f \in Surjection(some, image)
    BY DEF Surjection
  <2> HIDE DEF image, f
  <2> QED BY <1>4, <2>1, FS_Surjection
<1>7. image \in SUBSET ((SUBSET Vertices) \X [Slots -> Nat])
  BY <1>3
<1> HIDE DEF image
<1>8. IsFiniteSet(lists \cup image)
  BY <1>6, FS_Union
<1> QED BY <1>1, <1>5, <1>7, <1>8

\* Taking slots out of the engine keeps the shape of the state.
LEMMA TakeBasic ==
    ASSUME Basic, NEW i, NEW q \in {"init", "cascade"}, Turn(i, q),
           NEW slots \in SUBSET alloc, NEW lists \in SUBSET tasks[i].lists,
           Take(i, slots, lists), rc' \in [Slots -> Int],
           UNCHANGED <<ents, rels, dropped, used, log, rows, iMap, oMap, lost>>
    PROVE  Basic'
<1> DEFINE active == Active(slots, lists)
           p == AfterTake(active)
<1>1. i \in DOMAIN tasks /\ tasks \in Seq(Task) /\ slots \in SUBSET Slots /\ tasks[i].phase = q
  BY Started DEF Basic, Types
<1>2. /\ lists \in SUBSET ((SUBSET Vertices) \X [Slots -> Nat]) /\ IsFiniteSet(lists)
  <2>1. IsFiniteSet(tasks[i].lists)
    BY Started DEF TaskFits
  <2> QED BY <1>1, <2>1, TaskTypes, FS_Subset
<1>3. /\ Owners(slots) \in SUBSET Vertices /\ IsFiniteSet(active)
      /\ active \in SUBSET ((SUBSET Vertices) \X [Slots -> Nat])
  BY <1>1, <1>2, ActiveTypes
<1>4. Becomes(i, p, tasks[i].fresh, tasks[i].hit, active, tasks[i].dead \cup Owners(slots))
  BY <1>1, <1>3, TakeBecomes
<1>5. /\ p \in Phases /\ p \notin Unread /\ q \notin Unread /\ p \notin Unapplied
      /\ Stage[p] >= Stage[q] /\ Stage[q] = 4 /\ (p # "cascade" => active = {})
  BY DEF AfterTake, Phases, Stage, Unread, Unapplied
<1> HIDE DEF p, active
<1>6. Types'
  <2>1. out' \in [Slots -> [Slots -> Nat]] /\ alloc' \subseteq Slots
    BY DEF Take, Nowhere, Basic, Types
  <2> QED BY <1>4, <2>1 DEF Basic, Types, Becomes
<1>7. LogFits'
  BY LogShrinks DEF Basic
<1>8. \A j \in DOMAIN tasks : ReadFrom(tasks'[j], log')
  BY <1>1, <1>4, <1>5, ReadOn DEF Basic
<1>9. tasks[i].fresh \subseteq used \cup {Root} /\ \A j \in 1..(i - 1) : Stage[tasks[j].phase] > 4
  BY <1>5, Started DEF TaskFits
<1>10. TasksFit'
  BY <1>1, <1>3, <1>4, <1>5, <1>8, <1>9, MoveFits DEF Basic
<1> QED BY <1>6, <1>7, <1>10 DEF Basic

\* The first step of execRC keeps the shape of the state.
LEMMA StartBasic ==
    ASSUME Basic, NEW i, Start(i)
    PROVE  Basic'
<1>1. Turn(i, "init") /\ UNCHANGED <<ents, rels, dropped, used, log, rows, iMap, oMap, lost>>
  BY DEF Start, catalogVars, mapVars
<1>2. PICK slots \in SUBSET alloc :
        Take(i, slots, {}) /\ rc' = [s \in Slots |-> IF s \in slots THEN 0 ELSE rc[s]]
  BY DEF Start
<1>3. rc' \in [Slots -> Int]
  BY <1>2 DEF Basic, Types
<1> QED BY <1>1, <1>2, <1>3, TakeBasic

\* A further step of execRC keeps the shape of the state.
LEMMA CascadeBasic ==
    ASSUME Basic, NEW i, Cascade(i)
    PROVE  Basic'
<1>1. Turn(i, "cascade") /\ UNCHANGED <<ents, rels, dropped, used, log, rows, iMap, oMap, lost>>
  BY DEF Cascade, catalogVars, mapVars
<1>2. PICK list \in tasks[i].lists :
        /\ Take(i, Zeroed(list[2]), tasks[i].lists \ {list})
        /\ rc' = [t \in Slots |-> IF t \in Zeroed(list[2]) THEN 0
                                  ELSE IF t \in alloc THEN rc[t] - list[2][t] ELSE rc[t]]
  BY DEF Cascade
<1>3. list[2] \in [Slots -> Nat]
  BY <1>1, Started, TaskTypes
<1>4. Zeroed(list[2]) \in SUBSET alloc
  BY DEF Zeroed
<1>5. rc' \in [Slots -> Int]
  <2>1. \A t \in Slots : rc[t] \in Int /\ list[2][t] \in Nat
    BY <1>3 DEF Basic, Types
  <2>2. \A a \in Int, b \in Nat : a - b \in Int
    OBVIOUS
  <2>3. \A t \in Slots : rc[t] - list[2][t] \in Int
    BY <2>1, <2>2
  <2> HIDE DEF Zeroed
  <2> QED BY <1>2, <2>1, <2>3
<1> QED BY <1>1, <1>2, <1>4, <1>5, TakeBasic

\* Stage 2: an injection from the vertices noted to slots that are free.
LEMMA MapsIs ==
    ASSUME NEW i, Maps(i)
    PROVE  \E pos \in [tasks[i].fresh -> Slots \ alloc] :
             /\ \A v, w \in tasks[i].fresh : pos[v] = pos[w] => v = w
             /\ \A s : s \in Range(pos) <=> \E v \in tasks[i].fresh : pos[v] = s
             /\ alloc' = alloc \cup Range(pos)
             /\ rc' = [s \in Slots |-> IF s \in Range(pos) THEN 0 ELSE rc[s]]
             /\ out' = [s \in Slots |-> IF s \in Range(pos) THEN Nowhere ELSE out[s]]
             /\ DOMAIN iMap' = DOMAIN iMap \cup tasks[i].fresh
             /\ \A v \in DOMAIN iMap' : iMap'[v] = IF v \in tasks[i].fresh THEN pos[v] ELSE iMap[v]
             /\ DOMAIN oMap' = DOMAIN oMap \cup Range(pos)
             /\ \A v \in tasks[i].fresh : oMap'[pos[v]] = v
             /\ \A s \in DOMAIN oMap \ Range(pos) : oMap'[s] = oMap[s]
<1> DEFINE fresh == tasks[i].fresh
<1>1. PICK pos \in Injection(fresh, Slots \ alloc) :
         /\ alloc' = alloc \cup Range(pos)
         /\ rc' = [s \in Slots |-> IF s \in Range(pos) THEN 0 ELSE rc[s]]
         /\ out' = [s \in Slots |-> IF s \in Range(pos) THEN Nowhere ELSE out[s]]
         /\ iMap' = [v \in DOMAIN iMap \cup fresh |-> IF v \in fresh THEN pos[v] ELSE iMap[v]]
         /\ oMap' = [s \in DOMAIN oMap \cup Range(pos) |->
                       IF s \in Range(pos) THEN CHOOSE v \in fresh : pos[v] = s ELSE oMap[s]]
  BY DEF Maps
<1>2. pos \in [fresh -> Slots \ alloc] /\ \A v, w \in fresh : pos[v] = pos[w] => v = w
  BY DEF Injection, IsInjective
<1>3. \A s : s \in Range(pos) <=> \E v \in fresh : pos[v] = s
  BY <1>2 DEF Range
<1>4. ASSUME NEW v \in fresh PROVE oMap'[pos[v]] = v
  <2>1. pos[v] \in Range(pos)
    BY <1>3
  <2>2. oMap'[pos[v]] = CHOOSE w \in fresh : pos[w] = pos[v]
    BY <1>1, <2>1
  <2> QED BY <1>2, <2>2
<1> QED BY <1>1, <1>2, <1>3, <1>4

\* updateVertexMaps keeps the shape of the state: the names it gives slots exist.
LEMMA MapsBasic ==
    ASSUME Basic, NEW i, Maps(i)
    PROVE  Basic'
<1>0. Turn(i, "maps") /\ "adds" \in Phases /\ Stage["adds"] >= Stage["maps"] /\ Pass(i, "adds")
  BY DEF Maps, Phases, Stage
<1>1. log' = log /\ UNCHANGED <<used, rows, lost, ents, rels, dropped>>
  BY DEF Maps, catalogVars
<1>2. Becomes(i, "adds", tasks[i].fresh, tasks[i].hit, tasks[i].lists, tasks[i].dead)
  BY <1>0, Started, PassBecomes
<1> DEFINE fresh == tasks[i].fresh
<1>3. PICK pos \in [fresh -> Slots \ alloc] :
             /\ \A s : s \in Range(pos) <=> \E v \in fresh : pos[v] = s
             /\ alloc' = alloc \cup Range(pos)
             /\ rc' = [s \in Slots |-> IF s \in Range(pos) THEN 0 ELSE rc[s]]
             /\ out' = [s \in Slots |-> IF s \in Range(pos) THEN Nowhere ELSE out[s]]
             /\ DOMAIN iMap' = DOMAIN iMap \cup fresh
             /\ \A v \in DOMAIN iMap' : iMap'[v] = IF v \in fresh THEN pos[v] ELSE iMap[v]
             /\ DOMAIN oMap' = DOMAIN oMap \cup Range(pos)
             /\ \A v \in fresh : oMap'[pos[v]] = v
             /\ \A s \in DOMAIN oMap \ Range(pos) : oMap'[s] = oMap[s]
  BY MapsIs
<1>4. fresh \subseteq used \cup {Root} /\ fresh \subseteq Vertices /\ Range(pos) \subseteq Slots
  <2>1. fresh \subseteq used \cup {Root}
    BY <1>0, Started DEF TaskFits
  <2> QED BY <1>3, <2>1, PipelineOK DEF Basic, Types
<1>5. rc' \in [Slots -> Int] /\ out' \in [Slots -> [Slots -> Nat]]
  BY <1>3 DEF Basic, Types, Nowhere
<1>6. Types'
  <2>1. DOMAIN iMap' \subseteq used \cup {Root} /\ DOMAIN oMap' \subseteq Slots /\ alloc' \subseteq Slots
    BY <1>3, <1>4 DEF Basic, Types
  <2>2. \A v \in DOMAIN iMap' : iMap'[v] \in Slots
    BY <1>3 DEF Basic, Types
  <2>3. \A s \in DOMAIN oMap' : oMap'[s] \in Vertices
    BY <1>3, <1>4 DEF Basic, Types
  <2> HIDE DEF fresh
  <2> QED BY <1>1, <1>2, <1>5, <2>1, <2>2, <2>3 DEF Basic, Types, Becomes
<1> HIDE DEF fresh
<1>7. LogFits'
  BY <1>1, LogShrinks DEF Basic
<1>8. \A j \in DOMAIN tasks : ReadFrom(tasks'[j], log')
  BY <1>0, <1>1, <1>2, Started, ReadOn DEF Basic, Unread
<1>9. /\ tasks[i].fresh \subseteq used \cup {Root}
      /\ IsFiniteSet(tasks[i].lists) /\ tasks[i].lists = {} /\ tasks[i].dead = {} /\ tasks[i].hit = {}
      /\ Stage["adds"] >= Stage[tasks[i].phase]
  BY <1>0, Started DEF TaskFits, Unapplied
<1>10. TasksFit'
  BY <1>0, <1>1, <1>2, <1>8, <1>9, MoveFits DEF Basic
<1> QED BY <1>6, <1>7, <1>10 DEF Basic

\* A task goes, and what the maps name is among what they named.
LEMMA GoneBasic ==
    ASSUME Basic, NEW i \in DOMAIN tasks, Finish(i),
           UNCHANGED <<ents, rels, dropped, used, rows, alloc, rc, out>>,
           DOMAIN iMap' \subseteq DOMAIN iMap, \A v \in DOMAIN iMap' : iMap'[v] = iMap[v],
           DOMAIN oMap' \subseteq DOMAIN oMap, \A s \in DOMAIN oMap' : oMap'[s] = oMap[s],
           lost' \in BOOLEAN, log' = log \/ (log' = log \ tasks[i].rows)
    PROVE  Basic'
<1>1. tasks' \in Seq(Task) /\ Len(tasks') = Len(tasks) - 1 /\ Len(tasks) \in Nat
  BY FinishLeaves, TaskTypes DEF Basic, Types
<1>2. Types'
  <2>1. Len(tasks') <= MaxTasks
    BY <1>1, PipelineOK DEF Basic, Types
  <2> QED BY <1>1, <2>1 DEF Basic, Types
<1>3. LogFits'
  BY LogShrinks DEF Basic
<1>4. TasksFit'
  BY LeaveFits DEF Basic
<1> QED BY <1>2, <1>3, <1>4 DEF Basic

\* Stage 6 only restricts the maps.
LEMMA PostIs ==
    ASSUME NEW i, Post(i)
    PROVE  /\ Finish(i) /\ i \in DOMAIN tasks /\ Turn(i, "post")
           /\ DOMAIN iMap' = DOMAIN iMap \ tasks[i].dead
           /\ \A v \in DOMAIN iMap' : iMap'[v] = iMap[v]
           /\ DOMAIN oMap' = {s \in DOMAIN oMap : ~ (oMap[s] \in tasks[i].dead \cap DOMAIN iMap
                                                     /\ iMap[oMap[s]] = s)}
           /\ \A s \in DOMAIN oMap' : oMap'[s] = oMap[s]
BY DEF Post, Turn, Restrict

\* postRCCommit keeps the shape of the state.
LEMMA PostBasic ==
    ASSUME Basic, NEW i, Post(i)
    PROVE  Basic'
<1>1. UNCHANGED <<ents, rels, dropped, used, rows, alloc, rc, out, lost, log>> /\ lost \in BOOLEAN
  BY DEF Post, catalogVars, engineVars, Basic, Types
<1> QED BY <1>1, PostIs, GoneBasic

\* A statement that is given up keeps the shape of the state.
LEMMA FailBasic ==
    ASSUME Basic, NEW i, Fail(i)
    PROVE  Basic'
<1>1. /\ i \in DOMAIN tasks /\ Finish(i) /\ lost' \in BOOLEAN
      /\ (log' = log) \/ (log' = log \ tasks[i].rows)
      /\ UNCHANGED <<ents, rels, dropped, used, rows, iMap, oMap, alloc, rc, out>>
  BY DEF Fail, Turn, catalogVars, mapVars, engineVars, Basic, Types
<1>2. /\ DOMAIN iMap' \subseteq DOMAIN iMap /\ \A v \in DOMAIN iMap' : iMap'[v] = iMap[v]
      /\ DOMAIN oMap' \subseteq DOMAIN oMap /\ \A s \in DOMAIN oMap' : oMap'[s] = oMap[s]
  BY <1>1
<1>3. UNCHANGED <<ents, rels, dropped, used, rows, alloc, rc, out>>
  BY <1>1
<1> QED BY <1>1, <1>2, <1>3, GoneBasic

-----------------------------------------------------------------------------
(* What holds whatever fails: ingests and clients.                          *)

\* The mark of the ingestor.
Mark(r) == [r EXCEPT !.due = TRUE]

\* The mark of the ingestor changes nothing else in a row.
LEMMA MarkIs ==
    ASSUME NEW r \in Row
    PROVE  /\ Mark(r) \in Row /\ Mark(r).id = r.id /\ Mark(r).op = r.op
           /\ Mark(r).edge = r.edge /\ Mark(r).due = TRUE /\ r.id \in Nat
           /\ (AtOnce(Mark(r)) <=> AtOnce(r))
<1>1. /\ Mark(r) \in Row /\ Mark(r).id = r.id /\ Mark(r).op = r.op
      /\ Mark(r).edge = r.edge /\ Mark(r).due = TRUE
  BY DEF Mark, Row
<1>2. r.id \in Nat
  BY PipelineOK DEF Row
<1> QED BY <1>1, <1>2 DEF AtOnce

\* What an ingest does: it marks the rows it reads, and a task begins with them.
LEMMA IngestIs ==
    ASSUME Basic, Ingest
    PROVE  \E R \in Cuts : \E read \in SUBSET Row :
             /\ R \in SUBSET log /\ R # {}
             /\ read = {Mark(r) : r \in R} /\ IsFiniteSet(read)
             /\ log' = (log \ R) \cup read /\ IsFiniteSet(log')
             /\ tasks' = Append(tasks, NewTask(read))
<1>1. PICK R \in Cuts \ {{}} :
        /\ log' = (log \ R) \cup {Mark(r) : r \in R}
        /\ tasks' = Append(tasks, NewTask({Mark(r) : r \in R}))
  BY DEF Ingest, Mark
<1> DEFINE read == {Mark(r) : r \in R}
<1>2. R \in SUBSET log /\ IsFiniteSet(log) /\ log \in SUBSET Row
  BY DEF Cuts, Basic, LogFits, Fits
<1>3. read \in SUBSET Row
  BY <1>2, MarkIs
<1>4. IsFiniteSet(R) /\ IsFiniteSet(log \ R)
  BY <1>2, FS_Subset
<1>5. IsFiniteSet(read)
  <2> DEFINE f == [r \in R |-> Mark(r)]
  <2>1. f \in Surjection(R, read)
    BY DEF Surjection
  <2> HIDE DEF read, f
  <2> QED BY <1>4, <2>1, FS_Surjection
<1>6. IsFiniteSet(log')
  <2> HIDE DEF read
  <2> QED BY <1>1, <1>4, <1>5, FS_Union DEF read
<1> QED BY <1>1, <1>2, <1>3, <1>5, <1>6

\* An ingest keeps the shape of the state: what it reads is younger than what the
\* tasks in the pipeline have read, and no row is left in the log that should have
\* gone with it.
LEMMA IngestBasic ==
    ASSUME Ordered, Basic, Ingest
    PROVE  Basic'
<1>1. PICK R \in Cuts : \E read \in SUBSET Row :
             /\ R \in SUBSET log /\ R # {}
             /\ read = {Mark(r) : r \in R} /\ IsFiniteSet(read)
             /\ log' = (log \ R) \cup read /\ IsFiniteSet(log')
             /\ tasks' = Append(tasks, NewTask(read))
  BY IngestIs
<1>2. PICK read \in SUBSET Row :
             /\ R \in SUBSET log
             /\ read = {Mark(r) : r \in R} /\ IsFiniteSet(read)
             /\ log' = (log \ R) \cup read /\ IsFiniteSet(log')
             /\ tasks' = Append(tasks, NewTask(read))
  BY <1>1
<1>3. /\ Len(tasks) < MaxTasks /\ \A j \in DOMAIN tasks : Stage[tasks[j].phase] > QuietStage
      /\ UNCHANGED <<ents, rels, dropped, used, rows, iMap, oMap, alloc, rc, out, lost>>
  BY DEF Ingest, catalogVars, mapVars, engineVars
<1> DEFINE last == Len(tasks) + 1
           new == NewTask(read)
<1>4. /\ tasks' \in Seq(Task) /\ Len(tasks') = Len(tasks) + 1
      /\ DOMAIN tasks' = DOMAIN tasks \cup {last} /\ last \notin DOMAIN tasks
      /\ \A j \in DOMAIN tasks : tasks'[j] = tasks[j] /\ j < last
      /\ tasks'[last] = new
  BY <1>2, IngestAppends DEF Basic, Types
<1>5. \A r \in log : /\ r \in Row /\ r.id \in Nat /\ Mark(r) \in Row /\ Mark(r).id = r.id
                     /\ Mark(r).op = r.op /\ Mark(r).edge = r.edge /\ Mark(r).due = TRUE
                     /\ (AtOnce(Mark(r)) <=> AtOnce(r))
  BY MarkIs DEF Basic, LogFits, Fits

\* Every row comes from one that was in the log.
<1>6. \A q \in log' : \E r \in log : /\ q.id = r.id /\ q.edge = r.edge /\ q \in Row
                                     /\ (AtOnce(q) <=> AtOnce(r))
                                     /\ q = IF r \in R THEN Mark(r) ELSE r
  <2> SUFFICES ASSUME NEW q \in log'
               PROVE  \E r \in log : /\ q.id = r.id /\ q.edge = r.edge /\ q \in Row
                                     /\ (AtOnce(q) <=> AtOnce(r))
                                     /\ q = IF r \in R THEN Mark(r) ELSE r
    OBVIOUS
  <2>1. CASE q \in log \ R
    BY <1>5, <2>1
  <2>2. CASE q \in read
    BY <1>2, <1>5, <2>2
  <2> QED BY <1>2, <2>1, <2>2
<1>7. \A r, q \in log : r.id = q.id => r = q
  BY DEF Basic, LogFits
<1>8. \A q \in log' : Fits(q, rows, used)
  BY <1>6 DEF Basic, LogFits, Fits
<1>9. \A q, p \in log' : q.id = p.id => q = p
  BY <1>6, <1>7
<1>10. \A q \in read : q \in log' /\ q.due
  BY <1>2, <1>5
<1>11. LogFits'
  BY <1>2, <1>3, <1>8, <1>9 DEF LogFits
<1>12. Types'
  <2>1. Len(tasks') <= MaxTasks
    BY <1>3, <1>4, TaskTypes, PipelineOK DEF Basic, Types
  <2> HIDE DEF last, new
  <2> QED BY <1>3, <1>4, <2>1 DEF Basic, Types
<1>13. /\ new.rows = read /\ new.fresh = {} /\ new.hit = {} /\ new.lists = {} /\ new.dead = {}
       /\ new.phase = "store"
  BY DEF NewTask
<1>14. TaskFits(new, rows, used)
  <2>1. IsFiniteSet({})
    BY FS_EmptySet
  <2> HIDE DEF new
  <2> QED BY <1>2, <1>8, <1>9, <1>10, <1>13, <2>1 DEF TaskFits
<1>15. ReadFrom(new, log')
  <2>1. ASSUME NEW r \in read, NEW q \in log', AtOnce(q) \/ DropsInOrder, q \notin read
        PROVE  r.id < q.id
    <3>1. PICK r0 \in R : r = Mark(r0)
      BY <1>2
    <3>2. q \in log \ R
      BY <1>2, <2>1
    <3>3. r0 \in log /\ r.id = r0.id /\ r0.id \in Nat /\ q.id \in Nat /\ q.id # r0.id
      BY <1>2, <1>5, <1>7, <3>1, <3>2
    <3>4. ~ (q.id < r0.id)
      BY <2>1, <3>2 DEF Cuts
    <3> QED BY <3>3, <3>4
  <2> HIDE DEF new
  <2> QED BY <1>10, <1>13, <2>1 DEF ReadFrom, Unread

\* The tasks that were there are past stage 2.
<1>16. ASSUME NEW j \in DOMAIN tasks
       PROVE  /\ tasks[j].phase \notin Unread /\ QuietStage # 6
              /\ \A r \in tasks[j].rows, q \in log' : r.id # q.id
              /\ ReadFrom(tasks[j], log')
  <2>1. Stage[tasks[j].phase] > QuietStage /\ tasks[j].phase \in Phases /\ QuietStage \in 2..6
    BY <1>3, TaskTypes DEF Basic, Types, Ordered
  <2>2. tasks[j].phase \notin Unread /\ QuietStage # 6
    BY <2>1 DEF Stage, Unread, Phases
  <2>3. ReadFrom(tasks[j], log)
    BY DEF Basic, TasksFit
  <2>4. \A r \in tasks[j].rows, q \in log' : r.id # q.id
    BY <1>6, <2>2, <2>3 DEF ReadFrom
  <2>5. ASSUME NEW r \in tasks[j].rows, NEW q \in log', AtOnce(q) \/ DropsInOrder
        PROVE  r.id < q.id
    <3>1. PICK p \in log : q.id = p.id /\ (AtOnce(q) <=> AtOnce(p))
      BY <1>6
    <3>2. p \in tasks[j].rows \/ r.id < p.id
      BY <2>3, <2>5, <3>1 DEF ReadFrom
    <3>3. p \notin tasks[j].rows
      BY <2>2, <2>3 DEF ReadFrom
    <3> QED BY <3>1, <3>2, <3>3
  <2> QED BY <2>2, <2>4, <2>5 DEF ReadFrom
<1>17. ASSUME NEW j \in DOMAIN tasks
       PROVE  Before(tasks[j], new)
  <2>1. DropsInOrder
    BY <1>16 DEF Ordered, InOrder
  <2>2. ASSUME NEW r \in tasks[j].rows, NEW q \in read PROVE r.id < q.id
    <3>1. q \in log' /\ r.id # q.id /\ ReadFrom(tasks[j], log')
      BY <1>10, <1>16
    <3>2. q \notin tasks[j].rows
      BY <1>16, <3>1
    <3> QED BY <2>1, <3>1, <3>2 DEF ReadFrom
  <2> HIDE DEF new
  <2> QED BY <1>13, <2>2 DEF Before
<1>18. TasksFit'
  <2> HIDE DEF new
  <2>1. QuietStage = 6 => Len(tasks') <= 1
    <3>1. QuietStage = 6 => DOMAIN tasks = {}
      BY <1>16
    <3>2. DOMAIN tasks = 1..Len(tasks) /\ Len(tasks) \in Nat
      BY TaskTypes DEF Basic, Types
    <3> QED BY <1>4, <3>1, <3>2
  <2>2. \A j \in DOMAIN tasks' : TaskFits(tasks'[j], rows, used) /\ ReadFrom(tasks'[j], log')
    <3>1. \A j \in DOMAIN tasks : TaskFits(tasks[j], rows, used)
      BY DEF Basic, TasksFit
    <3> QED BY <1>4, <1>14, <1>15, <1>16, <3>1
  <2>3. ASSUME NEW j \in DOMAIN tasks', NEW k \in DOMAIN tasks', j < k
        PROVE  Before(tasks'[j], tasks'[k])
    <3>1. CASE k = last
      <4>1. j \in DOMAIN tasks
        BY <1>4, <2>3, <3>1, TaskTypes DEF Basic, Types
      <4> QED BY <1>4, <1>17, <3>1, <4>1
    <3>2. CASE k \in DOMAIN tasks
      <4>1. j \in DOMAIN tasks
        <5>1. DOMAIN tasks = 1..Len(tasks) /\ Len(tasks) \in Nat
          BY TaskTypes DEF Basic, Types
        <5> QED BY <1>4, <2>3, <3>2, <5>1
      <4> QED BY <1>4, <2>3, <3>2, <4>1 DEF Basic, TasksFit
    <3> QED BY <1>4, <3>1, <3>2
  <2> QED BY <1>3, <2>1, <2>2, <2>3 DEF TasksFit
<1> QED BY <1>11, <1>12, <1>18 DEF Basic

\* What clients reach was created.
LEMMA LiveFits ==
    ASSUME Types
    PROVE  Live \subseteq used \cup {Root}
<1>1. Closed(used \cup {Root}, rels) /\ used \cup {Root} \in SUBSET Vertices
  BY ClosedIs, PipelineOK DEF Types, Spans
<1> QED BY <1>1, ReachIsLeast DEF Live, Reach

\* What a client writes.
Written(op, e) == [id |-> rows + 1, op |-> op, edge |-> e, due |-> FALSE]

\* What all operations of clients have in common: one row, younger than the others.
LEMMA ClientIs ==
    ASSUME NEW e, Refer(e) \/ DropRel(e) \/ DropRoot(e)
    PROVE  /\ rows < MaxRows /\ rows' = rows + 1
           /\ UNCHANGED <<iMap, oMap, alloc, rc, out, tasks, lost>>
           /\ \E op \in {"add", "drop"} : log' = log \cup {Written(op, e)}
           /\ used' = used \/ (Refer(e) /\ used' = used \cup {e[2]})
           /\ ents' = ents \/ (Refer(e) /\ ents' = ents \cup {e[2]})
BY DEF Refer, DropRel, DropRoot, Write, Written, mapVars, engineVars

\* Clients keep the shape of the state.
LEMMA ClientBasic ==
    ASSUME Basic, NEW e \in Schema, Refer(e) \/ DropRel(e) \/ DropRoot(e)
    PROVE  Basic'
<1>1. /\ rows < MaxRows /\ rows' = rows + 1
      /\ UNCHANGED <<iMap, oMap, alloc, rc, out, tasks, lost>>
  BY ClientIs
<1>2. PICK op \in {"add", "drop"} : log' = log \cup {Written(op, e)}
  BY ClientIs
<1>3. rows \in Nat /\ rows + 1 \in Nat /\ rows <= rows + 1 /\ rows + 1 \in 1..MaxRows /\ rows' \in 0..MaxRows
  BY <1>1, PipelineOK DEF Basic, Types
<1>4. e \in Edges /\ e[1] \in Vertices /\ e[2] \in Vertices \ {Root}
  BY PipelineOK DEF Edges
<1>5. Live \subseteq used \cup {Root}
  BY LiveFits DEF Basic
<1>6. /\ used \subseteq used' /\ used' \subseteq Vertices \ {Root} /\ ents' \subseteq used'
      /\ Spans(e, used') /\ rels' \cup dropped' \subseteq rels \cup dropped \cup {e}
  <2>1. CASE Refer(e)
    <3>1. /\ used' = used \cup {e[2]} /\ ents' = ents \cup {e[2]} /\ e[1] \in Live
          /\ rels' = rels \cup {e} /\ dropped' = dropped
      BY <2>1 DEF Refer
    <3> QED BY <1>4, <1>5, <3>1 DEF Basic, Types, Spans
  <2>2. CASE DropRel(e)
    <3>1. /\ used' = used /\ ents' = ents /\ e \in rels
          /\ rels' = rels \ {e} /\ dropped' = dropped \cup {e}
      BY <2>2 DEF DropRel
    <3> QED BY <1>4, <3>1 DEF Basic, Types, Spans
  <2>3. CASE DropRoot(e)
    <3>1. /\ used' = used /\ ents' = ents /\ e[1] = Root /\ e[2] \in ents
          /\ rels' = rels \ {e} /\ dropped' = dropped
      BY <2>3 DEF DropRoot
    <3> QED BY <1>4, <3>1 DEF Basic, Types, Spans
  <2> QED BY <2>1, <2>2, <2>3
<1>7. Types'
  <2>1. \A f \in rels' \cup dropped' : Spans(f, used')
    BY <1>6 DEF Basic, Types, Spans
  <2>2. DOMAIN iMap \subseteq used' \cup {Root}
    BY <1>6 DEF Basic, Types
  <2> QED BY <1>1, <1>3, <1>6, <2>1, <2>2 DEF Basic, Types
<1> DEFINE new == Written(op, e)
<1>8. new \in Row /\ new.id = rows + 1 /\ new.edge = e
  BY <1>3, <1>4 DEF Written, Row
<1> HIDE DEF new
<1>9. log' = log \cup {new}
  BY <1>2 DEF new
<1>10. \A r \in log : Fits(r, rows, used) /\ r.id \in Nat /\ r.id <= rows
  BY MarkIs DEF Basic, LogFits, Fits
<1>11. LogFits'
  <2>1. IsFiniteSet(log')
    BY <1>9, FS_AddElement DEF Basic, LogFits
  <2>2. \A r \in log' : Fits(r, rows', used')
    <3>1. \A r \in log : Fits(r, rows', used')
      BY <1>1, <1>3, <1>6, <1>10 DEF Fits, Spans
    <3>2. Fits(new, rows', used')
      BY <1>1, <1>3, <1>6, <1>8 DEF Fits
    <3> QED BY <1>9, <3>1, <3>2
  <2>3. \A r \in log : r.id # new.id
    BY <1>3, <1>8, <1>10
  <2>4. \A r, q \in log' : r.id = q.id => r = q
    BY <1>9, <2>3 DEF Basic, LogFits
  <2> QED BY <2>1, <2>2, <2>4 DEF LogFits
<1>12. TasksFit'
  <2>1. ASSUME NEW j \in DOMAIN tasks
        PROVE  TaskFits(tasks[j], rows', used') /\ ReadFrom(tasks[j], log')
    <3>1. TaskFits(tasks[j], rows, used) /\ ReadFrom(tasks[j], log)
      BY DEF Basic, TasksFit
    <3>2. TaskFits(tasks[j], rows', used')
      BY <1>1, <1>3, <1>6, <3>1, FitsGrow
    <3>3. \A r \in tasks[j].rows : r.id < new.id /\ r.id # new.id
      <4>1. \A r \in tasks[j].rows : Fits(r, rows, used) /\ r.id \in Nat
        BY <3>1, MarkIs DEF TaskFits, Fits
      <4> QED BY <1>3, <1>8, <4>1 DEF Fits
    <3>4. ReadFrom(tasks[j], log')
      BY <1>9, <3>1, <3>3 DEF ReadFrom
    <3> QED BY <3>2, <3>4
  <2> QED BY <1>1, <2>1 DEF Basic, TasksFit
<1> QED BY <1>7, <1>11, <1>12 DEF Basic

\* A step that changes nothing keeps the shape of the state.
LEMMA StutterBasic ==
    ASSUME Basic, UNCHANGED vars
    PROVE  Basic'
BY DEF Basic, Types, LogFits, TasksFit, vars, catalogVars, mapVars, engineVars

\* The initial state has the shape of a state.
LEMMA InitBasic == Init => Basic
<1> SUFFICES ASSUME Init PROVE Basic
  OBVIOUS
<1>1. Types
  <2>1. Nowhere \in [Slots -> Nat] /\ Nowhere \in [Slots -> Int]
    BY DEF Nowhere
  <2>2. rc \in [Slots -> Int] /\ out \in [Slots -> [Slots -> Nat]]
    BY <2>1 DEF Init
  <2>3. tasks \in Seq(Task) /\ Len(tasks) <= MaxTasks /\ rows \in 0..MaxRows
    <3>1. tasks = <<>> /\ Len(tasks) = 0 /\ rows = 0
      BY DEF Init
    <3> QED BY <3>1, PipelineOK
  <2>4. /\ iMap = [v \in {Root} |-> RootSlot] /\ oMap = [s \in {RootSlot} |-> Root]
        /\ alloc = {RootSlot}
    BY DEF Init
  <2>5. /\ DOMAIN iMap \subseteq used \cup {Root} /\ DOMAIN oMap \subseteq Slots
        /\ \A v \in DOMAIN iMap : iMap[v] \in Slots
        /\ \A s \in DOMAIN oMap : oMap[s] \in Vertices
        /\ alloc \subseteq Slots
    BY <2>4, PipelineOK
  <2> QED BY <2>2, <2>3, <2>5 DEF Init, Types
<1>2. LogFits
  BY FS_EmptySet DEF Init, LogFits
<1>3. TasksFit
  BY DEF Init, TasksFit
<1> QED BY <1>1, <1>2, <1>3 DEF Basic

\* The stages keep the shape of the state.
LEMMA StagesBasic ==
    ASSUME Basic, NEW i, Stages(i)
    PROVE  Basic'
BY StoreBasic, ClearBasic, MapsBasic, AddsBasic, DeletesBasic, StartBasic, CascadeBasic,
   CommitBasic, PostBasic DEF Stages

\* Every step keeps the shape of the state, whatever fails.
LEMMA NextBasic ==
    ASSUME Ordered, Basic, [Next]_vars
    PROVE  Basic'
<1>1. CASE Client
  BY <1>1, ClientBasic DEF Client
<1>2. CASE Ingest
  BY <1>2, IngestBasic
<1>3. CASE \E i \in 1..MaxTasks : Stages(i) \/ Fail(i)
  BY <1>3, StagesBasic, FailBasic
<1>4. CASE UNCHANGED vars
  BY <1>4, StutterBasic
<1> QED BY <1>1, <1>2, <1>3, <1>4 DEF Next

-----------------------------------------------------------------------------
(* The history of a state.                                                  *)

\* Slots in use stand for vertices of their own, which nobody took.
LEMMA NamesIs ==
    ASSUME Basic, MapsInv
    PROVE  /\ \A s \in alloc : /\ s \in Slots /\ s \in DOMAIN oMap
                               /\ oMap[s] \in used \cup {Root} /\ oMap[s] \in Vertices
                               /\ oMap[s] \in DOMAIN iMap /\ iMap[oMap[s]] = s
                               /\ oMap[s] \notin Dead
           /\ Dead \subseteq used \cup {Root} /\ Dead \subseteq DOMAIN iMap
<1>1. \A s \in alloc : /\ s \in Slots /\ s \in DOMAIN oMap
                       /\ oMap[s] \in used \cup {Root} /\ oMap[s] \in Vertices
                       /\ oMap[s] \in DOMAIN iMap /\ iMap[oMap[s]] = s
  BY DEF Basic, Types, MapsInv, MapsAgree
<1>2. \A s \in alloc : oMap[s] \notin Dead
  BY DEF MapsInv, DeadInv, DeadHaveNoSlot, Dead
<1>3. Dead \subseteq DOMAIN iMap
  BY DEF MapsInv, DeadInv, DeadHaveEntries, Dead
<1> QED BY <1>1, <1>2, <1>3 DEF Basic, Types

\* Which references the engine holds.
LEMMA HeldIs ==
    ASSUME NEW names, NEW slots, NEW edges
    PROVE  \A e : e \in Held(names, slots, edges) <=>
                    \E s, t \in slots : edges[s][t] > 0 /\ e = <<names[s], names[t]>>
<1> SUFFICES ASSUME NEW e
             PROVE  e \in Held(names, slots, edges) <=>
                      \E s, t \in slots : edges[s][t] > 0 /\ e = <<names[s], names[t]>>
  OBVIOUS
<1>1. ASSUME NEW s \in slots, NEW t \in slots, edges[s][t] > 0, e = <<names[s], names[t]>>
      PROVE  e \in Held(names, slots, edges)
  <2> DEFINE p == <<s, t>>
  <2>1. p \in slots \X slots /\ p[1] = s /\ p[2] = t
    OBVIOUS
  <2> HIDE DEF p
  <2> QED BY <1>1, <2>1 DEF Held
<1> QED BY <1>1 DEF Held

\* A reference the engine holds is an entry of an edge list.
LEMMA KeptIs ==
    ASSUME Basic, MapsInv, EngOut
    PROVE  /\ Kept \in SUBSET Schema
           /\ \A s, t \in alloc : <<oMap[s], oMap[t]>> \in Kept <=> out[s][t] > 0
           /\ \A e \in Kept : \E s, t \in alloc : out[s][t] > 0 /\ e = <<oMap[s], oMap[t]>>
<1>1. \A e : e \in Kept <=> \E s, t \in alloc : out[s][t] > 0 /\ e = <<oMap[s], oMap[t]>>
  BY HeldIs DEF Kept
<1>2. \A s \in alloc : s \in Slots /\ iMap[oMap[s]] = s
  BY NamesIs
<1>3. Kept \in SUBSET Schema
  BY <1>1, <1>2 DEF EngOut
<1>4. ASSUME NEW s \in alloc, NEW t \in alloc, <<oMap[s], oMap[t]>> \in Kept
      PROVE  out[s][t] > 0
  <2>1. PICK x, y \in alloc : out[x][y] > 0 /\ <<oMap[s], oMap[t]>> = <<oMap[x], oMap[y]>>
    BY <1>1, <1>4
  <2>2. x = s /\ y = t
    BY <1>2, <2>1
  <2> QED BY <2>1, <2>2
<1> QED BY <1>1, <1>3, <1>4

\* Rows and operations.
LEMMA OpIs ==
    ASSUME NEW n, NEW us, NEW r, Fits(r, n, us)
    PROVE  /\ Op(r) \in Operation /\ r.id \in Nat /\ r.op \in {"add", "drop"} /\ r.edge \in Schema
           /\ Op(r).id = r.id /\ Op(r).op = r.op /\ Op(r).edge = r.edge
           /\ r.edge[1] \in us \cup {Root} /\ r.edge[2] \in us \cup {Root}
           /\ r.id <= n
BY MarkIs DEF Fits, Spans, Op, Operation, Row

\* What is to come: an operation for every row that is pending, and one only.
LEMMA PendingIs ==
    ASSUME Basic
    PROVE  /\ Pending \in SUBSET Operation
           /\ \A r \in PendingRows : Fits(r, rows, used) /\ Op(r) \in Pending
           /\ \A x \in Pending : \E r \in PendingRows : x = Op(r)
           /\ \A r, q \in PendingRows : r.id = q.id => r = q
<1>1. \A r \in log : Fits(r, rows, used)
  BY DEF Basic, LogFits
<1>2. \A i \in DOMAIN tasks : \A r \in Waiting(tasks[i]) :
        r \in tasks[i].rows /\ Fits(r, rows, used) /\ tasks[i].phase \notin Unread
  BY DEF Basic, TasksFit, TaskFits, Waiting, Unread
<1>3. \A r : r \in PendingRows <=> r \in log \/ \E i \in DOMAIN tasks : r \in Waiting(tasks[i])
  BY DEF PendingRows
<1>4. \A r \in PendingRows : Fits(r, rows, used)
  BY <1>1, <1>2, <1>3
<1>5. \A r \in PendingRows : Op(r) \in Operation
  BY <1>4, OpIs
<1>6. \A r, q \in PendingRows : r.id = q.id => r = q
  <2> SUFFICES ASSUME NEW r \in PendingRows, NEW q \in PendingRows, r.id = q.id
               PROVE  r = q
    OBVIOUS
  <2>1. r.id \in Nat /\ q.id \in Nat /\ ~ (r.id < q.id) /\ ~ (q.id < r.id)
    BY <1>4, OpIs
  <2>2. CASE r \in log /\ q \in log
    BY <2>2 DEF Basic, LogFits
  <2>3. ASSUME NEW x \in PendingRows, NEW y \in log, x.id = y.id, x \notin log
        PROVE  FALSE
    <3>1. PICK i \in DOMAIN tasks : x \in Waiting(tasks[i])
      BY <1>3, <2>3
    <3>2. ReadFrom(tasks[i], log) /\ x \in tasks[i].rows /\ tasks[i].phase \notin Unread
      BY <1>2, <3>1 DEF Basic, TasksFit
    <3> QED BY <2>3, <3>2 DEF ReadFrom
  <2>4. CASE r \notin log /\ q \notin log
    <3>1. PICK i \in DOMAIN tasks : r \in Waiting(tasks[i])
      BY <1>3, <2>4
    <3>2. PICK j \in DOMAIN tasks : q \in Waiting(tasks[j])
      BY <1>3, <2>4
    <3>3. r \in tasks[i].rows /\ q \in tasks[j].rows
      BY <1>2, <3>1, <3>2
    <3>4. ~ (i < j) /\ ~ (j < i)
      BY <2>1, <3>3 DEF Basic, TasksFit, Before
    <3>5. i = j
      BY <3>4, TaskTypes DEF Basic, Types
    <3> QED BY <3>3, <3>5 DEF Basic, TasksFit, TaskFits
  <2> QED BY <2>2, <2>3, <2>4
<1> QED BY <1>4, <1>5, <1>6 DEF Pending, Ops

\* All that the history names was created.
LEMMA HistoryIsWithin ==
    ASSUME Basic, MapsInv, EngOut
    PROVE  Within(used \cup {Root}, Kept, Pending, Old)
<1>1. Old \subseteq used \cup {Root}
  BY NamesIs DEF Old
<1>2. \A e \in Kept : e[1] \in used \cup {Root} /\ e[2] \in used \cup {Root}
  <2>1. \A e \in Kept : \E s, t \in alloc : e = <<oMap[s], oMap[t]>>
    BY KeptIs
  <2>2. \A s \in alloc : oMap[s] \in used \cup {Root}
    BY NamesIs
  <2> QED BY <2>1, <2>2
<1>3. \A x \in Pending : x.edge[1] \in used \cup {Root} /\ x.edge[2] \in used \cup {Root}
  BY PendingIs, OpIs
<1>4. \A e \in AddsOf(Pending) \cup DropsOf(Pending) : e[1] \in used \cup {Root} /\ e[2] \in used \cup {Root}
  BY <1>3 DEF AddsOf, DropsOf
<1> QED BY <1>1, <1>2, <1>4 DEF Within

\* Clients reach no more than the history does.
LEMMA LiveIsReached ==
    ASSUME Basic, MapsInv, Whole
    PROVE  Live \subseteq Reach(Graph(Kept, Pending))
<1> DEFINE S == Reach(Graph(Kept, Pending))
<1>1. Graph(Kept, Pending) \in SUBSET Schema
  BY KeptIs, PendingIs, GraphIs DEF Whole, EngInv
<1>2. \A e \in Graph(Kept, Pending) : e[1] \in S => e[2] \in S
  BY <1>1, ReachIsClosed
<1>3. Root \in S /\ S \in SUBSET Vertices
  BY <1>1, ReachIsClosed
<1>4. Cut(Pending, Pending)
  BY AllIsCut
<1>5. ASSUME NEW e \in rels, e[1] \in S
      PROVE  e[2] \in S
  <2>1. Backed(e, Kept, Pending) /\ e \notin DropsOf(Pending)
    BY DEF Whole, CatInv, Reflects
  <2>2. ~ CutOff(e[1], Kept, Pending)
    BY <1>4, <1>5 DEF CutOff
  <2>3. e \in Graph(Kept, Pending)
    BY <2>1, <2>2 DEF Backed, Graph
  <2> QED BY <1>2, <1>5, <2>3
<1> HIDE DEF S
<1>6. Closed(S, rels)
  BY <1>3, <1>5, ClosedIs
<1>7. Reach(rels) \subseteq S
  BY <1>3, <1>6, ReachIsLeast
<1> QED BY <1>7 DEF Live, Reach, S

\* A vertex that was referred to, and that no edge list names, is cut off.
LEMMA ForgottenIsCutOff ==
    ASSUME Basic, MapsInv, Whole, NEW t \in alloc, oMap[t] \in Old, t # RootSlot,
           \A s \in alloc : out[s][t] = 0
    PROVE  CutOff(oMap[t], Kept, Pending)
<1> DEFINE v == oMap[t]
<1>1. v # Root
  BY NamesIs DEF Whole, EngInv, EngMaps
<1>2. /\ Kept \in SUBSET Schema
      /\ \A e \in Kept : \E s, y \in alloc : out[s][y] > 0 /\ e = <<oMap[s], oMap[y]>>
  BY KeptIs DEF Whole, EngInv
<1>3. \A e \in Kept : e[2] # v
  <2> SUFFICES ASSUME NEW e \in Kept, e[2] = v PROVE FALSE
    OBVIOUS
  <2>1. PICK s, y \in alloc : out[s][y] > 0 /\ e = <<oMap[s], oMap[y]>>
    BY <1>2
  <2>2. y = t
    BY <2>1, NamesIs
  <2>3. out[s][t] = 0
    BY <2>1
  <2> QED BY <2>1, <2>2, <2>3
<1> HIDE DEF v
<1>4. v \notin Reach(Kept)
  <2> DEFINE S == Vertices \ {v}
  <2>1. Closed(S, Kept)
    <3>1. Root \in S /\ \A e \in Kept : e[2] \in S
      BY <1>1, <1>2, <1>3, PipelineOK
    <3> HIDE DEF S
    <3> QED BY <3>1, ClosedIs
  <2> QED BY <2>1, ReachIsLeast
<1>5. Graph(Kept, {}) = Kept /\ Known(Old, {}) = Old
  BY DEF Graph, Known, AddsOf, DropsOf
<1>6. ASSUME NEW d \in SUBSET Pending, Cut(d, Pending)
      PROVE  v \notin Reach(Graph(Kept, d))
  <2>1. Cut({}, Pending) /\ {} \in SUBSET Pending
    BY AllIsCut
  <2>2. Reach(Graph(Kept, d)) \cap Known(Old, {}) \subseteq Reach(Graph(Kept, {}))
    BY <1>6, <2>1 DEF Whole, HistInv, Monotone
  <2> QED BY <1>4, <1>5, <2>2 DEF v
<1> QED BY <1>6 DEF CutOff, v

-----------------------------------------------------------------------------
(* Clients and the history.                                                 *)

\* A client adds the newest operation.
LEMMA WrittenIs ==
    ASSUME Basic, NEW e \in Schema, NEW op \in {"add", "drop"},
           log' = log \cup {Written(op, e)}, tasks' = tasks
    PROVE  \E n : /\ Newest(n, Pending) /\ n.op = op /\ n.edge = e
                  /\ Pending' = Pending \cup {n}
                  /\ op = "add" => /\ AddsOf(Pending') = AddsOf(Pending) \cup {e}
                                   /\ DropsOf(Pending') = DropsOf(Pending)
                  /\ op = "drop" => /\ AddsOf(Pending') = AddsOf(Pending)
                                    /\ DropsOf(Pending') = DropsOf(Pending) \cup {e}
<1> DEFINE new == Written(op, e)
           n == Op(new)
<1>1. rows \in Nat /\ rows + 1 \in Nat
  BY PipelineOK DEF Basic, Types
<1>2. n \in Operation /\ n.id = rows + 1 /\ n.op = op /\ n.edge = e
  BY <1>1 DEF Op, Written, Operation
<1>3. \A x \in Pending : x.id < n.id
  <2>1. \A r \in PendingRows : Op(r).id \in Nat /\ Op(r).id <= rows
    BY PendingIs, OpIs
  <2> QED BY <1>1, <1>2, <2>1, PendingIs
<1> HIDE DEF n, new
<1>4. PendingRows' = PendingRows \cup {new}
  BY DEF PendingRows, new
<1>5. Pending' = Pending \cup {n}
  BY <1>4 DEF Pending, Ops, n
<1>6. op = "add" => AddsOf(Pending') = AddsOf(Pending) \cup {e} /\ DropsOf(Pending') = DropsOf(Pending)
  BY <1>2, <1>5 DEF AddsOf, DropsOf
<1>7. op = "drop" => AddsOf(Pending') = AddsOf(Pending) /\ DropsOf(Pending') = DropsOf(Pending) \cup {e}
  BY <1>2, <1>5 DEF AddsOf, DropsOf
<1> QED BY <1>2, <1>3, <1>5, <1>6, <1>7 DEF Newest

\* The engine's part of the state, which clients leave alone.
LEMMA EngineStays ==
    ASSUME UNCHANGED <<iMap, oMap, alloc, rc, out, tasks>>
    PROVE  /\ Kept' = Kept /\ Old' = Old /\ Dead' = Dead
           /\ EngInv => EngInv'
           /\ EndsFound => EndsFound'
<1>1. Hits' = Hits /\ Dead' = Dead /\ Lists' = Lists
  BY DEF Hits, Dead, Lists
<1>2. Kept' = Kept /\ Old' = Old
  BY <1>1 DEF Kept, Old
<1>3. EndsFound => EndsFound'
  BY DEF EndsFound, Added
<1>4. \A v : Current(v)' = Current(v)
  BY DEF Current
<1>5. \A t : Column(t)' = Column(t)
  BY DEF Column
<1>6. EngInv => EngInv'
  BY <1>1, <1>4, <1>5 DEF EngInv, EngMaps, EngOut, EngLists, EngHits, EngCounts
<1> QED BY <1>1, <1>2, <1>3, <1>6

\* A client that adds a reference keeps the history: it refers from what is
\* reachable, to what is reachable or new.
LEMMA ReferWhole ==
    ASSUME Basic, MapsInv, Whole, NEW e \in Schema, Refer(e)
    PROVE  Whole'
<1>1. /\ e \notin rels \cup dropped /\ e[1] \in Live
      /\ (e[2] \in Live /\ e[1] # Root) \/ e[2] \notin used
      /\ log' = log \cup {Written("add", e)}
      /\ ents' = ents \cup {e[2]} /\ used' = used \cup {e[2]} /\ rels' = rels \cup {e}
      /\ dropped' = dropped /\ UNCHANGED <<iMap, oMap, alloc, rc, out, tasks>>
  BY DEF Refer, Write, Written, mapVars, engineVars
<1> DEFINE K == Kept
           U == Pending
           O == Old
           W == used \cup {Root}
<1>2. PICK n : /\ Newest(n, U) /\ n.op = "add" /\ n.edge = e /\ Pending' = U \cup {n}
               /\ AddsOf(Pending') = AddsOf(U) \cup {e} /\ DropsOf(Pending') = DropsOf(U)
  BY <1>1, WrittenIs
<1>3. /\ K \in SUBSET Schema /\ U \in SUBSET Operation /\ Within(W, K, U, O)
      /\ Live \subseteq Reach(Graph(K, U)) /\ e[2] # Root
  BY KeptIs, PendingIs, HistoryIsWithin, LiveIsReached, PipelineOK DEF Whole, EngInv
<1>4. Kept' = K /\ Old' = O /\ Dead' = Dead /\ EngInv'
  BY <1>1, EngineStays DEF Whole
<1>5. /\ Monotone(K, U, O) /\ Sourced(K, U, InOrder) /\ Unique(K, U)
      /\ Reflects(rels, rels \cup dropped, (used \ ents) \cup Dead, K, U)
  BY DEF Whole, HistInv, CatInv
<1>6. \A v \in Live : ~ CutOff(v, K, U)
  BY <1>3, AllIsCut DEF CutOff
<1>7. n.edge[2] \in Reach(Graph(K, U)) \/ n.edge[2] \notin W
  BY <1>1, <1>2, <1>3

\* Nothing in the history made or dropped this reference.
<1>8. e \notin K \cup AddsOf(U) \cup DropsOf(U)
  <2> SUFFICES ASSUME e \in K \cup AddsOf(U) \cup DropsOf(U) PROVE FALSE
    OBVIOUS
  <2>1. e[2] \in W
    BY <1>3 DEF Within
  <2>2. e[1] # Root /\ e[2] \in Live
    BY <1>1, <1>3, <2>1
  <2>3. OnFile(e, rels \cup dropped, K, U)
    BY <1>5, <2>2 DEF Reflects
  <2> QED BY <1>1, <1>6, <2>2, <2>3 DEF OnFile
<1>9. Monotone(K, U \cup {n}, O)
  BY <1>2, <1>3, <1>5, <1>7, NewAddMonotone
<1>10. Sourced(K, U \cup {n}, InOrder)
  <2>1. SourcedBy(n, K, U, InOrder)
    BY <1>1, <1>2, <1>3 DEF SourcedBy
  <2> QED BY <1>2, <1>3, <1>5, <2>1, NewSourced
<1>11. Unique(K, U \cup {n})
  BY <1>2, <1>3, <1>5, <1>8, NewUnique
<1>12. \A v \in W : CutOff(v, K, U) => CutOff(v, K, U \cup {n})
  BY <1>2, <1>3, <1>7, NewAddCutOff
<1>13. \A f \in rels \cup K \cup AddsOf(U) \cup DropsOf(U) : f[1] \in W /\ f[2] \in W
  BY <1>3 DEF Within, Basic, Types, Spans
<1>14. \A v \in (used \ ents) \cup Dead : v \in W
  BY NamesIs
<1> DEFINE V == U \cup {n}
           F == rels' \cup dropped'
<1>15. AddsOf(V) = AddsOf(U) \cup {e} /\ DropsOf(V) = DropsOf(U)
  BY <1>2
<1> HIDE DEF K, U, O, W, V
<1>16. Reflects(rels', F, (used' \ ents') \cup Dead, K, V)
  <2>1. rels' \cap DropsOf(V) = {}
    BY <1>1, <1>5, <1>8, <1>15 DEF Reflects
  <2>2. \A f \in rels : Backed(f, K, V)
    BY <1>5, <1>12, <1>13, <1>15 DEF Reflects, Backed, V
  <2>3. Backed(e, K, V)
    BY <1>15 DEF Backed
  <2>4. \A f \in DropsOf(V) : f[1] # Root => Backed(f, K, V)
    BY <1>5, <1>12, <1>13, <1>15 DEF Reflects, Backed, V
  <2>5. ASSUME NEW f \in K \cup AddsOf(V) \cup DropsOf(V), f[1] # Root
        PROVE  OnFile(f, F, K, V)
    <3>1. CASE f = e
      BY <1>1, <3>1 DEF OnFile
    <3>2. CASE f # e
      <4>1. f \in K \cup AddsOf(U) \cup DropsOf(U)
        BY <1>15, <3>2
      <4>2. OnFile(f, rels \cup dropped, K, U)
        BY <1>5, <2>5, <4>1 DEF Reflects
      <4> QED BY <1>1, <1>12, <1>13, <4>1, <4>2 DEF OnFile, V
    <3> QED BY <3>1, <3>2
  <2>6. \A v \in (used' \ ents') \cup Dead : CutOff(v, K, V)
    BY <1>1, <1>5, <1>12, <1>14 DEF Reflects, V
  <2> HIDE DEF F
  <2> QED BY <1>1, <2>1, <2>2, <2>3, <2>4, <2>5, <2>6 DEF Reflects
<1>17. CatInv'
  BY <1>2, <1>4, <1>16 DEF CatInv, V, K, U
<1>18. HistInv'
  BY <1>2, <1>4, <1>9, <1>10, <1>11 DEF HistInv, K, U, O
<1> QED BY <1>4, <1>17, <1>18 DEF Whole

\* A reference that is in force, or one of the root's, is dropped.
LEMMA DropWhole ==
    ASSUME Basic, MapsInv, Whole, NEW e \in Schema, DropRel(e) \/ DropRoot(e)
    PROVE  Whole'
<1>1. /\ log' = log \cup {Written("drop", e)}
      /\ ents' = ents /\ used' = used /\ rels' = rels \ {e}
      /\ rels \cup dropped \subseteq rels' \cup dropped' \cup {e}
      /\ dropped \subseteq dropped'
      /\ UNCHANGED <<iMap, oMap, alloc, rc, out, tasks>>
      /\ e[1] = Root \/ (e \in rels /\ e \in dropped')
      /\ InOrder => e \in rels /\ e[1] \in Live \cup {Root}
  BY DEF DropRel, DropRoot, Write, Written, mapVars, engineVars, InOrder
<1> DEFINE K == Kept
           U == Pending
           O == Old
<1>2. PICK n : /\ Newest(n, U) /\ n.op = "drop" /\ n.edge = e /\ Pending' = U \cup {n}
               /\ AddsOf(Pending') = AddsOf(U) /\ DropsOf(Pending') = DropsOf(U) \cup {e}
  BY <1>1, WrittenIs
<1>3. /\ K \in SUBSET Schema /\ U \in SUBSET Operation
      /\ Live \subseteq Reach(Graph(K, U))
  BY KeptIs, PendingIs, LiveIsReached DEF Whole, EngInv
<1>4. Kept' = K /\ Old' = O /\ Dead' = Dead /\ EngInv'
  BY <1>1, EngineStays DEF Whole
<1>5. /\ Monotone(K, U, O) /\ Sourced(K, U, InOrder) /\ Unique(K, U)
      /\ Reflects(rels, rels \cup dropped, (used \ ents) \cup Dead, K, U)
  BY DEF Whole, HistInv, CatInv
<1>6. Monotone(K, U \cup {n}, O)
  BY <1>2, <1>3, <1>5, NewDropMonotone
<1>7. Sourced(K, U \cup {n}, InOrder)
  <2>1. rels \in SUBSET Schema
    BY DEF Basic, Types, Spans
  <2>2. InOrder => e[1] \in Live /\ e[2] \in Live
    BY <1>1, <2>1, ReachIsClosed DEF Live, Reach
  <2>3. SourcedBy(n, K, U, InOrder)
    BY <1>2, <1>3, <2>2 DEF SourcedBy
  <2> QED BY <1>2, <1>3, <1>5, <2>3, NewSourced
<1>8. Unique(K, U \cup {n})
  <2>1. e[1] # Root => e \notin DropsOf(U)
    BY <1>1, <1>5 DEF Reflects
  <2> QED BY <1>2, <1>3, <1>5, <2>1, NewUnique
<1>9. \A v : CutOff(v, K, U) => CutOff(v, K, U \cup {n})
  BY <1>2, <1>3, NewDropCutOff
<1> DEFINE V == U \cup {n}
           F == rels' \cup dropped'
<1>10. AddsOf(V) = AddsOf(U) /\ DropsOf(V) = DropsOf(U) \cup {e}
  BY <1>2
<1> HIDE DEF K, U, O, V
<1>11. Reflects(rels', F, (used' \ ents') \cup Dead, K, V)
  <2>1. rels' \cap DropsOf(V) = {}
    BY <1>1, <1>5, <1>10 DEF Reflects
  <2>2. \A f \in rels : Backed(f, K, V)
    BY <1>5, <1>9, <1>10 DEF Reflects, Backed, V
  <2>3. \A f \in DropsOf(V) : f[1] # Root => Backed(f, K, V)
    <3>1. \A f \in DropsOf(U) : f[1] # Root => Backed(f, K, V)
      BY <1>5, <1>9, <1>10 DEF Reflects, Backed, V
    <3> QED BY <1>1, <1>10, <2>2, <3>1
  <2>4. ASSUME NEW f \in K \cup AddsOf(V) \cup DropsOf(V), f[1] # Root
        PROVE  OnFile(f, F, K, V)
    <3>1. CASE f = e
      BY <1>1, <2>4, <3>1 DEF OnFile
    <3>2. CASE f # e
      <4>1. f \in K \cup AddsOf(U) \cup DropsOf(U)
        BY <1>10, <3>2
      <4>2. OnFile(f, rels \cup dropped, K, U)
        BY <1>5, <2>4, <4>1 DEF Reflects
      <4> QED BY <1>1, <1>9, <3>2, <4>2 DEF OnFile, V
    <3> QED BY <3>1, <3>2
  <2>5. \A v \in (used' \ ents') \cup Dead : CutOff(v, K, V)
    BY <1>1, <1>5, <1>9 DEF Reflects, V
  <2> HIDE DEF F
  <2> QED BY <1>1, <2>1, <2>2, <2>3, <2>4, <2>5 DEF Reflects
<1>12. CatInv'
  BY <1>2, <1>4, <1>11 DEF CatInv, V, K, U
<1>13. HistInv'
  BY <1>2, <1>4, <1>6, <1>7, <1>8 DEF HistInv, K, U, O
<1> QED BY <1>4, <1>12, <1>13 DEF Whole

-----------------------------------------------------------------------------
(* Steps that leave the history as it is.                                   *)

\* Knowing fewer vertices asks for less.
LEMMA FewerKnown ==
    ASSUME NEW K, NEW U, NEW O, NEW P \in SUBSET O, Monotone(K, U, O)
    PROVE  Monotone(K, U, P)
<1>1. \A c : Known(P, c) \subseteq Known(O, c)
  BY DEF Known
<1> QED BY <1>1 DEF Monotone

\* A step that leaves what is held and what is pending alone keeps the history.
LEMMA SameHistory ==
    ASSUME HistInv, Kept' = Kept, Pending' = Pending, Old' \subseteq Old
    PROVE  HistInv'
<1>1. Monotone(Kept, Pending, Old')
  BY FewerKnown DEF HistInv
<1> QED BY <1>1 DEF HistInv

\* What the catalog loses is cut off.
LEMMA SameCatalog ==
    ASSUME CatInv, Kept' = Kept, Pending' = Pending, Dead' \subseteq Dead, used' = used,
           rels' \subseteq rels, \A v \in ents : v \in ents' \/ v \in Dead,
           \A e \in rels \cup dropped :
             e[1] = Root \/ e \in rels' \cup dropped' \/ e[1] \in Dead \/ e[2] \in Dead
    PROVE  CatInv'
<1> DEFINE K == Kept
           U == Pending
           F == rels' \cup dropped'
           E == rels \cup dropped
<1>1. Reflects(rels, E, (used \ ents) \cup Dead, K, U)
  BY DEF CatInv
<1>2. \A v \in Dead : CutOff(v, K, U)
  BY <1>1 DEF Reflects
<1> HIDE DEF K, U
<1>3. Reflects(rels', F, (used' \ ents') \cup Dead', K, U)
  <2>1. rels' \cap DropsOf(U) = {} /\ \A e \in rels' : Backed(e, K, U)
    BY <1>1 DEF Reflects
  <2>2. \A e \in DropsOf(U) : e[1] # Root => Backed(e, K, U)
    BY <1>1 DEF Reflects
  <2>3. \A e \in E : e[1] # Root => e \in F \/ e[1] \in Dead \/ e[2] \in Dead
    OBVIOUS
  <2> HIDE DEF E, F
  <2>4. \A e \in K \cup AddsOf(U) \cup DropsOf(U) : e[1] # Root => OnFile(e, F, K, U)
    BY <1>1, <1>2, <2>3 DEF Reflects, OnFile
  <2>5. \A v \in (used' \ ents') \cup Dead' : CutOff(v, K, U)
    BY <1>1, <1>2 DEF Reflects
  <2> QED BY <2>1, <2>2, <2>4, <2>5 DEF Reflects
<1> QED BY <1>3 DEF CatInv, K, U

\* A task goes on with what it took, and is not about to start execRC before or after.
LEMMA MoveSets ==
    ASSUME NEW i, NEW p, NEW f, NEW h, Becomes(i, p, f, h, tasks[i].lists, tasks[i].dead),
           tasks[i].phase # "init", p # "init"
    PROVE  /\ Dead' = Dead /\ Lists' = Lists /\ Hits' = Hits
           /\ \A j \in DOMAIN tasks : /\ HitBy(tasks'[j]) = HitBy(tasks[j])
                                      /\ tasks'[j].dead = tasks[j].dead
                                      /\ tasks'[j].lists = tasks[j].lists
<1>1. DOMAIN tasks' = DOMAIN tasks /\ i \in DOMAIN tasks
  BY DEF Becomes
<1>2. \A j \in DOMAIN tasks : /\ HitBy(tasks'[j]) = HitBy(tasks[j])
                              /\ tasks'[j].dead = tasks[j].dead
                              /\ tasks'[j].lists = tasks[j].lists
  BY DEF Becomes, HitBy
<1> QED BY <1>1, <1>2 DEF Dead, Lists, Hits

\* A task that changes its phase only may leave what is pending as it is.
LEMMA MovePending ==
    ASSUME NEW i, NEW p, NEW f, NEW h, NEW l, NEW d, Becomes(i, p, f, h, l, d), log' = log,
           \/ p = "adds" /\ tasks[i].phase = "maps"
           \/ {p, tasks[i].phase} \cap {"maps", "adds", "deletes"} = {}
    PROVE  PendingRows' = PendingRows /\ Pending' = Pending
<1>1. \A j \in DOMAIN tasks : Waiting(tasks'[j]) = Waiting(tasks[j])
  BY DEF Becomes, Waiting
<1>2. PendingRows' = PendingRows
  BY <1>1 DEF PendingRows, Becomes
<1> QED BY <1>2 DEF Pending

\* The ends of the references a task adds are found as it moves on.
LEMMA MoveEnds ==
    ASSUME EndsFound, NEW i, NEW p, NEW f, NEW h, NEW l, NEW d, Becomes(i, p, f, h, l, d),
           DOMAIN iMap \subseteq DOMAIN iMap',
           p \in {"clear", "maps"} => Ends(Added(i)) \subseteq DOMAIN iMap \cup f,
           p = "adds" => Ends(Added(i)) \subseteq DOMAIN iMap'
    PROVE  EndsFound'
<1>1. \A j : Added(j)' = {r \in tasks'[j].rows : r.op = "add"}
  BY DEF Added
<1>2. \A j \in DOMAIN tasks : Added(j)' = Added(j)
  BY <1>1 DEF Becomes, Added
<1>3. ASSUME NEW j \in DOMAIN tasks
      PROVE  /\ tasks'[j].phase \in {"clear", "maps"} =>
                  Ends(Added(j)) \subseteq DOMAIN iMap' \cup tasks'[j].fresh
             /\ tasks'[j].phase = "adds" => Ends(Added(j)) \subseteq DOMAIN iMap'
  <2>1. CASE j = i
    <3>1. tasks'[i].phase = p /\ tasks'[i].fresh = f
      BY DEF Becomes
    <3> QED BY <2>1, <3>1
  <2>2. CASE j # i
    <3>1. tasks'[j] = tasks[j]
      BY <2>2 DEF Becomes
    <3> QED BY <3>1 DEF EndsFound
  <2> QED BY <2>1, <2>2
<1>4. DOMAIN tasks' = DOMAIN tasks
  BY DEF Becomes
<1> QED BY <1>2, <1>3, <1>4 DEF EndsFound

\* The engine is left alone, and a task goes on.
LEMMA MoveEngine ==
    ASSUME EngInv, NEW i, NEW p, NEW f, NEW h, Becomes(i, p, f, h, tasks[i].lists, tasks[i].dead),
           tasks[i].phase # "init", p # "init", UNCHANGED <<iMap, oMap, alloc, rc, out>>
    PROVE  EngInv' /\ Kept' = Kept /\ Old' = Old /\ Dead' = Dead
<1>1. /\ Dead' = Dead /\ Lists' = Lists /\ Hits' = Hits
      /\ \A j \in DOMAIN tasks : /\ HitBy(tasks'[j]) = HitBy(tasks[j])
                                 /\ tasks'[j].dead = tasks[j].dead
                                 /\ tasks'[j].lists = tasks[j].lists
  BY MoveSets
<1>2. Kept' = Kept /\ Old' = Old
  BY <1>1 DEF Kept, Old
<1>3. \A v : Current(v)' = Current(v)
  BY DEF Current
<1>4. \A t : Column(t)' = Column(t)
  BY DEF Column
<1>5. DOMAIN tasks' = DOMAIN tasks
  BY DEF Becomes
<1>6. EngMaps' /\ EngOut' /\ EngCounts'
  BY <1>1, <1>3, <1>4 DEF EngInv, EngMaps, EngOut, EngCounts
<1>7. EngLists' /\ EngHits'
  BY <1>1, <1>5 DEF EngInv, EngLists, EngHits
<1> QED BY <1>1, <1>2, <1>6, <1>7 DEF EngInv

\* updateGraphStore keeps the history, and finds the missing ends.
LEMMA StoreDeep ==
    ASSUME Basic, MapsInv, Deep, NEW i, Store(i)
    PROVE  Deep'
<1>0. Turn(i, "store") /\ UNCHANGED <<ents, rels, dropped, used, log, iMap, oMap, alloc, rc, out, lost>>
  BY DEF Store, catalogVars, mapVars, engineVars
<1>1. Fresh(i) \in SUBSET Vertices
  <2>1. Ends(Added(i)) \subseteq used \cup {Root}
    BY <1>0, Started, EndsFit
  <2> QED BY <2>1, PipelineOK DEF Fresh, Basic, Types
<1>2. Becomes(i, "clear", Fresh(i), tasks[i].hit, tasks[i].lists, tasks[i].dead)
  BY <1>0, <1>1, Started, StoreBecomes
<1>3. tasks[i].phase = "store"
  BY <1>0, Started
<1>4. Pending' = Pending
  BY <1>0, <1>2, <1>3, MovePending
<1>5. EndsFound => EndsFound'
  <2>1. Ends(Added(i)) \subseteq DOMAIN iMap \cup Fresh(i)
    BY DEF Fresh
  <2> QED BY <1>0, <1>2, <2>1, MoveEnds
<1>6. ASSUME Whole PROVE Whole'
  <2>1. EngInv' /\ Kept' = Kept /\ Old' = Old /\ Dead' = Dead
    BY <1>0, <1>2, <1>3, <1>6, MoveEngine DEF Whole
  <2>2. HistInv'
    BY <1>4, <1>6, <2>1, SameHistory DEF Whole
  <2>3. CatInv'
    BY <1>0, <1>4, <1>6, <2>1 DEF Whole, CatInv
  <2> QED BY <2>1, <2>2, <2>3 DEF Whole
<1> QED BY <1>0, <1>5, <1>6 DEF Deep

\* The rows of a task were in the log, and after stage 1 they wait in the task.
LEMMA ClearPending ==
    ASSUME Basic, NEW i, Clear(i)
    PROVE  Pending' = Pending
<1>0. /\ Turn(i, "clear") /\ Pass(i, "maps") /\ log' = log \ tasks[i].rows
  BY DEF Clear
<1>1. tasks[i].phase = "clear" /\ "maps" \in Phases
  BY <1>0, Started DEF Phases, Stage
<1>2. Becomes(i, "maps", tasks[i].fresh, tasks[i].hit, tasks[i].lists, tasks[i].dead)
  BY <1>0, <1>1, Started, PassBecomes
<1>3. tasks[i].rows \subseteq log
  BY <1>0, <1>1, Started DEF ReadFrom, Unread
<1>4. Waiting(tasks[i]) = {} /\ Waiting(tasks'[i]) = tasks[i].rows
  BY <1>1, <1>2 DEF Waiting, Becomes
<1>5. \A j \in DOMAIN tasks : j # i => tasks'[j] = tasks[j]
  BY <1>2 DEF Becomes
<1>6. DOMAIN tasks' = DOMAIN tasks /\ i \in DOMAIN tasks
  BY <1>2 DEF Becomes
<1>7. \A r : r \in PendingRows <=> r \in log \/ \E j \in DOMAIN tasks : r \in Waiting(tasks[j])
  BY DEF PendingRows
<1>8. \A r : r \in PendingRows' <=> r \in log' \/ \E j \in DOMAIN tasks : r \in Waiting(tasks'[j])
  BY <1>6 DEF PendingRows
<1>9. \A r : r \in PendingRows <=> r \in PendingRows'
  BY <1>0, <1>3, <1>4, <1>5, <1>6, <1>7, <1>8
<1>10. PendingRows' = PendingRows
  BY <1>9
<1> QED BY <1>10 DEF Pending

\* clearCatalogEdges keeps the history: the rows are pending in the task instead.
LEMMA ClearDeep ==
    ASSUME Basic, MapsInv, Deep, NEW i, Clear(i)
    PROVE  Deep'
<1>0. /\ Turn(i, "clear") /\ Pass(i, "maps") /\ log' = log \ tasks[i].rows
      /\ UNCHANGED <<ents, rels, dropped, used, iMap, oMap, alloc, rc, out, lost>>
  BY DEF Clear, catalogVars, mapVars, engineVars
<1>1. tasks[i].phase = "clear" /\ "maps" \in Phases
  BY <1>0, Started DEF Phases, Stage
<1>2. Becomes(i, "maps", tasks[i].fresh, tasks[i].hit, tasks[i].lists, tasks[i].dead)
  BY <1>0, <1>1, Started, PassBecomes
<1>3. Pending' = Pending
  BY ClearPending
<1>5. ASSUME EndsFound PROVE EndsFound'
  <2>1. Ends(Added(i)) \subseteq DOMAIN iMap \cup tasks[i].fresh
    BY <1>1, <1>2, <1>5 DEF EndsFound, Becomes
  <2> QED BY <1>0, <1>2, <1>5, <2>1, MoveEnds
<1>6. ASSUME Whole PROVE Whole'
  <2>1. EngInv' /\ Kept' = Kept /\ Old' = Old /\ Dead' = Dead
    BY <1>0, <1>1, <1>2, <1>6, MoveEngine DEF Whole
  <2>2. HistInv'
    BY <1>3, <1>6, <2>1, SameHistory DEF Whole
  <2>3. CatInv'
    BY <1>0, <1>3, <1>6, <2>1 DEF Whole, CatInv
  <2> QED BY <2>1, <2>2, <2>3 DEF Whole
<1> QED BY <1>0, <1>5, <1>6 DEF Deep

\* Stage 5 takes from the catalog what execRC took.
LEMMA CommitDeep ==
    ASSUME Basic, MapsInv, Deep, NEW i, DeleteSources(i) \/ DeleteDests(i) \/ DeleteEnts(i)
    PROVE  Deep'
<1>1. /\ UNCHANGED <<log, used, iMap, oMap, alloc, rc, out, lost>>
      /\ rels' \subseteq rels
      /\ \A v \in ents : v \in ents' \/ v \in tasks[i].dead
      /\ \A e \in rels \cup dropped :
           e[1] = Root \/ e \in rels' \cup dropped' \/ e[1] \in tasks[i].dead \/ e[2] \in tasks[i].dead
  BY DEF DeleteSources, DeleteDests, DeleteEnts, Without, mapVars, engineVars
<1>2. PICK q \in {"sources", "dests", "ents"} :
        /\ Turn(i, q)
        /\ Pass(i, IF q = "sources" THEN "dests" ELSE IF q = "dests" THEN "ents" ELSE "post")
  BY DEF DeleteSources, DeleteDests, DeleteEnts
<1> DEFINE p == IF q = "sources" THEN "dests" ELSE IF q = "dests" THEN "ents" ELSE "post"
<1>3. p \in {"dests", "ents", "post"} /\ Pass(i, p) /\ p \in Phases
  BY <1>2 DEF Phases, Stage
<1> HIDE DEF p
<1>4. Becomes(i, p, tasks[i].fresh, tasks[i].hit, tasks[i].lists, tasks[i].dead)
  BY <1>2, <1>3, Started, PassBecomes
<1>5. tasks[i].phase = q /\ i \in DOMAIN tasks /\ tasks[i].dead \subseteq Dead
  BY <1>2, Started DEF Dead
<1>6. Pending' = Pending
  BY <1>1, <1>3, <1>4, <1>5, MovePending
<1>7. EndsFound => EndsFound'
  BY <1>1, <1>3, <1>4, MoveEnds
<1>8. ASSUME Whole PROVE Whole'
  <2>1. EngInv' /\ Kept' = Kept /\ Old' = Old /\ Dead' = Dead
    BY <1>1, <1>3, <1>4, <1>5, <1>8, MoveEngine DEF Whole
  <2>2. HistInv'
    BY <1>6, <1>8, <2>1, SameHistory DEF Whole
  <2>4. /\ \A v \in ents : v \in ents' \/ v \in Dead
        /\ \A e \in rels \cup dropped :
             e[1] = Root \/ e \in rels' \cup dropped' \/ e[1] \in Dead \/ e[2] \in Dead
    BY <1>1, <1>5
  <2>3. CatInv'
    BY <1>1, <1>6, <1>8, <2>1, <2>4, SameCatalog DEF Whole
  <2> QED BY <2>1, <2>2, <2>3 DEF Whole
<1> QED BY <1>1, <1>7, <1>8 DEF Deep

-----------------------------------------------------------------------------
(* Tasks that come and go.                                                  *)

\* The tasks that stay.
Stayed(i, old) ==
    /\ \A j, k \in DOMAIN tasks' : j # k => old[j] # old[k]
    /\ \A j \in DOMAIN tasks' : old[j] \in DOMAIN tasks /\ old[j] # i /\ tasks'[j] = tasks[old[j]]
    /\ \A k \in DOMAIN tasks : k # i => \E j \in DOMAIN tasks' : old[j] = k

\* A task that leaves the pipeline leaves the others as they are.
LEMMA OthersStay ==
    ASSUME Basic, NEW i \in DOMAIN tasks, Finish(i)
    PROVE  \E old : Stayed(i, old)
<1>1. tasks \in Seq(Task) /\ tasks' \in Seq(Task) /\ Leaves(i)
  BY FinishLeaves DEF Basic, Types
<1>2. PICK old \in [DOMAIN tasks' -> DOMAIN tasks] :
        /\ \A j, k \in DOMAIN tasks' : j < k => old[j] < old[k]
        /\ \A j \in DOMAIN tasks' : old[j] # i /\ tasks'[j] = tasks[old[j]]
        /\ \A k \in DOMAIN tasks : k # i => \E j \in DOMAIN tasks' : old[j] = k
  BY <1>1 DEF Leaves
<1>3. DOMAIN tasks' = 1..Len(tasks') /\ DOMAIN tasks = 1..Len(tasks)
  BY <1>1
<1>4. \A j \in DOMAIN tasks' : j \in Int /\ old[j] \in Int /\ old[j] \in DOMAIN tasks
  BY <1>2, <1>3
<1>5. \A j, k \in DOMAIN tasks' : j # k => old[j] # old[k]
  <2>1. \A x, y \in Int : (x # y => x < y \/ y < x) /\ (x < y => x # y)
    OBVIOUS
  <2> QED BY <1>2, <1>4, <2>1
<1> QED BY <1>2, <1>4, <1>5 DEF Stayed

\* A task that goes had nothing to apply, to hit or to follow any more.
LEMMA FinishSets ==
    ASSUME Basic, NEW i \in DOMAIN tasks, Finish(i), log' = log,
           tasks[i].lists = {}, tasks[i].phase \notin {"init", "maps", "adds", "deletes"}
    PROVE  /\ Pending' = Pending /\ Lists' = Lists /\ Hits' = Hits
           /\ Dead' \subseteq Dead /\ \A v \in Dead : v \in Dead' \/ v \in tasks[i].dead
<1>1. PICK old : Stayed(i, old)
  BY OthersStay
<1>2. \A j \in DOMAIN tasks' : tasks'[j] \in {tasks[k] : k \in DOMAIN tasks}
  BY <1>1 DEF Stayed
<1>3. \A k \in DOMAIN tasks : k # i => \E j \in DOMAIN tasks' : tasks'[j] = tasks[k]
  BY <1>1 DEF Stayed
<1>4. Waiting(tasks[i]) = {} /\ HitBy(tasks[i]) = {}
  BY DEF Waiting, HitBy
<1>5. PendingRows' = PendingRows
  <2>1. \A r : r \in PendingRows <=> r \in log \/ \E k \in DOMAIN tasks : r \in Waiting(tasks[k])
    BY DEF PendingRows
  <2>2. \A r : r \in PendingRows' <=> r \in log \/ \E j \in DOMAIN tasks' : r \in Waiting(tasks'[j])
    BY DEF PendingRows
  <2>3. \A r : r \in PendingRows' <=> r \in PendingRows
    BY <1>2, <1>3, <1>4, <2>1, <2>2
  <2> QED BY <2>3
<1>6. Lists' = Lists
  <2>1. \A x : x \in Lists <=> \E k \in DOMAIN tasks : x \in tasks[k].lists
    BY DEF Lists
  <2>2. \A x : x \in Lists' <=> \E j \in DOMAIN tasks' : x \in tasks'[j].lists
    BY DEF Lists
  <2>3. \A x : x \in Lists' <=> x \in Lists
    BY <1>2, <1>3, <2>1, <2>2
  <2> QED BY <2>3
<1>7. Hits' = Hits
  <2>1. \A x : x \in Hits <=> \E k \in DOMAIN tasks : x \in HitBy(tasks[k])
    BY DEF Hits
  <2>2. \A x : x \in Hits' <=> \E j \in DOMAIN tasks' : x \in HitBy(tasks'[j])
    BY DEF Hits
  <2>3. \A x : x \in Hits' <=> x \in Hits
    BY <1>2, <1>3, <1>4, <2>1, <2>2
  <2> QED BY <2>3
<1>8. \A v \in Dead' : v \in Dead
  BY <1>2 DEF Dead
<1>9. \A v \in Dead : v \in Dead' \/ v \in tasks[i].dead
  BY <1>3 DEF Dead
<1> QED BY <1>5, <1>6, <1>7, <1>8, <1>9 DEF Pending

\* A task that leaves the pipeline after execRC leaves the engine as it is.
LEMMA FinishEngine ==
    ASSUME Basic, MapsInv, EngInv, NEW i \in DOMAIN tasks, Finish(i), log' = log,
           tasks[i].lists = {}, tasks[i].phase \notin {"init", "maps", "adds", "deletes"},
           UNCHANGED <<alloc, rc, out>>, \A s \in alloc : oMap'[s] = oMap[s],
           DOMAIN iMap' = DOMAIN iMap \ tasks[i].dead, \A v \in DOMAIN iMap' : iMap'[v] = iMap[v]
    PROVE  EngInv' /\ Kept' = Kept /\ Old' \subseteq Old
<1>1. /\ Lists' = Lists /\ Hits' = Hits
      /\ Dead' \subseteq Dead /\ \A v \in Dead : v \in Dead' \/ v \in tasks[i].dead
  BY FinishSets
<1>2. Kept' = Kept
  <2>1. \A e : e \in Kept' <=> e \in Kept
    BY HeldIs DEF Kept
  <2> QED BY <2>1
<1>3. \A s \in Hits : s \in alloc
  BY DEF EngInv, EngHits
<1>4. Old' \subseteq Old
  BY <1>1, <1>3 DEF Old
<1>5. PICK old : Stayed(i, old)
  BY OthersStay
<1>7. EngMaps'
  <2>1. ASSUME NEW v \in DOMAIN iMap'
        PROVE  Current(v)' \/ v \in Dead'
    <3>1. v \in DOMAIN iMap /\ v \notin tasks[i].dead /\ iMap'[v] = iMap[v]
      BY <2>1
    <3>2. Current(v) => Current(v)'
      BY <3>1 DEF Current
    <3> QED BY <1>1, <3>1, <3>2 DEF EngInv, EngMaps
  <2> QED BY <2>1 DEF EngInv, EngMaps
<1>8. \A s \in alloc : oMap'[s] = oMap[s]
  OBVIOUS
<1>9. EngOut'
  BY <1>8 DEF EngInv, EngOut
<1>10. EngLists'
  BY <1>5 DEF EngInv, EngLists, Stayed
<1>11. EngHits'
  BY <1>1, <1>5 DEF EngInv, EngHits, Stayed
<1>12. \A t : Column(t)' = Column(t)
  BY DEF Column
<1>13. EngCounts'
  BY <1>1, <1>12 DEF EngInv, EngCounts
<1> QED BY <1>2, <1>4, <1>7, <1>9, <1>10, <1>11, <1>13 DEF EngInv

\* The references that are still to be added have ends that nobody took.
LEMMA AddEndsLive ==
    ASSUME Basic, MapsInv, Whole, NEW j \in DOMAIN tasks, tasks[j].phase \in {"clear", "maps", "adds"}
    PROVE  \A v \in Ends(Added(j)) : ~ CutOff(v, Kept, Pending) /\ v \notin Dead
<1> SUFFICES ASSUME NEW v \in Ends(Added(j))
             PROVE  ~ CutOff(v, Kept, Pending) /\ v \notin Dead
  OBVIOUS
<1>1. PICK r \in Added(j) : v \in {r.edge[1], r.edge[2]}
  BY DEF Ends
<1>2. r \in PendingRows /\ r.op = "add"
  <2>1. r \in tasks[j].rows /\ r.op = "add"
    BY DEF Added
  <2>2. CASE tasks[j].phase = "clear"
    <3>1. r \in log
      BY <2>1, <2>2 DEF Basic, TasksFit, ReadFrom, Unread
    <3> QED BY <2>1, <3>1 DEF PendingRows
  <2>3. CASE tasks[j].phase \in {"maps", "adds"}
    BY <2>1, <2>3 DEF PendingRows, Waiting
  <2> QED BY <2>2, <2>3
<1>3. Op(r) \in Pending /\ Op(r).op = "add" /\ Op(r).edge = r.edge /\ Pending \in SUBSET Operation
  BY <1>2, PendingIs, OpIs
<1>4. Kept \in SUBSET Schema
  BY KeptIs DEF Whole, EngInv
<1>5. ~ CutOff(v, Kept, Pending)
  BY <1>1, <1>3, <1>4, AddEndsReached DEF Whole, HistInv
<1>6. \A w \in Dead : CutOff(w, Kept, Pending)
  BY DEF Whole, CatInv, Reflects
<1> QED BY <1>5, <1>6

\* postRCCommit keeps the history: what the maps forget has no slot.
LEMMA PostDeep ==
    ASSUME Basic, MapsInv, Deep, NEW i, Post(i)
    PROVE  Deep'
<1>1. UNCHANGED <<ents, rels, dropped, used, alloc, rc, out, lost, log>>
  BY DEF Post, catalogVars, engineVars
<1>2. /\ Finish(i) /\ i \in DOMAIN tasks /\ Turn(i, "post")
      /\ DOMAIN iMap' = DOMAIN iMap \ tasks[i].dead /\ \A v \in DOMAIN iMap' : iMap'[v] = iMap[v]
      /\ DOMAIN oMap' = {s \in DOMAIN oMap : ~ (oMap[s] \in tasks[i].dead \cap DOMAIN iMap
                                                /\ iMap[oMap[s]] = s)}
      /\ \A s \in DOMAIN oMap' : oMap'[s] = oMap[s]
  BY PostIs
<1>3. tasks[i].lists = {} /\ tasks[i].phase = "post" /\ tasks[i].dead \subseteq Dead
  BY <1>2, Started DEF Dead
<1>4. \A s \in alloc : oMap'[s] = oMap[s]
  <2>1. \A s \in alloc : s \in DOMAIN oMap /\ oMap[s] \notin tasks[i].dead
    BY <1>3, NamesIs
  <2> QED BY <1>2, <2>1
<1>5. ASSUME Whole PROVE Whole'
  <2>1. EngInv' /\ Kept' = Kept /\ Old' \subseteq Old
    BY <1>1, <1>2, <1>3, <1>4, <1>5, FinishEngine DEF Whole
  <2>2. Pending' = Pending /\ Dead' \subseteq Dead
    BY <1>1, <1>2, <1>3, FinishSets
  <2>3. HistInv'
    BY <1>5, <2>1, <2>2, SameHistory DEF Whole
  <2>4. CatInv'
    BY <1>1, <1>5, <2>1, <2>2, SameCatalog DEF Whole
  <2> QED BY <2>1, <2>3, <2>4 DEF Whole
<1>6. PICK old : Stayed(i, old)
  BY <1>2, OthersStay
<1>7. ASSUME EndsFound, Whole \/ QuietStage = 6 PROVE EndsFound'
  <2>1. ASSUME NEW j \in DOMAIN tasks'
        PROVE  /\ Added(j)' = Added(old[j])
               /\ tasks'[j].phase \in {"clear", "maps", "adds"} =>
                    \A v \in Ends(Added(old[j])) : v \notin tasks[i].dead
    <3>1. tasks'[j] = tasks[old[j]] /\ old[j] \in DOMAIN tasks /\ old[j] # i
      BY <1>6 DEF Stayed
    <3>2. Added(j)' = Added(old[j])
      BY <3>1 DEF Added
    <3>3. Whole
      <4>1. QuietStage # 6
        <5>1. QuietStage = 6 => Len(tasks) <= 1
          BY DEF Basic, TasksFit
        <5>2. DOMAIN tasks = 1..Len(tasks) /\ Len(tasks) \in Nat
          BY TaskTypes DEF Basic, Types
        <5> QED BY <1>2, <3>1, <5>1, <5>2
      <4> QED BY <1>7, <4>1
    <3>4. tasks'[j].phase \in {"clear", "maps", "adds"} =>
            \A v \in Ends(Added(old[j])) : v \notin Dead
      BY <3>1, <3>3, AddEndsLive
    <3> QED BY <1>3, <3>2, <3>4
  <2>2. \A j \in DOMAIN tasks' : tasks'[j] = tasks[old[j]] /\ old[j] \in DOMAIN tasks
    BY <1>6 DEF Stayed
  <2> QED BY <1>2, <1>7, <2>1, <2>2 DEF EndsFound
<1> QED BY <1>1, <1>5, <1>7 DEF Deep

\* A task that is given up in stage 1 is read again; the other failures lose work.
LEMMA FailDeep ==
    ASSUME Basic, MapsInv, Deep, NEW i, Fail(i)
    PROVE  Deep'
<1>1. /\ i \in DOMAIN tasks /\ Finish(i)
      /\ UNCHANGED <<ents, rels, dropped, used, rows, iMap, oMap, alloc, rc, out>>
      /\ lost' \/ (lost' = lost /\ log' = log /\ tasks[i].phase = "clear")
  BY DEF Fail, Turn, catalogVars, mapVars, engineVars
<1>2. PICK old : Stayed(i, old)
  BY <1>1, OthersStay
<1>3. EndsFound => EndsFound'
  <2>1. \A j \in DOMAIN tasks' : tasks'[j] = tasks[old[j]] /\ old[j] \in DOMAIN tasks
    BY <1>2 DEF Stayed
  <2>2. \A j \in DOMAIN tasks' : Added(j)' = Added(old[j])
    BY <2>1 DEF Added
  <2> QED BY <1>1, <2>1, <2>2 DEF EndsFound
<1>4. QuietStage = 6 /\ lost' => EndsFound'
  <2>1. QuietStage = 6 => Len(tasks) <= 1
    BY DEF Basic, TasksFit
  <2>2. DOMAIN tasks = 1..Len(tasks) /\ Len(tasks) \in Nat
    BY TaskTypes DEF Basic, Types
  <2>3. ASSUME QuietStage = 6, NEW j \in DOMAIN tasks'
        PROVE  FALSE
    <3>1. i \in DOMAIN tasks /\ old[j] \in DOMAIN tasks /\ old[j] # i
      BY <1>1, <1>2 DEF Stayed
    <3> QED BY <2>1, <2>2, <2>3, <3>1
  <2> QED BY <2>3 DEF EndsFound
<1>5. ASSUME Whole, ~ lost' PROVE Whole'
  <2>1. /\ log' = log /\ tasks[i].phase = "clear" /\ TaskFits(tasks[i], rows, used)
    BY <1>1, <1>5 DEF Basic, TasksFit
  <2>2. tasks[i].lists = {} /\ tasks[i].dead = {}
    BY <2>1 DEF TaskFits, Unapplied
  <2>3. /\ DOMAIN iMap' = DOMAIN iMap \ tasks[i].dead /\ \A v \in DOMAIN iMap' : iMap'[v] = iMap[v]
        /\ \A s \in alloc : oMap'[s] = oMap[s]
        /\ UNCHANGED <<alloc, rc, out>>
    BY <1>1, <2>2
  <2>4. EngInv' /\ Kept' = Kept /\ Old' \subseteq Old
    BY <1>1, <1>5, <2>1, <2>2, <2>3, FinishEngine DEF Whole
  <2>5. Pending' = Pending /\ Dead' \subseteq Dead
    BY <1>1, <2>1, <2>2, FinishSets
  <2>6. HistInv'
    BY <1>5, <2>4, <2>5, SameHistory DEF Whole
  <2>7. CatInv'
    BY <1>1, <1>5, <2>4, <2>5, SameCatalog DEF Whole
  <2> QED BY <2>4, <2>6, <2>7 DEF Whole
<1>6. lost' => (QuietStage = 6 => EndsFound')
  BY <1>4
<1>7. lost \in BOOLEAN /\ (~ lost' => ~ lost)
  BY <1>1 DEF Basic, Types
<1> QED BY <1>3, <1>5, <1>6, <1>7 DEF Deep

-----------------------------------------------------------------------------
(* Ingests and new slots.                                                   *)

\* An ingest has appended a task.
Appends(new, last) ==
    /\ DOMAIN tasks' = DOMAIN tasks \cup {last} /\ last \notin DOMAIN tasks
    /\ \A j \in DOMAIN tasks : tasks'[j] = tasks[j]
    /\ tasks'[last] = new
    /\ Waiting(new) = {} /\ HitBy(new) = {} /\ new.lists = {} /\ new.dead = {}
    /\ new.phase = "store"

\* What an ingest reads was pending in the log, and its task is new.
LEMMA IngestSets ==
    ASSUME Basic, Ingest
    PROVE  /\ Pending' = Pending /\ Dead' = Dead /\ Lists' = Lists /\ Hits' = Hits
           /\ \E new, last : Appends(new, last)
<1>1. PICK R \in Cuts : \E read \in SUBSET Row :
             /\ R \in SUBSET log /\ R # {}
             /\ read = {Mark(r) : r \in R} /\ IsFiniteSet(read)
             /\ log' = (log \ R) \cup read /\ IsFiniteSet(log')
             /\ tasks' = Append(tasks, NewTask(read))
  BY IngestIs
<1>2. PICK read \in SUBSET Row :
             /\ R \in SUBSET log
             /\ read = {Mark(r) : r \in R} /\ log' = (log \ R) \cup read
             /\ tasks' = Append(tasks, NewTask(read))
  BY <1>1
<1> DEFINE last == Len(tasks) + 1
           new == NewTask(read)
<1>4. /\ DOMAIN tasks' = DOMAIN tasks \cup {last} /\ last \notin DOMAIN tasks
      /\ \A j \in DOMAIN tasks : tasks'[j] = tasks[j]
      /\ tasks'[last] = new
  BY <1>2, IngestAppends DEF Basic, Types
<1>5. /\ Waiting(new) = {} /\ HitBy(new) = {} /\ new.lists = {} /\ new.dead = {}
      /\ new.phase = "store"
  BY DEF NewTask, Waiting, HitBy
<1> HIDE DEF new, last
<1>6. \A r \in log : Op(Mark(r)) = Op(r)
  BY MarkIs DEF Op, Basic, LogFits, Fits
<1>7. Pending' = Pending
  <2> DEFINE others == UNION {Waiting(tasks[j]) : j \in DOMAIN tasks}
  <2>1. \A r : r \in PendingRows <=> r \in log \cup others
    BY DEF PendingRows
  <2>2. \A r : r \in PendingRows' <=> r \in log' \cup others
    BY <1>4, <1>5 DEF PendingRows
  <2> HIDE DEF others
  <2>3. \A x \in Pending' : x \in Pending
    <3> SUFFICES ASSUME NEW x \in Pending' PROVE x \in Pending
      OBVIOUS
    <3>1. PICK q \in PendingRows' : x = Op(q)
      BY DEF Pending, Ops
    <3>2. CASE q \in read
      <4>1. PICK r \in log : q = Mark(r)
        BY <1>2, <3>2
      <4>2. x = Op(r) /\ r \in PendingRows
        BY <1>6, <2>1, <3>1, <4>1
      <4> QED BY <4>2 DEF Pending, Ops
    <3>3. CASE q \notin read
      <4>1. q \in PendingRows
        BY <1>2, <2>1, <2>2, <3>3
      <4> QED BY <3>1, <4>1 DEF Pending, Ops
    <3> QED BY <3>2, <3>3
  <2>4. \A x \in Pending : x \in Pending'
    <3> SUFFICES ASSUME NEW x \in Pending PROVE x \in Pending'
      OBVIOUS
    <3>1. PICK r \in PendingRows : x = Op(r)
      BY DEF Pending, Ops
    <3>2. CASE r \in R
      <4>1. x = Op(Mark(r)) /\ Mark(r) \in PendingRows'
        BY <1>2, <1>6, <2>2, <3>1, <3>2
      <4> QED BY <4>1 DEF Pending, Ops
    <3>3. CASE r \notin R
      <4>1. r \in PendingRows'
        BY <1>2, <2>1, <2>2, <3>3
      <4> QED BY <3>1, <4>1 DEF Pending, Ops
    <3> QED BY <3>2, <3>3
  <2> QED BY <2>3, <2>4
<1>8. /\ Dead' = Dead /\ Lists' = Lists /\ Hits' = Hits
  <2>1. \A x : x \in Dead <=> \E j \in DOMAIN tasks : x \in tasks[j].dead
    BY DEF Dead
  <2>2. \A x : x \in Dead' <=> \E j \in DOMAIN tasks' : x \in tasks'[j].dead
    BY DEF Dead
  <2>3. \A x : x \in Lists <=> \E j \in DOMAIN tasks : x \in tasks[j].lists
    BY DEF Lists
  <2>4. \A x : x \in Lists' <=> \E j \in DOMAIN tasks' : x \in tasks'[j].lists
    BY DEF Lists
  <2>5. \A x : x \in Hits <=> \E j \in DOMAIN tasks : x \in HitBy(tasks[j])
    BY DEF Hits
  <2>6. \A x : x \in Hits' <=> \E j \in DOMAIN tasks' : x \in HitBy(tasks'[j])
    BY DEF Hits
  <2>7. \A x : x \in Dead' <=> x \in Dead
    BY <1>4, <1>5, <2>1, <2>2
  <2>8. \A x : x \in Lists' <=> x \in Lists
    BY <1>4, <1>5, <2>3, <2>4
  <2>9. \A x : x \in Hits' <=> x \in Hits
    BY <1>4, <1>5, <2>5, <2>6
  <2> QED BY <2>7, <2>8, <2>9
<1> QED BY <1>4, <1>5, <1>7, <1>8 DEF Appends

\* An ingest keeps the history.
LEMMA IngestDeep ==
    ASSUME Ordered, Basic, MapsInv, Deep, Ingest
    PROVE  Deep'
<1>1. UNCHANGED <<ents, rels, dropped, used, rows, iMap, oMap, alloc, rc, out, lost>>
  BY DEF Ingest, catalogVars, mapVars, engineVars
<1>2. Pending' = Pending /\ Dead' = Dead /\ Lists' = Lists /\ Hits' = Hits
  BY IngestSets
<1>3. PICK new, last : Appends(new, last)
  BY IngestSets
<1>4. EndsFound => EndsFound'
  <2>1. \A j \in DOMAIN tasks : Added(j)' = Added(j)
    BY <1>3 DEF Appends, Added
  <2> QED BY <1>1, <1>3, <2>1 DEF Appends, EndsFound
<1>5. ASSUME Whole PROVE Whole'
  <2>1. Kept' = Kept /\ Old' = Old
    BY <1>1, <1>2 DEF Kept, Old
  <2>2. HistInv'
    BY <1>2, <1>5, <2>1, SameHistory DEF Whole
  <2>3. CatInv'
    BY <1>1, <1>2, <1>5, <2>1 DEF Whole, CatInv
  <2>4. \A v : Current(v)' = Current(v)
    BY <1>1 DEF Current
  <2>5. \A t : Column(t)' = Column(t)
    BY <1>1 DEF Column
  <2>6. EngMaps' /\ EngOut' /\ EngCounts'
    BY <1>1, <1>2, <1>5, <2>4, <2>5 DEF Whole, EngInv, EngMaps, EngOut, EngCounts
  <2>7. EngLists' /\ EngHits'
    BY <1>1, <1>2, <1>3, <1>5 DEF Appends, Whole, EngInv, EngLists, EngHits
  <2> QED BY <2>2, <2>3, <2>6, <2>7 DEF Whole, EngInv
<1> QED BY <1>1, <1>4, <1>5 DEF Deep

\* Nothing refers to a slot that is not in use, and it counts nothing.
LEMMA FreeIsEmpty ==
    ASSUME Basic, Whole
    PROVE  \A s \in Slots \ alloc : rc[s] = 0 /\ out[s] = Nowhere /\ \A t \in Slots : out[t][s] = 0
<1> SUFFICES ASSUME NEW s \in Slots \ alloc
             PROVE  rc[s] = 0 /\ out[s] = Nowhere /\ \A t \in Slots : out[t][s] = 0
  OBVIOUS
<1>1. \A x, y \in Slots : out[x][y] \in Nat /\ (out[x][y] > 0 => x \in alloc /\ y \in alloc)
  BY DEF Basic, Types, Whole, EngInv, EngOut
<1>2. \A t \in Slots : out[t][s] = 0 /\ out[s][t] = 0
  BY <1>1
<1>3. out[s] \in [Slots -> Nat]
  BY DEF Basic, Types
<1>4. out[s] = Nowhere
  BY <1>2, <1>3 DEF Nowhere
<1> QED BY <1>2, <1>4 DEF Whole, EngInv, EngCounts

\* What the engine counts at a slot nothing refers to.
LEMMA NothingCounted ==
    ASSUME Basic, NEW t \in Slots, \A s \in Slots : out[s][t] = 0,
           NEW lists, IsFiniteSet(lists), \A list \in lists : list[2][t] = 0
    PROVE  Column(t) = 0 /\ InLists(t, lists) = 0
<1> DEFINE f == [s \in Slots |-> out[s][t]]
           g == [list \in lists |-> list[2][t]]
<1>1. \A s \in Slots : f[s] = 0
  OBVIOUS
<1>2. \A list \in lists : g[list] = 0
  OBVIOUS
<1> HIDE DEF f, g
<1>3. Sum(f, Slots) = 0 /\ Sum(g, lists) = 0
  BY <1>1, <1>2, SumZero, PipelineOK
<1> QED BY <1>3 DEF Column, ColumnOf, InLists, f, g

\* The types of the lists execRC has yet to process.
LEMMA ListsTypes ==
    ASSUME Basic
    PROVE  /\ \A i \in DOMAIN tasks : IsFiniteSet(tasks[i].lists)
           /\ \A i \in DOMAIN tasks : \A list \in tasks[i].lists :
                list[2] \in [Slots -> Nat] /\ \A t \in Slots : list[2][t] \in Nat
           /\ \A list \in Lists : \A t \in Slots : list[2][t] \in Nat
<1>1. \A i \in DOMAIN tasks : IsFiniteSet(tasks[i].lists)
  BY DEF Basic, TasksFit, TaskFits
<1>2. \A i \in DOMAIN tasks : \A list \in tasks[i].lists : list[2] \in [Slots -> Nat]
  BY TaskTypes DEF Basic, Types
<1> QED BY <1>1, <1>2 DEF Lists

\* execRC has finitely many lists to process.
LEMMA ListsFinite ==
    ASSUME Basic
    PROVE  IsFiniteSet(Lists)
<1> DEFINE of == [i \in DOMAIN tasks |-> tasks[i].lists]
           all == {tasks[i].lists : i \in DOMAIN tasks}
<1>1. DOMAIN tasks = 1..Len(tasks) /\ Len(tasks) \in Nat
  BY TaskTypes DEF Basic, Types
<1>2. IsFiniteSet(DOMAIN tasks)
  BY <1>1, FS_Interval
<1>3. of \in Surjection(DOMAIN tasks, all)
  BY DEF Surjection
<1>4. \A s \in all : IsFiniteSet(s)
  BY ListsTypes
<1> HIDE DEF of, all
<1>5. IsFiniteSet(all)
  BY <1>2, <1>3, FS_Surjection
<1>6. IsFiniteSet(UNION all)
  BY <1>4, <1>5, FS_UNION
<1> QED BY <1>6 DEF Lists, all

\* The slots that stage 2 hands out are empty already: the engine stays as it is.
LEMMA MapsKept ==
    ASSUME Basic, MapsInv, Whole, NEW i, Maps(i)
    PROVE  /\ rc' = rc /\ out' = out /\ Kept' = Kept
           /\ \A s \in alloc : oMap'[s] = oMap[s] /\ s \in Slots /\ s \in alloc'
           /\ \A s \in alloc' : s \in Slots /\ (s \in alloc \/ oMap'[s] \in tasks[i].fresh)
<1> DEFINE fresh == tasks[i].fresh
<1>1. PICK pos \in [fresh -> Slots \ alloc] :
             /\ \A s : s \in Range(pos) <=> \E v \in fresh : pos[v] = s
             /\ alloc' = alloc \cup Range(pos)
             /\ rc' = [s \in Slots |-> IF s \in Range(pos) THEN 0 ELSE rc[s]]
             /\ out' = [s \in Slots |-> IF s \in Range(pos) THEN Nowhere ELSE out[s]]
             /\ \A v \in fresh : oMap'[pos[v]] = v
             /\ \A s \in DOMAIN oMap \ Range(pos) : oMap'[s] = oMap[s]
  BY MapsIs
<1> DEFINE taken == Range(pos)
<1>2. \A s \in taken : s \in Slots /\ s \notin alloc
  BY <1>1
<1>3. \A s \in taken : rc[s] = 0 /\ out[s] = Nowhere /\ \A t \in Slots : out[t][s] = 0
  BY <1>2, FreeIsEmpty
<1> HIDE DEF fresh, taken
<1>4. rc' = rc /\ out' = out
  <2>1. rc \in [Slots -> Int] /\ out \in [Slots -> [Slots -> Nat]]
    BY DEF Basic, Types
  <2> QED BY <1>1, <1>3, <2>1 DEF taken
<1>5. \A s \in alloc : oMap'[s] = oMap[s] /\ s \in Slots /\ s \in alloc'
  BY <1>1, <1>2, NamesIs DEF taken
<1>6. \A s \in alloc' : s \in Slots /\ (s \in alloc \/ oMap'[s] \in fresh)
  BY <1>1, <1>2, <1>5 DEF taken
<1>7. \A s, t \in Slots : out[s][t] > 0 => s \in alloc /\ t \in alloc
  BY DEF Whole, EngInv, EngOut
<1>8. \A e : e \in Kept' <=> \E s, t \in alloc' : out'[s][t] > 0 /\ e = <<oMap'[s], oMap'[t]>>
  BY HeldIs DEF Kept
<1>9. \A e : e \in Kept <=> \E s, t \in alloc : out[s][t] > 0 /\ e = <<oMap[s], oMap[t]>>
  BY HeldIs DEF Kept
<1>10. \A e : e \in Kept' <=> e \in Kept
  BY <1>4, <1>5, <1>6, <1>7, <1>8, <1>9
<1> QED BY <1>4, <1>5, <1>6, <1>10 DEF fresh

\* Stage 2 gives new slots to vertices that nothing refers to yet.
LEMMA MapsDeep ==
    ASSUME Basic, MapsInv, Deep, NEW i, Maps(i)
    PROVE  Deep'
<1>0. /\ Turn(i, "maps") /\ Pass(i, "adds")
      /\ UNCHANGED <<ents, rels, dropped, used, log, lost>>
  BY DEF Maps, catalogVars
<1>1. tasks[i].phase = "maps" /\ i \in DOMAIN tasks /\ "adds" \in Phases
  BY <1>0, Started DEF Phases, Stage
<1>2. Becomes(i, "adds", tasks[i].fresh, tasks[i].hit, tasks[i].lists, tasks[i].dead)
  BY <1>0, <1>1, Started, PassBecomes
<1> DEFINE fresh == tasks[i].fresh
<1>3. PICK pos \in [fresh -> Slots \ alloc] :
             /\ \A s : s \in Range(pos) <=> \E v \in fresh : pos[v] = s
             /\ alloc' = alloc \cup Range(pos)
             /\ rc' = [s \in Slots |-> IF s \in Range(pos) THEN 0 ELSE rc[s]]
             /\ out' = [s \in Slots |-> IF s \in Range(pos) THEN Nowhere ELSE out[s]]
             /\ DOMAIN iMap' = DOMAIN iMap \cup fresh
             /\ \A v \in DOMAIN iMap' : iMap'[v] = IF v \in fresh THEN pos[v] ELSE iMap[v]
             /\ DOMAIN oMap' = DOMAIN oMap \cup Range(pos)
             /\ \A v \in fresh : oMap'[pos[v]] = v
             /\ \A s \in DOMAIN oMap \ Range(pos) : oMap'[s] = oMap[s]
  BY MapsIs
<1> DEFINE taken == Range(pos)
<1>4. \A s \in taken : s \in Slots /\ s \notin alloc
  BY <1>3
<1>5. Pending' = Pending
  BY <1>0, <1>1, <1>2, MovePending
<1>6. /\ Dead' = Dead /\ Lists' = Lists /\ Hits' = Hits /\ DOMAIN tasks' = DOMAIN tasks
      /\ \A j \in DOMAIN tasks : /\ HitBy(tasks'[j]) = HitBy(tasks[j])
                                 /\ tasks'[j].dead = tasks[j].dead
                                 /\ tasks'[j].lists = tasks[j].lists
  BY <1>1, <1>2, MoveSets DEF Becomes
<1>7. EndsFound => EndsFound'
  <2> HAVE EndsFound
  <2>1. Ends(Added(i)) \subseteq DOMAIN iMap \cup fresh
    BY <1>1 DEF EndsFound
  <2>2. DOMAIN iMap \subseteq DOMAIN iMap' /\ Ends(Added(i)) \subseteq DOMAIN iMap'
    BY <1>3, <2>1
  <2> QED BY <1>2, <2>2, MoveEnds
<1>8. ASSUME Whole PROVE Whole'
  <2>1. \A s \in taken : rc[s] = 0 /\ out[s] = Nowhere /\ \A t \in Slots : out[t][s] = 0
    BY <1>4, <1>8, FreeIsEmpty
  <2> HIDE DEF fresh, taken
  <2>2. rc' = rc /\ out' = out /\ Kept' = Kept
    BY <1>8, MapsKept
  <2>3. \A s \in alloc : oMap'[s] = oMap[s] /\ s \in Slots /\ s \in alloc'
    BY <1>8, MapsKept
  <2>4. \A s \in alloc' : s \in Slots /\ (s \in alloc \/ s \in taken)
    BY <1>3, <1>4, <2>3 DEF taken
  <2>7. \A s \in Hits : s \in alloc /\ rc[s] = 0 /\ s # RootSlot
    BY <1>8 DEF Whole, EngInv, EngHits
  <2>8. Old' \subseteq Old
    <3>1. \A s \in alloc' : rc'[s] > 0 \/ s \in Hits => s \in alloc
      BY <2>1, <2>2, <2>4, <2>7
    <3> QED BY <1>6, <2>2, <2>3, <3>1 DEF Old
  <2>9. HistInv'
    BY <1>5, <1>8, <2>2, <2>8, SameHistory DEF Whole
  <2>10. CatInv'
    BY <1>0, <1>5, <1>6, <1>8, <2>2 DEF Whole, CatInv
  <2>11. EngMaps'
    <3>1. \A v \in fresh : Current(v)'
      BY <1>3 DEF Current, fresh
    <3>2. \A v \in DOMAIN iMap : v \notin fresh /\ Current(v) => Current(v)'
      BY <1>3, <2>3 DEF Current, fresh
    <3>3. \A v \in DOMAIN iMap' : v \in fresh \/ v \in DOMAIN iMap
      BY <1>3 DEF fresh
    <3> QED BY <1>6, <1>8, <2>3, <3>1, <3>2, <3>3 DEF Whole, EngInv, EngMaps
  <2>12. EngOut'
    BY <1>8, <2>2, <2>3 DEF Whole, EngInv, EngOut
  <2>13. EngLists'
    BY <1>6, <1>8, <2>3 DEF Whole, EngInv, EngLists
  <2>14. EngHits'
    BY <1>6, <1>8, <2>2, <2>3 DEF Whole, EngInv, EngHits
  <2>15. \A t : Column(t)' = Column(t)
    BY <2>2 DEF Column
  <2>16. \A t \in taken : rc[t] = Column(t) + InLists(t, Lists)
    <3> SUFFICES ASSUME NEW t \in taken PROVE rc[t] = Column(t) + InLists(t, Lists)
      OBVIOUS
    <3>1. \A list \in Lists : list[2][t] \in Nat /\ (list[2][t] > 0 => t \in alloc)
      BY <1>4, <1>8, ListsTypes DEF Whole, EngInv, EngLists, Lists, taken
    <3>2. \A list \in Lists : list[2][t] = 0
      BY <1>4, <3>1 DEF taken
    <3>3. t \in Slots /\ rc[t] = 0 /\ \A s \in Slots : out[s][t] = 0
      BY <1>4, <2>1 DEF taken
    <3>4. Column(t) = 0 /\ InLists(t, Lists) = 0
      BY <3>2, <3>3, ListsFinite, NothingCounted
    <3> QED BY <3>3, <3>4
  <2>17. EngCounts'
    BY <1>6, <1>8, <2>2, <2>3, <2>4, <2>15, <2>16 DEF Whole, EngInv, EngCounts
  <2> QED BY <2>9, <2>10, <2>11, <2>12, <2>13, <2>14, <2>17 DEF Whole, EngInv
<1> QED BY <1>0, <1>7, <1>8 DEF Deep

-----------------------------------------------------------------------------
(* Steps of the engine.                                                     *)

\* Rows that are applied are pending no more.
LEMMA Applied ==
    ASSUME Basic, NEW i, NEW p, NEW f, NEW h, NEW l, NEW d, Becomes(i, p, f, h, l, d), log' = log,
           NEW G \in SUBSET Waiting(tasks[i]), Waiting(tasks'[i]) = Waiting(tasks[i]) \ G
    PROVE  /\ G \subseteq PendingRows /\ Ops(G) \in SUBSET Pending
           /\ Pending' = Pending \ Ops(G)
<1>1. i \in DOMAIN tasks /\ DOMAIN tasks' = DOMAIN tasks
  BY DEF Becomes
<1>2. \A j \in DOMAIN tasks : j # i => Waiting(tasks'[j]) = Waiting(tasks[j])
  BY DEF Becomes
<1>3. \A r : r \in PendingRows <=> r \in log \/ \E j \in DOMAIN tasks : r \in Waiting(tasks[j])
  BY DEF PendingRows
<1>4. \A r : r \in PendingRows' <=> r \in log \/ \E j \in DOMAIN tasks : r \in Waiting(tasks'[j])
  BY <1>1 DEF PendingRows
<1>5. \A r \in G : r \in tasks[i].rows /\ tasks[i].phase \notin Unread
  BY DEF Waiting, Unread
<1>6. G \subseteq PendingRows
  BY <1>1, <1>3
<1>7. \A j \in DOMAIN tasks : \A r \in Waiting(tasks[j]) : r \in tasks[j].rows
  BY DEF Waiting
<1>8. \A r \in G : r.id \in Nat /\ ~ (r.id < r.id)
  BY <1>6, PendingIs, OpIs
<1>9. \A r \in G : r \notin log
  BY <1>1, <1>5, <1>8 DEF Basic, TasksFit, ReadFrom
<1>10. ASSUME NEW r \in G, NEW j \in DOMAIN tasks, j # i, r \in Waiting(tasks[j])
       PROVE  FALSE
  <2>1. i < j \/ j < i
    BY <1>1, <1>10, TaskTypes DEF Basic, Types
  <2>2. r \in tasks[j].rows /\ r \in tasks[i].rows
    BY <1>5, <1>7, <1>10
  <2>3. i < j => r.id < r.id
    BY <1>1, <2>2 DEF Basic, TasksFit, Before
  <2>4. j < i => r.id < r.id
    BY <1>1, <2>2 DEF Basic, TasksFit, Before
  <2> QED BY <1>8, <2>1, <2>3, <2>4
<1>11. \A r : r \in PendingRows' <=> r \in PendingRows /\ r \notin G
  BY <1>1, <1>2, <1>3, <1>4, <1>9, <1>10
<1>12. \A r \in PendingRows, q \in G : Op(r) = Op(q) => r = q
  BY <1>6, PendingIs, OpIs
<1>13. \A x : x \in Pending' <=> \E r \in PendingRows' : x = Op(r)
  BY DEF Pending, Ops
<1>14. \A x : x \in Pending <=> \E r \in PendingRows : x = Op(r)
  BY DEF Pending, Ops
<1>15. \A x : x \in Ops(G) <=> \E r \in G : x = Op(r)
  BY DEF Ops
<1>16. \A x : x \in Pending' <=> x \in Pending /\ x \notin Ops(G)
  BY <1>6, <1>11, <1>12, <1>13, <1>14, <1>15
<1>17. Ops(G) \in SUBSET Pending
  BY <1>6, <1>14, <1>15
<1> QED BY <1>6, <1>16, <1>17

\* A task whose turn it is in stage 3 has older rows than those behind it.
LEMMA Older ==
    ASSUME Basic, NEW i, NEW p \in {"adds", "deletes"}, Turn(i, p), NEW r \in tasks[i].rows,
           NEW q \in PendingRows, q \notin Waiting(tasks[i]), AtOnce(q) \/ DropsInOrder
    PROVE  r.id < q.id
<1>1. /\ i \in DOMAIN tasks /\ tasks[i].phase = p /\ ReadFrom(tasks[i], log)
      /\ \A j \in 1..(i - 1) : Stage[tasks[j].phase] > Stage[p]
  BY Started
<1>2. CASE q \in log
  <2>1. q \notin tasks[i].rows
    BY <1>1, <1>2 DEF ReadFrom, Unread
  <2> QED BY <1>1, <1>2, <2>1 DEF ReadFrom
<1>3. ASSUME NEW j \in DOMAIN tasks, q \in Waiting(tasks[j])
      PROVE  r.id < q.id
  <2>1. q \in tasks[j].rows /\ j # i /\ tasks[j].phase \in {"maps", "adds", "deletes"}
    BY <1>3 DEF Waiting
  <2>2. DOMAIN tasks = 1..Len(tasks) /\ Len(tasks) \in Nat
    BY TaskTypes DEF Basic, Types
  <2>3. Stage[p] = 3 /\ ~ (Stage[tasks[j].phase] > 3)
    BY <2>1 DEF Stage
  <2>4. ~ (j < i)
    BY <1>1, <2>2, <2>3
  <2>5. i < j
    BY <1>1, <2>1, <2>2, <2>4
  <2> QED BY <1>1, <2>1, <2>5 DEF Basic, TasksFit, Before
<1> QED BY <1>2, <1>3 DEF PendingRows

\* The catalog after a step of the engine that cuts nothing new off.
LEMMA ReflectsShift ==
    ASSUME NEW F, NEW E, NEW G, NEW K, NEW U, Reflects(F, E, G, K, U),
           NEW H, NEW L, NEW V, \A v : CutOff(v, K, U) => CutOff(v, L, V),
           DropsOf(V) \subseteq DropsOf(U), L \cup AddsOf(V) \subseteq K \cup AddsOf(U),
           \A e \in K \cup AddsOf(U) :
              \/ e \in L \cup AddsOf(V) \/ CutOff(e[1], L, V)
              \/ e \notin F /\ (e \in DropsOf(V) => e[1] = Root),
           \A v \in H : v \in G \/ CutOff(v, L, V)
    PROVE  Reflects(F, E, H, L, V)
<1>1. F \cap DropsOf(V) = {}
  BY DEF Reflects
<1>2. \A e \in F : Backed(e, L, V)
  BY DEF Reflects, Backed
<1>3. \A e \in DropsOf(V) : e[1] # Root => Backed(e, L, V)
  BY DEF Reflects, Backed
<1>4. \A e \in L \cup AddsOf(V) \cup DropsOf(V) : e[1] # Root => OnFile(e, E, L, V)
  BY DEF Reflects, OnFile
<1>5. \A v \in H : CutOff(v, L, V)
  BY DEF Reflects
<1> QED BY <1>1, <1>2, <1>3, <1>4, <1>5 DEF Reflects

\* A vertex that is in the vertex map and was not taken has a slot.
LEMMA FoundHaveSlots ==
    ASSUME Basic, MapsInv, Whole, NEW v \in DOMAIN iMap, v \notin Dead
    PROVE  iMap[v] \in alloc /\ iMap[v] \in Slots /\ oMap[iMap[v]] = v
BY NamesIs DEF Whole, EngInv, EngMaps, Current

\* A slot that counts nothing is named nowhere.
LEMMA ZeroIsZero ==
    ASSUME Basic, Whole, NEW t \in alloc, NEW lists, IsFiniteSet(lists),
           \A list \in lists : list[2][t] \in Nat, Column(t) + InLists(t, lists) = 0
    PROVE  /\ \A s \in Slots : out[s][t] = 0 /\ \A list \in lists : list[2][t] = 0
           /\ Column(t) = 0 /\ InLists(t, lists) = 0
<1> DEFINE f == [s \in Slots |-> out[s][t]]
           g == [list \in lists |-> list[2][t]]
<1>1. \A s \in Slots : f[s] = out[s][t] /\ f[s] \in Nat
  BY DEF Basic, Types
<1>2. \A list \in lists : g[list] = list[2][t] /\ g[list] \in Nat
  OBVIOUS
<1>3. Column(t) = Sum(f, Slots) /\ InLists(t, lists) = Sum(g, lists)
  BY DEF Column, ColumnOf, InLists
<1> HIDE DEF f, g
<1>4. Sum(f, Slots) \in Nat /\ \A s \in Slots : f[s] <= Sum(f, Slots)
  BY <1>1, SumNat, PipelineOK
<1>5. Sum(g, lists) \in Nat /\ \A list \in lists : g[list] <= Sum(g, lists)
  BY <1>2, SumNat
<1>6. \A a, b \in Nat : a + b = 0 => a = 0 /\ b = 0
  OBVIOUS
<1>7. Sum(f, Slots) = 0 /\ Sum(g, lists) = 0
  BY <1>3, <1>4, <1>5, <1>6
<1>8. \A a \in Nat : a <= 0 => a = 0
  OBVIOUS
<1> QED BY <1>1, <1>2, <1>3, <1>4, <1>5, <1>7, <1>8

\* Counts are natural numbers.
LEMMA CountsAreNat ==
    ASSUME Basic, Whole, NEW t \in Slots
    PROVE  rc[t] \in Nat /\ Column(t) \in Nat /\ InLists(t, Lists) \in Nat
<1> DEFINE f == [s \in Slots |-> out[s][t]]
           g == [list \in Lists |-> list[2][t]]
<1>1. \A s \in Slots : f[s] \in Nat
  BY DEF Basic, Types
<1>2. \A list \in Lists : g[list] \in Nat
  BY ListsTypes
<1>3. Column(t) = Sum(f, Slots) /\ InLists(t, Lists) = Sum(g, Lists)
  BY DEF Column, ColumnOf, InLists
<1> HIDE DEF f, g
<1>4. Sum(f, Slots) \in Nat /\ Sum(g, Lists) \in Nat
  BY <1>1, <1>2, SumNat, PipelineOK, ListsFinite
<1>5. \A a, b \in Nat : a + b \in Nat
  OBVIOUS
<1> QED BY <1>3, <1>4, <1>5 DEF Whole, EngInv, EngCounts

\* What was hit, or counted once, and counts nothing now, is cut off.
LEMMA ZeroIsCutOff ==
    ASSUME Basic, MapsInv, Whole, NEW t \in alloc, rc[t] = 0, oMap[t] \in Old, t # RootSlot
    PROVE  /\ CutOff(oMap[t], Kept, Pending)
           /\ \A s \in Slots : out[s][t] = 0 /\ \A list \in Lists : list[2][t] = 0
<1>1. Column(t) + InLists(t, Lists) = 0 /\ t \in Slots
  BY NamesIs DEF Whole, EngInv, EngCounts
<1>2. \A s \in Slots : out[s][t] = 0 /\ \A list \in Lists : list[2][t] = 0
  BY <1>1, ListsTypes, ListsFinite, ZeroIsZero
<1>3. \A s \in alloc : out[s][t] = 0
  BY <1>2, NamesIs
<1> QED BY <1>2, <1>3, ForgottenIsCutOff

-----------------------------------------------------------------------------
(* Stage 3 adds.                                                            *)

\* Where applyAddEdges puts the references of task i.
Puts(i, pos) ==
    /\ pos \in [Ends(Added(i)) -> Slots]
    /\ \A v \in DOMAIN pos \cap DOMAIN iMap : pos[v] = iMap[v]
    /\ out' = [s \in Slots |-> [t \in Slots |-> out[s][t] + Cardinality(New(i, pos, s, t))]]
    /\ rc' = [t \in Slots |-> rc[t] + Cardinality(Into(i, pos, t))]

\* The references a task in stage 3 adds are pending.
LEMMA AddsRows ==
    ASSUME Basic, NEW i \in DOMAIN tasks, tasks[i].phase = "adds"
    PROVE  /\ Added(i) \subseteq Waiting(tasks[i]) /\ Added(i) \subseteq PendingRows
           /\ IsFiniteSet(Added(i))
           /\ \A r \in Added(i) : /\ r.edge[1] \in Ends(Added(i)) /\ r.edge[2] \in Ends(Added(i))
                                  /\ r.edge = <<r.edge[1], r.edge[2]>> /\ r.edge \in Schema
                                  /\ r.edge[2] # Root /\ Op(r) \in Pending
                                  /\ Op(r).op = "add" /\ Op(r).edge = r.edge /\ Op(r).id = r.id
           /\ AddsOf(Ops(Added(i))) = {r.edge : r \in Added(i)}
<1>1. Added(i) \subseteq Waiting(tasks[i]) /\ Added(i) \subseteq PendingRows
  BY DEF Added, Waiting, PendingRows
<1>2. IsFiniteSet(Added(i))
  <2>1. IsFiniteSet(tasks[i].rows) /\ Added(i) \in SUBSET tasks[i].rows
    BY DEF Basic, TasksFit, TaskFits, Added
  <2> QED BY <2>1, FS_Subset
<1>3. \A r \in Added(i) : /\ Op(r) \in Pending /\ Op(r).op = "add" /\ Op(r).edge = r.edge
                          /\ Op(r).id = r.id /\ r.edge \in Schema
  <2>1. \A r \in Added(i) : r \in PendingRows /\ r.op = "add"
    BY <1>1 DEF Added
  <2> QED BY <2>1, PendingIs, OpIs
<1>4. \A r \in Added(i) : r.edge = <<r.edge[1], r.edge[2]>> /\ r.edge[2] # Root
  BY <1>3, PipelineOK
<1>5. \A r \in Added(i) : r.edge[1] \in Ends(Added(i)) /\ r.edge[2] \in Ends(Added(i))
  BY DEF Ends
<1>6. AddsOf(Ops(Added(i))) = {r.edge : r \in Added(i)}
  BY <1>3 DEF AddsOf, Ops
<1> QED BY <1>1, <1>2, <1>3, <1>4, <1>5, <1>6

\* The slots of the ends stand for them.
LEMMA PutsWell ==
    ASSUME Basic, MapsInv, Whole, EndsFound, NEW i \in DOMAIN tasks, tasks[i].phase = "adds",
           NEW pos, Puts(i, pos)
    PROVE  \A v \in Ends(Added(i)) :
             /\ pos[v] \in alloc /\ pos[v] \in Slots /\ oMap[pos[v]] = v
             /\ ~ CutOff(v, Kept, Pending)
<1> SUFFICES ASSUME NEW v \in Ends(Added(i))
             PROVE  /\ pos[v] \in alloc /\ pos[v] \in Slots /\ oMap[pos[v]] = v
                    /\ ~ CutOff(v, Kept, Pending)
  OBVIOUS
<1>1. v \in DOMAIN iMap
  BY DEF EndsFound
<1>2. ~ CutOff(v, Kept, Pending) /\ v \notin Dead
  BY AddEndsLive
<1>3. iMap[v] \in alloc /\ iMap[v] \in Slots /\ oMap[iMap[v]] = v
  BY <1>1, <1>2, FoundHaveSlots
<1>4. pos[v] = iMap[v]
  BY <1>1 DEF Puts
<1> QED BY <1>2, <1>3, <1>4

\* The references between two slots, and into one, that are added.
LEMMA NewIs ==
    ASSUME Basic, MapsInv, Whole, EndsFound, NEW i \in DOMAIN tasks, tasks[i].phase = "adds",
           NEW pos, Puts(i, pos), NEW s \in Slots, NEW t \in Slots
    PROVE  /\ \/ Cardinality(New(i, pos, s, t)) = 0 /\ New(i, pos, s, t) = {}
              \/ /\ Cardinality(New(i, pos, s, t)) = 1 /\ out[s][t] = 0
                 /\ s \in alloc /\ t \in alloc /\ <<oMap[s], oMap[t]>> \in Schema
                 /\ <<oMap[s], oMap[t]>> \in AddsOf(Ops(Added(i)))
           /\ s \in alloc /\ t \in alloc /\ <<oMap[s], oMap[t]>> \in AddsOf(Ops(Added(i)))
                => New(i, pos, s, t) # {}
<1>1. \A v \in Ends(Added(i)) : pos[v] \in alloc /\ oMap[pos[v]] = v
  BY PutsWell
<1>2. \A r \in Added(i) : /\ r.edge[1] \in Ends(Added(i)) /\ r.edge[2] \in Ends(Added(i))
                          /\ r.edge = <<r.edge[1], r.edge[2]>> /\ r.edge \in Schema
                          /\ Op(r) \in Pending
                          /\ Op(r).op = "add" /\ Op(r).edge = r.edge /\ Op(r).id = r.id
                          /\ r \in PendingRows
  BY AddsRows
<1>3. \A r \in New(i, pos, s, t) : /\ r \in Added(i) /\ s \in alloc /\ t \in alloc
                                   /\ r.edge = <<oMap[s], oMap[t]>>
  BY <1>1, <1>2 DEF New
<1>4. AddsOf(Ops(Added(i))) = {r.edge : r \in Added(i)}
  BY AddsRows
<1>5. ASSUME s \in alloc, t \in alloc, <<oMap[s], oMap[t]>> \in AddsOf(Ops(Added(i)))
      PROVE  New(i, pos, s, t) # {}
  <2>1. PICK r \in Added(i) : r.edge = <<oMap[s], oMap[t]>>
    BY <1>4, <1>5
  <2>2. r.edge[1] = oMap[s] /\ r.edge[2] = oMap[t]
    BY <2>1
  <2>3. pos[oMap[s]] \in alloc /\ pos[oMap[t]] \in alloc
        /\ oMap[pos[oMap[s]]] = oMap[s] /\ oMap[pos[oMap[t]]] = oMap[t]
    BY <1>1, <1>2, <2>2
  <2>4. pos[oMap[s]] = s /\ pos[oMap[t]] = t
    BY <1>5, <2>3, NamesIs
  <2>5. r \in New(i, pos, s, t)
    BY <2>2, <2>4 DEF New
  <2> QED BY <2>5
<1>6. ASSUME NEW r \in New(i, pos, s, t)
      PROVE  /\ New(i, pos, s, t) = {r} /\ out[s][t] = 0
             /\ s \in alloc /\ t \in alloc /\ <<oMap[s], oMap[t]>> \in Schema
             /\ <<oMap[s], oMap[t]>> \in AddsOf(Ops(Added(i)))
  <2>1. r \in Added(i) /\ s \in alloc /\ t \in alloc /\ r.edge = <<oMap[s], oMap[t]>>
    BY <1>3, <1>6
  <2>2. UniqueTo(Op(r), Kept, Pending)
    BY <1>2, <2>1 DEF Whole, HistInv, Unique
  <2>3. r.edge \notin Kept
    BY <1>2, <2>1, <2>2 DEF UniqueTo
  <2>4. out[s][t] = 0
    <3>1. ~ (out[s][t] > 0)
      BY <2>1, <2>3, KeptIs DEF Whole, EngInv
    <3>2. out[s][t] \in Nat
      BY DEF Basic, Types
    <3> QED BY <3>1, <3>2
  <2>5. \A q \in New(i, pos, s, t) : q = r
    <3> SUFFICES ASSUME NEW q \in New(i, pos, s, t) PROVE q = r
      OBVIOUS
    <3>1. q \in Added(i) /\ q.edge = r.edge
      BY <1>3, <2>1
    <3>2. Op(r) = Op(q)
      BY <1>2, <2>1, <2>2, <3>1 DEF UniqueTo
    <3>3. r.id = q.id
      BY <1>2, <2>1, <3>1, <3>2
    <3> QED BY <1>2, <2>1, <3>1, <3>3, PendingIs
  <2> QED BY <1>2, <1>4, <2>1, <2>4, <2>5
<1>7. CASE New(i, pos, s, t) = {}
  BY <1>5, <1>7, FS_EmptySet
<1>8. CASE New(i, pos, s, t) # {}
  <2>1. PICK r : r \in New(i, pos, s, t)
    BY <1>8
  <2>2. New(i, pos, s, t) = {r}
    BY <1>6, <2>1
  <2>3. Cardinality(New(i, pos, s, t)) = 1
    BY <2>2, FS_Singleton
  <2> QED BY <1>6, <2>1, <2>3, <1>8
<1> QED BY <1>7, <1>8

\* applyAddEdges adds as many references to a slot as it adds to its count, and
\* none to one that is cut off.
LEMMA IntoIs ==
    ASSUME Basic, MapsInv, Whole, EndsFound, NEW i \in DOMAIN tasks, tasks[i].phase = "adds",
           NEW pos, Puts(i, pos), NEW t \in Slots
    PROVE  /\ Cardinality(Into(i, pos, t)) \in Nat
           /\ Column(t)' = Column(t) + Cardinality(Into(i, pos, t))
           /\ \/ Cardinality(Into(i, pos, t)) = 0
              \/ \E r \in Added(i) : t \in alloc /\ oMap[t] = r.edge[2] /\ t # RootSlot
                                     /\ ~ CutOff(oMap[t], Kept, Pending)
<1> DEFINE Q == Into(i, pos, t)
           f == [s \in Slots |-> out[s][t]]
           g == [s \in Slots |-> Cardinality(New(i, pos, s, t))]
           h == [s \in Slots |-> out'[s][t]]
           k == [q \in Q |-> pos[q.edge[1]]]
<1>1. IsFiniteSet(Q) /\ Cardinality(Q) \in Nat
  <2>1. IsFiniteSet(Added(i)) /\ Into(i, pos, t) \in SUBSET Added(i)
    BY AddsRows DEF Into
  <2> QED BY <2>1, CountType
<1>2. \A s \in Slots : out[s][t] \in Int /\ Cardinality(New(i, pos, s, t)) \in Int
                       /\ out'[s][t] = out[s][t] + Cardinality(New(i, pos, s, t))
  <2>1. \A s \in Slots : out[s][t] \in Nat
    BY DEF Basic, Types
  <2>2. \A s \in Slots : Cardinality(New(i, pos, s, t)) \in {0, 1}
    <3> SUFFICES ASSUME NEW s \in Slots PROVE Cardinality(New(i, pos, s, t)) \in {0, 1}
      OBVIOUS
    <3>1. Cardinality(New(i, pos, s, t)) = 0 \/ Cardinality(New(i, pos, s, t)) = 1
      BY NewIs
    <3> QED BY <3>1
  <2>3. \A s \in Slots : out'[s][t] = out[s][t] + Cardinality(New(i, pos, s, t))
    BY DEF Puts
  <2> QED BY <2>1, <2>2, <2>3
<1>3. \A s \in Slots : g[s] = Cardinality(Share(Q, k, s))
  <2> SUFFICES ASSUME NEW s \in Slots PROVE g[s] = Cardinality(Share(Q, k, s))
    OBVIOUS
  <2>1. New(i, pos, s, t) = Share(Q, k, s)
    BY DEF New, Into, Share
  <2> QED BY <2>1
<1>4. \A q \in Q : k[q] \in Slots
  BY AddsRows DEF Into, Puts
<1>5. \A s \in Slots : f[s] \in Int /\ g[s] \in Int /\ h[s] = f[s] + g[s]
  BY <1>2
<1>6. Column(t)' = Sum(h, Slots) /\ Column(t) = Sum(f, Slots)
  BY DEF Column, ColumnOf
<1>7. ASSUME NEW r \in Q
      PROVE  t \in alloc /\ oMap[t] = r.edge[2] /\ t # RootSlot /\ ~ CutOff(oMap[t], Kept, Pending)
  <2>1. r \in Added(i) /\ pos[r.edge[2]] = t
    BY <1>7 DEF Into
  <2>2. r.edge[2] \in Ends(Added(i)) /\ r.edge[2] # Root
    BY <2>1, AddsRows
  <2>3. t \in alloc /\ oMap[t] = r.edge[2] /\ ~ CutOff(oMap[t], Kept, Pending)
    BY <2>1, <2>2, PutsWell
  <2> QED BY <2>2, <2>3 DEF Whole, EngInv, EngMaps
<1>8. Q = {} => Cardinality(Q) = 0
  BY FS_EmptySet
<1>9. \A q \in Q : q \in Added(i)
  BY DEF Into
<1> HIDE DEF f, g, h, k, Q
<1>10. Sum(h, Slots) = Sum(f, Slots) + Sum(g, Slots)
  BY <1>5, SumPlus, PipelineOK
<1>11. Sum(g, Slots) = Cardinality(Q)
  <2>1. IsFiniteSet(Slots)
    BY PipelineOK
  <2> QED BY <1>1, <1>3, <1>4, <2>1, SumCount
<1>12. Column(t)' = Column(t) + Cardinality(Q)
  BY <1>6, <1>10, <1>11
<1>13. Cardinality(Q) = 0 \/ \E r \in Added(i) : t \in alloc /\ oMap[t] = r.edge[2] /\ t # RootSlot
                                                 /\ ~ CutOff(oMap[t], Kept, Pending)
  BY <1>7, <1>8, <1>9
<1> QED BY <1>1, <1>12, <1>13 DEF Q

\* The references added are those the engine holds then.
LEMMA AddsKept ==
    ASSUME Basic, MapsInv, Whole, EndsFound, NEW i, Adds(i), tasks[i].phase = "adds", i \in DOMAIN tasks,
           NEW pos, Puts(i, pos)
    PROVE  Kept' = Kept \cup AddsOf(Ops(Added(i))) /\ EngOut'
<1> DEFINE A == AddsOf(Ops(Added(i)))
           N(s, t) == Cardinality(New(i, pos, s, t))
<1>0. UNCHANGED <<iMap, oMap, alloc>> /\ \A s \in alloc : s \in Slots
  BY NamesIs DEF Adds, mapVars
<1>1. \A s, t \in Slots : out'[s][t] = out[s][t] + N(s, t)
  BY DEF Puts
<1>2. ASSUME NEW s \in Slots, NEW t \in Slots
      PROVE  /\ out'[s][t] \in {0, 1}
             /\ out'[s][t] > 0 => s \in alloc /\ t \in alloc /\ <<oMap[s], oMap[t]>> \in Schema
             /\ s \in alloc /\ t \in alloc =>
                  (out'[s][t] > 0 <=> <<oMap[s], oMap[t]>> \in Kept \/ <<oMap[s], oMap[t]>> \in A)
  <2>1. /\ out[s][t] \in {0, 1}
        /\ out[s][t] > 0 => s \in alloc /\ t \in alloc /\ <<oMap[s], oMap[t]>> \in Schema
    BY DEF Whole, EngInv, EngOut
  <2>2. /\ \/ N(s, t) = 0 /\ New(i, pos, s, t) = {}
           \/ /\ N(s, t) = 1 /\ out[s][t] = 0
              /\ s \in alloc /\ t \in alloc /\ <<oMap[s], oMap[t]>> \in Schema
              /\ <<oMap[s], oMap[t]>> \in A
        /\ s \in alloc /\ t \in alloc /\ <<oMap[s], oMap[t]>> \in A => New(i, pos, s, t) # {}
    BY NewIs
  <2>3. s \in alloc /\ t \in alloc => (out[s][t] > 0 <=> <<oMap[s], oMap[t]>> \in Kept)
    BY KeptIs DEF Whole, EngInv
  <2>4. out'[s][t] = out[s][t] + N(s, t)
    BY <1>1
  <2> HIDE DEF N, A
  <2>5. CASE N(s, t) = 0 /\ New(i, pos, s, t) = {}
    <3>1. out'[s][t] = out[s][t]
      BY <2>1, <2>4, <2>5
    <3> QED BY <2>1, <2>2, <2>3, <2>5, <3>1
  <2>6. CASE N(s, t) = 1 /\ out[s][t] = 0
    <3>1. out'[s][t] = 1
      BY <2>4, <2>6
    <3>2. N(s, t) # 0
      BY <2>6
    <3> QED BY <2>2, <3>1, <3>2
  <2> QED BY <2>2, <2>5, <2>6
<1>3. EngOut'
  BY <1>0, <1>2 DEF EngOut
<1>4. \A e \in A : e = <<e[1], e[2]>> /\ \E s, t \in alloc : e = <<oMap[s], oMap[t]>>
  <2> SUFFICES ASSUME NEW e \in A PROVE \E s, t \in alloc : e = <<oMap[s], oMap[t]>>
    <3>1. \A e \in A : e = <<e[1], e[2]>>
      BY AddsRows
    <3> QED BY <3>1
  <2>1. PICK r \in Added(i) : e = r.edge
    BY AddsRows
  <2>2. r.edge[1] \in Ends(Added(i)) /\ r.edge[2] \in Ends(Added(i)) /\ e = <<r.edge[1], r.edge[2]>>
    BY <2>1, AddsRows
  <2> DEFINE s == pos[r.edge[1]]
             t == pos[r.edge[2]]
  <2>3. s \in alloc /\ t \in alloc /\ oMap[s] = r.edge[1] /\ oMap[t] = r.edge[2]
    BY <2>2, PutsWell
  <2> HIDE DEF s, t
  <2> QED BY <2>2, <2>3
<1>5. \A e : e \in Kept' <=> \E s, t \in alloc : out'[s][t] > 0 /\ e = <<oMap[s], oMap[t]>>
  BY <1>0, HeldIs DEF Kept
<1>6. \A e \in Kept : \E s, t \in alloc : out[s][t] > 0 /\ e = <<oMap[s], oMap[t]>>
  BY KeptIs DEF Whole, EngInv
<1> HIDE DEF A, N
<1>7. \A e : e \in Kept' <=> e \in Kept \cup A
  <2> SUFFICES ASSUME NEW e PROVE e \in Kept' <=> e \in Kept \cup A
    OBVIOUS
  <2>1. ASSUME e \in Kept' PROVE e \in Kept \cup A
    <3>1. PICK s, t \in alloc : out'[s][t] > 0 /\ e = <<oMap[s], oMap[t]>>
      BY <1>5, <2>1
    <3> QED BY <1>0, <1>2, <3>1
  <2>2. ASSUME e \in Kept \cup A PROVE e \in Kept'
    <3>1. PICK s, t \in alloc : e = <<oMap[s], oMap[t]>>
      BY <1>4, <1>6, <2>2
    <3>2. out'[s][t] > 0
      BY <1>0, <1>2, <2>2, <3>1
    <3> QED BY <1>5, <3>1, <3>2
  <2> QED BY <2>1, <2>2
<1> QED BY <1>3, <1>7 DEF A

\* Stage 3 applies the oldest adds that are pending.
LEMMA AddsApplied ==
    ASSUME Basic, NEW i, Adds(i)
    PROVE  /\ Ops(Added(i)) \in SUBSET Pending /\ Pending' = Pending \ Ops(Added(i))
           /\ AddsOf(Ops(Added(i))) = {r.edge : r \in Added(i)}
           /\ \A a \in Ops(Added(i)) : a.op = "add"
           /\ \A a \in Ops(Added(i)), q \in Pending \ Ops(Added(i)) : q.op = "add" => a.id < q.id
<1> DEFINE U == Pending
           A == Ops(Added(i))
<1>1. Turn(i, "adds") /\ Pass(i, "deletes") /\ log' = log
  BY DEF Adds
<1>2. tasks[i].phase = "adds" /\ i \in DOMAIN tasks /\ "deletes" \in Phases
  BY <1>1, Started DEF Phases, Stage
<1>3. Becomes(i, "deletes", tasks[i].fresh, tasks[i].hit, tasks[i].lists, tasks[i].dead)
  BY <1>1, <1>2, Started, PassBecomes
<1>4. /\ Added(i) \in SUBSET Waiting(tasks[i])
      /\ \A r \in Added(i) : r \in tasks[i].rows /\ r \in PendingRows /\ r.op = "add"
                             /\ Op(r).op = "add" /\ Op(r).edge = r.edge /\ Op(r).id = r.id
      /\ AddsOf(A) = {r.edge : r \in Added(i)}
  BY <1>2, AddsRows DEF Added
<1>5. Waiting(tasks'[i]) = Waiting(tasks[i]) \ Added(i)
  <2>1. \A r \in tasks[i].rows : r.op \in {"add", "drop"} /\ "add" # "drop"
    BY <1>2, TaskTypes DEF Basic, Types, Row
  <2> QED BY <1>2, <1>3, <2>1 DEF Waiting, Becomes, Added
<1>6. A \in SUBSET U /\ Pending' = U \ A
  BY <1>1, <1>3, <1>4, <1>5, Applied
<1>7. \A a \in A : a.op = "add"
  BY <1>4 DEF Ops
<1>8. \A a \in A, q \in U \ A : q.op = "add" => a.id < q.id
  <2> SUFFICES ASSUME NEW a \in A, NEW q \in U \ A, q.op = "add" PROVE a.id < q.id
    OBVIOUS
  <2>1. PICK r \in Added(i) : a = Op(r) /\ a.id = r.id
    BY <1>4 DEF Ops
  <2>2. PICK x \in PendingRows : q = Op(x) /\ q.id = x.id /\ x.op = "add"
    BY PendingIs, OpIs
  <2>3. x \notin Waiting(tasks[i])
    BY <2>2 DEF Ops, Added, Waiting
  <2>4. r.id < x.id
    BY <1>1, <1>4, <2>1, <2>2, <2>3, Older DEF AtOnce
  <2> QED BY <2>1, <2>2, <2>4
<1> QED BY <1>4, <1>6, <1>7, <1>8

\* applyAddEdges keeps the history: the adds are no longer pending, but held.
LEMMA AddsDeep ==
    ASSUME Basic, MapsInv, Deep, NEW i, Adds(i)
    PROVE  Deep'
<1>0. /\ Turn(i, "adds") /\ Pass(i, "deletes")
      /\ UNCHANGED <<ents, rels, dropped, used, log, iMap, oMap, alloc, lost>>
  BY DEF Adds, catalogVars, mapVars
<1>1. tasks[i].phase = "adds" /\ i \in DOMAIN tasks /\ "deletes" \in Phases
  BY <1>0, Started DEF Phases, Stage
<1>2. Becomes(i, "deletes", tasks[i].fresh, tasks[i].hit, tasks[i].lists, tasks[i].dead)
  BY <1>0, <1>1, Started, PassBecomes
<1>3. PICK pos : Puts(i, pos)
  BY AddsIs DEF Puts
<1>4. /\ Dead' = Dead /\ Lists' = Lists /\ Hits' = Hits /\ DOMAIN tasks' = DOMAIN tasks
      /\ \A j \in DOMAIN tasks : /\ HitBy(tasks'[j]) = HitBy(tasks[j])
                                 /\ tasks'[j].dead = tasks[j].dead
                                 /\ tasks'[j].lists = tasks[j].lists
  BY <1>1, <1>2, MoveSets DEF Becomes
<1>5. EndsFound => EndsFound'
  BY <1>0, <1>2, MoveEnds
<1>6. ASSUME Whole, EndsFound PROVE Whole'
  <2> DEFINE K == Kept
             U == Pending
             A == Ops(Added(i))
             V == U \ A
             L == K \cup AddsOf(A)
  <2>1. /\ A \in SUBSET U /\ Pending' = V /\ AddsOf(A) = {r.edge : r \in Added(i)}
        /\ \A a \in A : a.op = "add"
        /\ \A a \in A, q \in U \ A : q.op = "add" => a.id < q.id
    BY AddsApplied
  <2>4. U \in SUBSET Operation /\ K \in SUBSET Schema
    BY <1>6, PendingIs, KeptIs DEF Whole, EngInv
  <2>7. /\ \A t \in Slots : Cardinality(Into(i, pos, t)) \in Nat
                            /\ rc'[t] = rc[t] + Cardinality(Into(i, pos, t))
                            /\ Column(t)' = Column(t) + Cardinality(Into(i, pos, t))
        /\ \A t \in Slots : Cardinality(Into(i, pos, t)) = 0
              \/ \E r \in Added(i) : t \in alloc /\ oMap[t] = r.edge[2] /\ t # RootSlot
                                     /\ ~ CutOff(oMap[t], Kept, Pending)
    <3>1. \A t \in Slots : rc'[t] = rc[t] + Cardinality(Into(i, pos, t))
      BY <1>3 DEF Puts
    <3> SUFFICES ASSUME NEW t \in Slots
                 PROVE  /\ Cardinality(Into(i, pos, t)) \in Nat
                        /\ Column(t)' = Column(t) + Cardinality(Into(i, pos, t))
                        /\ \/ Cardinality(Into(i, pos, t)) = 0
                           \/ \E r \in Added(i) : t \in alloc /\ oMap[t] = r.edge[2] /\ t # RootSlot
                                                  /\ ~ CutOff(oMap[t], Kept, Pending)
      BY <3>1
    <3> QED BY <1>1, <1>3, <1>6, IntoIs
  <2>8. \A s \in alloc : s \in Slots
    BY NamesIs
  <2>9. Old' \subseteq Old \cup {e[2] : e \in AddsOf(A)}
    <3>1. ASSUME NEW s \in alloc, rc'[s] > 0 \/ s \in Hits
          PROVE  oMap[s] \in Old \cup {e[2] : e \in AddsOf(A)}
      <4>1. CASE rc[s] > 0 \/ s \in Hits
        BY <4>1 DEF Old
      <4>2. CASE ~ (rc[s] > 0) /\ s \notin Hits
        <5>1. rc[s] \in Nat /\ rc'[s] = rc[s] + Cardinality(Into(i, pos, s))
              /\ Cardinality(Into(i, pos, s)) \in Nat
          BY <1>6, <2>7, <2>8, CountsAreNat
        <5>2. Cardinality(Into(i, pos, s)) # 0
          BY <3>1, <4>2, <5>1
        <5>3. PICK r \in Added(i) : oMap[s] = r.edge[2]
          BY <2>7, <2>8, <5>2
        <5> QED BY <2>1, <5>3
      <4> QED BY <4>1, <4>2
    <3> HIDE DEF A
    <3> QED BY <1>0, <1>4, <3>1 DEF Old
  <2>10. Kept' = L /\ EngOut'
    BY <1>1, <1>3, <1>6, AddsKept
  <2> HIDE DEF K, U, A, V, L
  <2>11. Shift(K, U, Old, K \cup AddsOf(A), U \ A, Old', A)
    BY <2>1, <2>4, <2>9, AddsShift
  <2>12. Shift(K, U, Old, L, V, Old', A) /\ V \subseteq U /\ V \in SUBSET Operation
         /\ \A x \in U : x \in V \/ x \in A
    BY <2>4, <2>11 DEF L, V
  <2>13. Monotone(K, U, Old) /\ Sourced(K, U, InOrder) /\ Unique(K, U)
    BY <1>6 DEF Whole, HistInv, K, U
  <2>14. Monotone(L, V, Old')
    BY <2>1, <2>12, <2>13, ShiftMonotone
  <2>15. Sourced(L, V, InOrder)
    <3>1. \A r \in V, x \in A : (r.op = "add" \/ InOrder) /\ x.op = "drop" => x.id < r.id
      BY <2>1
    <3> QED BY <2>1, <2>12, <2>13, <3>1, ShiftSourced
  <2>16. Unique(L, V)
    <3>1. L \subseteq K \cup AddsOf(U \ V)
      <4>1. U \ V = A
        BY <2>1 DEF V
      <4> QED BY <4>1 DEF L
    <3> QED BY <2>12, <2>13, <3>1, ShiftUnique
  <2>17. HistInv'
    BY <2>1, <2>10, <2>14, <2>15, <2>16 DEF HistInv, InOrder
  <2>18. Reflects(rels, rels \cup dropped, (used \ ents) \cup Dead, K, U)
    BY <1>6 DEF Whole, CatInv, K, U
  <2>19. \A v : CutOff(v, K, U) => CutOff(v, L, V)
    BY <2>1, <2>12, ShiftCutOff
  <2>20. DropsOf(V) \subseteq DropsOf(U) /\ L \cup AddsOf(V) = K \cup AddsOf(U)
    BY <2>1 DEF V, L, AddsOf, DropsOf
  <2>21. Reflects(rels, rels \cup dropped, (used \ ents) \cup Dead, L, V)
    BY <2>18, <2>19, <2>20, ReflectsShift
  <2>22. CatInv'
    BY <1>0, <1>4, <2>1, <2>10, <2>21 DEF CatInv
  <2>23. \A v : Current(v)' = Current(v)
    BY <1>0 DEF Current
  <2>24. EngMaps' /\ EngLists'
    BY <1>0, <1>4, <1>6, <2>23 DEF Whole, EngInv, EngMaps, EngLists
  <2>25. EngHits'
    <3>1. ASSUME NEW s \in Hits PROVE rc'[s] = 0
      <4>1. s \in alloc /\ rc[s] = 0 /\ s # RootSlot /\ s \in Slots
        BY <1>6, <2>8 DEF Whole, EngInv, EngHits
      <4>2. oMap[s] \in Old
        BY <4>1 DEF Old
      <4>3. CutOff(oMap[s], Kept, Pending)
        BY <1>6, <4>1, <4>2, ZeroIsCutOff
      <4>4. Cardinality(Into(i, pos, s)) = 0
        BY <2>7, <4>1, <4>3
      <4> QED BY <2>7, <4>1, <4>4
    <3> QED BY <1>0, <1>4, <1>6, <3>1 DEF Whole, EngInv, EngHits
  <2>26. EngCounts'
    <3>1. ASSUME NEW t \in Slots, t \notin alloc \/ t = RootSlot
          PROVE  rc'[t] = 0
      <4>1. rc[t] = 0
        BY <1>6, <3>1 DEF Whole, EngInv, EngCounts
      <4>2. Cardinality(Into(i, pos, t)) = 0
        BY <2>7, <3>1
      <4> QED BY <2>7, <4>1, <4>2
    <3>2. ASSUME NEW t \in alloc
          PROVE  rc'[t] = Column(t)' + InLists(t, Lists)
      <4>1. rc[t] = Column(t) + InLists(t, Lists) /\ t \in Slots
        BY <1>6, <2>8 DEF Whole, EngInv, EngCounts
      <4>2. Column(t) \in Nat /\ InLists(t, Lists) \in Nat
        BY <1>6, <4>1, CountsAreNat
      <4>3. /\ Cardinality(Into(i, pos, t)) \in Nat
            /\ rc'[t] = rc[t] + Cardinality(Into(i, pos, t))
            /\ Column(t)' = Column(t) + Cardinality(Into(i, pos, t))
        BY <2>7, <4>1
      <4>4. \A a, b, c \in Nat : (a + b) + c = (a + c) + b
        OBVIOUS
      <4> QED BY <4>1, <4>2, <4>3, <4>4
    <3>3. RootSlot \in Slots
      BY PipelineOK
    <3> QED BY <1>0, <1>4, <3>1, <3>2, <3>3 DEF EngCounts
  <2> QED BY <2>10, <2>17, <2>22, <2>24, <2>25, <2>26 DEF Whole, EngInv
<1>7. lost \in BOOLEAN
  BY DEF Basic, Types
<1> QED BY <1>0, <1>5, <1>6, <1>7 DEF Deep

-----------------------------------------------------------------------------
(* Stage 3 drops.                                                           *)

\* The references a task in stage 3 drops are pending.
LEMMA DropsRows ==
    ASSUME Basic, NEW i \in DOMAIN tasks, tasks[i].phase = "deletes"
    PROVE  /\ Removed(i) = Waiting(tasks[i]) /\ Removed(i) \subseteq PendingRows
           /\ IsFiniteSet(Removed(i))
           /\ \A r \in Removed(i) : /\ r \in tasks[i].rows /\ r.edge = <<r.edge[1], r.edge[2]>>
                                    /\ Op(r) \in Pending
                                    /\ Op(r).op = "drop" /\ Op(r).edge = r.edge /\ Op(r).id = r.id
           /\ DropsOf(Ops(Removed(i))) = {r.edge : r \in Removed(i)}
<1>1. Removed(i) = Waiting(tasks[i]) /\ Removed(i) \subseteq PendingRows
  BY DEF Removed, Waiting, PendingRows
<1>2. IsFiniteSet(Removed(i))
  <2>1. IsFiniteSet(tasks[i].rows) /\ Removed(i) \in SUBSET tasks[i].rows
    BY DEF Basic, TasksFit, TaskFits, Removed
  <2> QED BY <2>1, FS_Subset
<1>3. \A r \in Removed(i) : /\ Op(r) \in Pending /\ Op(r).op = "drop" /\ Op(r).edge = r.edge
                            /\ Op(r).id = r.id /\ r.edge \in Schema /\ r \in tasks[i].rows
  <2>1. \A r \in Removed(i) : r \in PendingRows /\ r.op = "drop" /\ r \in tasks[i].rows
    BY <1>1 DEF Removed
  <2> QED BY <2>1, PendingIs, OpIs
<1>4. \A r \in Removed(i) : r.edge = <<r.edge[1], r.edge[2]>>
  BY <1>3, PipelineOK
<1>6. DropsOf(Ops(Removed(i))) = {r.edge : r \in Removed(i)}
  BY <1>3 DEF DropsOf, Ops
<1> QED BY <1>1, <1>2, <1>3, <1>4, <1>6

\* The ends of what is dropped were not taken.
LEMMA DropEndsLive ==
    ASSUME Ordered, Basic, MapsInv, Whole, NEW i \in DOMAIN tasks, tasks[i].phase = "deletes",
           NEW r \in Removed(i)
    PROVE  r.edge[1] \notin Dead /\ r.edge[2] \notin Dead
<1>1. CASE QuietStage = 6
  <2>1. DOMAIN tasks = 1..Len(tasks) /\ Len(tasks) \in Nat /\ Len(tasks) <= 1
    BY <1>1, TaskTypes DEF Basic, Types, TasksFit
  <2>2. \A j \in DOMAIN tasks : j = i
    BY <2>1
  <2>3. tasks[i].dead = {}
    BY DEF Basic, TasksFit, TaskFits, Unapplied
  <2>4. Dead = {}
    BY <2>2, <2>3 DEF Dead
  <2> QED BY <2>4
<1>2. CASE QuietStage # 6
  <2>1. Sourced(Kept, Pending, TRUE)
    BY <1>2 DEF Ordered, Whole, HistInv, InOrder
  <2>2. Op(r) \in Pending /\ Op(r).op = "drop" /\ Op(r).edge = r.edge /\ Pending \in SUBSET Operation
    BY DropsRows, PendingIs
  <2>3. ~ CutOff(r.edge[1], Kept, Pending) /\ ~ CutOff(r.edge[2], Kept, Pending)
    BY <2>1, <2>2, DropEndsReached
  <2>4. \A v \in Dead : CutOff(v, Kept, Pending)
    BY DEF Whole, CatInv, Reflects
  <2> QED BY <2>3, <2>4
<1> QED BY <1>1, <1>2

\* Of the references between two slots, those are found that are dropped.
LEMMA FoundOnce ==
    ASSUME Ordered, Basic, MapsInv, Whole, NEW i \in DOMAIN tasks, tasks[i].phase = "deletes",
           NEW s \in Slots, NEW t \in Slots
    PROVE  /\ out[s][t] = 0 => Found(i, s, t) = 0
           /\ out[s][t] = 1 /\ <<oMap[s], oMap[t]>> \in DropsOf(Ops(Removed(i))) => Found(i, s, t) = 1
           /\ out[s][t] = 1 /\ <<oMap[s], oMap[t]>> \notin DropsOf(Ops(Removed(i))) => Found(i, s, t) = 0
<1> DEFINE Q == {r \in Removed(i) : /\ {r.edge[1], r.edge[2]} \subseteq DOMAIN iMap
                                    /\ iMap[r.edge[1]] = s /\ iMap[r.edge[2]] = t}
<1>1. Asked(i, s, t) = Cardinality(Q)
  BY DEF Asked
<1>2. IsFiniteSet(Q) /\ Cardinality(Q) \in Nat
  <2>1. IsFiniteSet(Removed(i)) /\ Q \in SUBSET Removed(i)
    BY DropsRows
  <2> HIDE DEF Q
  <2> QED BY <2>1, CountType
<1>3. DropsOf(Ops(Removed(i))) = {r.edge : r \in Removed(i)}
  BY DropsRows
<1>4. out[s][t] \in {0, 1} /\ (out[s][t] > 0 => s \in alloc /\ t \in alloc)
  BY DEF Whole, EngInv, EngOut
<1>5. ASSUME out[s][t] = 1, <<oMap[s], oMap[t]>> \in DropsOf(Ops(Removed(i)))
      PROVE  Q # {}
  <2>1. PICK r \in Removed(i) : r.edge = <<oMap[s], oMap[t]>>
    BY <1>3, <1>5
  <2>2. r.edge[1] = oMap[s] /\ r.edge[2] = oMap[t] /\ s \in alloc /\ t \in alloc
    BY <1>4, <1>5, <2>1
  <2>3. r \in Q
    BY <2>2, NamesIs
  <2> QED BY <2>3
<1>6. ASSUME NEW r \in Q, out[s][t] = 1
      PROVE  <<oMap[s], oMap[t]>> \in DropsOf(Ops(Removed(i)))
  <2>1. /\ r \in Removed(i) /\ r.edge[1] \in DOMAIN iMap /\ r.edge[2] \in DOMAIN iMap
        /\ iMap[r.edge[1]] = s /\ iMap[r.edge[2]] = t
    BY <1>6
  <2>2. r.edge[1] \notin Dead /\ r.edge[2] \notin Dead /\ r.edge = <<r.edge[1], r.edge[2]>>
    BY <2>1, DropEndsLive, DropsRows
  <2>3. oMap[s] = r.edge[1] /\ oMap[t] = r.edge[2]
    BY <2>1, <2>2, FoundHaveSlots
  <2> QED BY <1>3, <2>1, <2>2, <2>3
<1>7. Q # {} <=> Cardinality(Q) # 0
  BY <1>2, FS_EmptySet
<1> HIDE DEF Q
<1>8. Found(i, s, t) = IF Cardinality(Q) < out[s][t] THEN Cardinality(Q) ELSE out[s][t]
  BY <1>1 DEF Found
<1> QED BY <1>2, <1>4, <1>5, <1>6, <1>7, <1>8

\* applyDeleteEdges finds every reference it is to drop that the engine holds.
LEMMA DropsKept ==
    ASSUME Ordered, Basic, MapsInv, Whole, NEW i \in DOMAIN tasks, tasks[i].phase = "deletes", Deletes(i)
    PROVE  Kept' = Kept \ DropsOf(Ops(Removed(i))) /\ EngOut'
<1> DEFINE D == DropsOf(Ops(Removed(i)))
<1>0. UNCHANGED <<iMap, oMap, alloc>> /\ \A s \in alloc : s \in Slots
  BY NamesIs DEF Deletes, mapVars
<1>1. \A s, t \in Slots : out'[s][t] = out[s][t] - Found(i, s, t)
  BY DEF Deletes
<1>2. ASSUME NEW s \in Slots, NEW t \in Slots
      PROVE  /\ out'[s][t] \in {0, 1}
             /\ out'[s][t] > 0 => s \in alloc /\ t \in alloc /\ <<oMap[s], oMap[t]>> \in Schema
             /\ out'[s][t] > 0 <=> out[s][t] > 0 /\ <<oMap[s], oMap[t]>> \notin D
  <2>1. /\ out[s][t] \in {0, 1}
        /\ out[s][t] > 0 => s \in alloc /\ t \in alloc /\ <<oMap[s], oMap[t]>> \in Schema
    BY DEF Whole, EngInv, EngOut
  <2>2. /\ out[s][t] = 0 => Found(i, s, t) = 0
        /\ out[s][t] = 1 /\ <<oMap[s], oMap[t]>> \in D => Found(i, s, t) = 1
        /\ out[s][t] = 1 /\ <<oMap[s], oMap[t]>> \notin D => Found(i, s, t) = 0
    BY FoundOnce
  <2> HIDE DEF D
  <2> QED BY <1>1, <2>1, <2>2
<1>3. EngOut'
  BY <1>0, <1>2 DEF EngOut
<1>5. \A e : e \in Kept' <=> \E s, t \in alloc : out'[s][t] > 0 /\ e = <<oMap[s], oMap[t]>>
  BY <1>0, HeldIs DEF Kept
<1>6. \A e : e \in Kept <=> \E s, t \in alloc : out[s][t] > 0 /\ e = <<oMap[s], oMap[t]>>
  BY HeldIs DEF Kept
<1> HIDE DEF D
<1>7. \A e : e \in Kept' <=> e \in Kept \ D
  BY <1>0, <1>2, <1>5, <1>6
<1> QED BY <1>3, <1>7 DEF D

\* What the counts lose.
LEMMA LessCounted ==
    ASSUME Basic, NEW i \in DOMAIN tasks, Deletes(i), NEW t \in Slots
    PROVE  /\ Column(t) = Column(t)' + Less(i)[t] /\ Column(t)' \in Nat /\ Less(i)[t] \in Nat
           /\ rc'[t] = IF t \in alloc THEN rc[t] - Less(i)[t] ELSE rc[t]
<1> DEFINE f == [s \in Slots |-> out'[s][t]]
           g == [s \in Slots |-> Found(i, s, t)]
           h == [s \in Slots |-> out[s][t]]
<1>1. \A s \in Slots : /\ out[s][t] \in Nat /\ Found(i, s, t) \in Nat /\ out[s][t] - Found(i, s, t) \in Nat
                       /\ out'[s][t] = out[s][t] - Found(i, s, t)
  BY FoundIs DEF Deletes
<1>2. \A a, b, c \in Nat : c = a - b => a = c + b
  OBVIOUS
<1>3. \A s \in Slots : f[s] \in Nat /\ g[s] \in Nat /\ h[s] = f[s] + g[s]
  BY <1>1, <1>2
<1>4. Column(t) = Sum(h, Slots) /\ Column(t)' = Sum(f, Slots)
  BY DEF Column, ColumnOf
<1>5. Less(i)[t] = Sum(g, Slots) /\ Less(i)[t] \in Nat
  BY LessIs
<1>6. rc'[t] = IF t \in alloc THEN rc[t] - Less(i)[t] ELSE rc[t]
  BY DEF Deletes, Less
<1> HIDE DEF f, g, h
<1>7. \A s \in Slots : f[s] \in Int /\ g[s] \in Int /\ h[s] = f[s] + g[s]
  BY <1>3
<1>8. Sum(h, Slots) = Sum(f, Slots) + Sum(g, Slots)
  BY <1>7, SumPlus, PipelineOK
<1>9. Sum(f, Slots) \in Nat
  BY <1>3, SumNat, PipelineOK
<1> QED BY <1>4, <1>5, <1>6, <1>8, <1>9

\* The tasks that hit slots, when stage 3 of one is through.
LEMMA NewHits ==
    ASSUME NEW i, NEW p, NEW f, NEW h, Becomes(i, p, f, h, tasks[i].lists, tasks[i].dead),
           tasks[i].phase # "init", p = "init"
    PROVE  /\ Dead' = Dead /\ Lists' = Lists /\ Hits' = Hits \cup h /\ DOMAIN tasks' = DOMAIN tasks
           /\ HitBy(tasks[i]) = {} /\ HitBy(tasks'[i]) = h
           /\ \A j \in DOMAIN tasks : /\ j # i => HitBy(tasks'[j]) = HitBy(tasks[j])
                                      /\ tasks'[j].dead = tasks[j].dead
                                      /\ tasks'[j].lists = tasks[j].lists
<1>1. DOMAIN tasks' = DOMAIN tasks /\ i \in DOMAIN tasks
  BY DEF Becomes
<1>2. \A j \in DOMAIN tasks : /\ j # i => HitBy(tasks'[j]) = HitBy(tasks[j])
                              /\ tasks'[j].dead = tasks[j].dead
                              /\ tasks'[j].lists = tasks[j].lists
  BY DEF Becomes, HitBy
<1>3. HitBy(tasks[i]) = {} /\ HitBy(tasks'[i]) = h
  BY DEF Becomes, HitBy
<1>4. \A s : s \in Hits <=> \E j \in DOMAIN tasks : s \in HitBy(tasks[j])
  BY DEF Hits
<1>5. \A s : s \in Hits' <=> \E j \in DOMAIN tasks : s \in HitBy(tasks'[j])
  BY <1>1 DEF Hits
<1>6. \A s : s \in Hits' <=> s \in Hits \cup h
  BY <1>1, <1>2, <1>3, <1>4, <1>5
<1>7. Dead' = Dead /\ Lists' = Lists
  BY <1>1, <1>2 DEF Dead, Lists
<1> QED BY <1>1, <1>2, <1>3, <1>6, <1>7

\* Stage 3 applies the oldest drops that are pending, and no add is older.
LEMMA DropsFirst ==
    ASSUME Basic, NEW i, Turn(i, "deletes"), NEW x \in Ops(Removed(i)), NEW q \in Pending,
           q.op = "add" \/ (DropsInOrder /\ q \notin Ops(Removed(i)))
    PROVE  x.op = "drop" /\ x.id < q.id
<1>1. /\ Removed(i) = Waiting(tasks[i])
      /\ \A r \in Removed(i) : /\ r \in tasks[i].rows
                               /\ Op(r).op = "drop" /\ Op(r).edge = r.edge /\ Op(r).id = r.id
  BY Started, DropsRows
<1>2. PICK r \in Removed(i) : x = Op(r) /\ x.id = r.id
  BY <1>1 DEF Ops
<1>3. PICK y \in PendingRows : q = Op(y) /\ q.id = y.id /\ q.op = y.op
  BY PendingIs, OpIs
<1>4. y \notin Waiting(tasks[i])
  <2>1. y \notin Removed(i)
    BY <1>3 DEF Ops, Removed
  <2> QED BY <1>1, <2>1
<1>5. AtOnce(y) \/ DropsInOrder
  BY <1>3 DEF AtOnce
<1>6. r.id < y.id
  BY <1>1, <1>4, <1>5, Older
<1> QED BY <1>1, <1>2, <1>3, <1>6

\* The history loses the drops that are applied.
LEMMA DropsApplied ==
    ASSUME Ordered, Basic, MapsInv, Whole, NEW i, Turn(i, "deletes"),
           NEW P, P \subseteq Old
    PROVE  LET K == Kept
               U == Pending
               D == Ops(Removed(i))
           IN  D \in SUBSET U =>
               /\ Monotone(K \ DropsOf(D), U \ D, P)
               /\ Sourced(K \ DropsOf(D), U \ D, InOrder)
               /\ Unique(K \ DropsOf(D), U \ D)
               /\ Reflects(rels, rels \cup dropped, (used \ ents) \cup Dead, K \ DropsOf(D), U \ D)
<1> DEFINE K == Kept
           U == Pending
           D == Ops(Removed(i))
           V == U \ D
           L == K \ DropsOf(D)
<1> SUFFICES ASSUME D \in SUBSET U
             PROVE  /\ Monotone(L, V, P) /\ Sourced(L, V, InOrder) /\ Unique(L, V)
                    /\ Reflects(rels, rels \cup dropped, (used \ ents) \cup Dead, L, V)
  OBVIOUS
<1>0. tasks[i].phase = "deletes" /\ i \in DOMAIN tasks
  BY Started
<1>1. /\ Removed(i) = Waiting(tasks[i])
      /\ \A r \in Removed(i) : /\ r \in tasks[i].rows
                               /\ Op(r).op = "drop" /\ Op(r).edge = r.edge /\ Op(r).id = r.id
  BY <1>0, DropsRows
<1>2. U \in SUBSET Operation /\ K \in SUBSET Schema
  BY PendingIs, KeptIs DEF Whole, EngInv
<1>3. \A x \in D : x.op = "drop"
  BY <1>1 DEF Ops
<1>4. ASSUME NEW x \in D, NEW q \in U, q.op = "add" \/ (DropsInOrder /\ q \notin D)
      PROVE  x.id < q.id
  BY <1>4, DropsFirst
<1>5. Monotone(K, U, Old) /\ Sourced(K, U, InOrder) /\ Unique(K, U)
      /\ Reflects(rels, rels \cup dropped, (used \ ents) \cup Dead, K, U)
  BY DEF Whole, HistInv, CatInv
<1> HIDE DEF K, U, D, V, L
<1>6. Shift(K, U, Old, K \ DropsOf(D), U \ D, P, D)
  <2>1. \A x \in D, q \in U : q.op = "add" => x.id < q.id
    BY <1>4
  <2> QED BY <1>2, <1>3, <1>5, <2>1, DropsShift
<1>7. Shift(K, U, Old, L, V, P, D) /\ V \subseteq U /\ V \in SUBSET Operation
      /\ \A x \in U : x \in V \/ x \in D
  BY <1>2, <1>6 DEF L, V
<1>8. Monotone(L, V, P)
  BY <1>5, <1>7, ShiftMonotone
<1>9. Sourced(L, V, InOrder)
  <2>1. \A r \in V, x \in D : (r.op = "add" \/ InOrder) /\ x.op = "drop" => x.id < r.id
    BY <1>4 DEF InOrder, V
  <2> QED BY <1>5, <1>7, <2>1, ShiftSourced
<1>10. Unique(L, V)
  <2>1. L \subseteq K \cup AddsOf(U \ V)
    BY DEF L
  <2> QED BY <1>5, <1>7, <2>1, ShiftUnique
<1>11. Reflects(rels, rels \cup dropped, (used \ ents) \cup Dead, L, V)
  <2>1. \A v : CutOff(v, K, U) => CutOff(v, L, V)
    BY <1>7, ShiftCutOff
  <2>2. DropsOf(V) \subseteq DropsOf(U) /\ AddsOf(V) = AddsOf(U) /\ DropsOf(D) \subseteq DropsOf(U)
    BY <1>3 DEF V, AddsOf, DropsOf
  <2>3. L \cup AddsOf(V) \subseteq K \cup AddsOf(U)
    BY <2>2 DEF L
  <2>4. ASSUME NEW e \in K \cup AddsOf(U)
        PROVE  \/ e \in L \cup AddsOf(V) \/ CutOff(e[1], L, V)
               \/ e \notin rels /\ (e \in DropsOf(V) => e[1] = Root)
    <3>1. CASE e \in DropsOf(D)
      <4>1. e \notin rels
        BY <1>5, <2>2, <3>1 DEF Reflects
      <4>2. ASSUME e \in DropsOf(V), e[1] # Root PROVE FALSE
        <5>1. PICK x \in D : x.op = "drop" /\ x.edge = e
          BY <3>1 DEF DropsOf
        <5>2. PICK y \in V : y.op = "drop" /\ y.edge = e
          BY <4>2 DEF DropsOf
        <5>3. x \in U /\ y \in U /\ x # y
          BY <5>1, <5>2 DEF V
        <5> QED BY <1>5, <4>2, <5>1, <5>2, <5>3 DEF Unique, UniqueTo
      <4> QED BY <4>1, <4>2
    <3>2. CASE e \notin DropsOf(D)
      BY <2>2, <3>2 DEF L
    <3> QED BY <3>1, <3>2
  <2> QED BY <1>5, <2>1, <2>2, <2>3, <2>4, ReflectsShift
<1> QED BY <1>8, <1>9, <1>10, <1>11

\* applyDeleteEdges keeps the history: the drops are no longer pending, and what
\* they dropped is no longer held.
LEMMA DeletesDeep ==
    ASSUME Ordered, Basic, MapsInv, Deep, NEW i, Deletes(i)
    PROVE  Deep'
<1>0. Turn(i, "deletes") /\ UNCHANGED <<ents, rels, dropped, used, log, iMap, oMap, alloc, lost>>
  BY DEF Deletes, catalogVars, mapVars
<1>1. tasks[i].phase = "deletes" /\ i \in DOMAIN tasks
  BY <1>0, Started
<1>2. Becomes(i, "init", tasks[i].fresh, Zeroed(Less(i)), tasks[i].lists, tasks[i].dead)
  BY <1>0, <1>1, Started, DeletesBecomes DEF Basic, Types
<1>4. /\ Dead' = Dead /\ Lists' = Lists /\ Hits' = Hits \cup Zeroed(Less(i)) /\ DOMAIN tasks' = DOMAIN tasks
      /\ HitBy(tasks[i]) = {} /\ HitBy(tasks'[i]) = Zeroed(Less(i))
      /\ \A j \in DOMAIN tasks : /\ j # i => HitBy(tasks'[j]) = HitBy(tasks[j])
                                 /\ tasks'[j].dead = tasks[j].dead
                                 /\ tasks'[j].lists = tasks[j].lists
  BY <1>1, <1>2, NewHits
<1>5. EndsFound => EndsFound'
  BY <1>0, <1>2, MoveEnds
<1>6. ASSUME Whole PROVE Whole'
  <2> DEFINE D == Ops(Removed(i))
  <2>1. Removed(i) \in SUBSET Waiting(tasks[i]) /\ Waiting(tasks'[i]) = Waiting(tasks[i]) \ Removed(i)
    <3>1. Waiting(tasks'[i]) = {}
      BY <1>2 DEF Waiting, Becomes
    <3> QED BY <1>1, <3>1, DropsRows
  <2>2. D \in SUBSET Pending /\ Pending' = Pending \ D
    BY <1>0, <1>2, <2>1, Applied
  <2>3. Kept' = Kept \ DropsOf(D) /\ EngOut'
    BY <1>1, <1>6, DropsKept
  <2>4. \A s \in alloc : s \in Slots
    BY NamesIs
  <2>5. ASSUME NEW t \in Slots
        PROVE  /\ t \in alloc => rc'[t] = Column(t)' + InLists(t, Lists)
               /\ t \in alloc => rc'[t] = rc[t] - Less(i)[t]
               /\ t \notin alloc => rc'[t] = 0
               /\ rc[t] \in Nat /\ rc'[t] \in Nat /\ rc'[t] <= rc[t] /\ Less(i)[t] \in Nat
    <3>1. Column(t) \in Nat /\ InLists(t, Lists) \in Nat /\ rc[t] \in Nat
      BY <1>6, CountsAreNat
    <3>2. /\ Column(t) = Column(t)' + Less(i)[t] /\ Column(t)' \in Nat /\ Less(i)[t] \in Nat
          /\ rc'[t] = IF t \in alloc THEN rc[t] - Less(i)[t] ELSE rc[t]
      BY <1>1, LessCounted
    <3>3. t \in alloc => rc[t] = Column(t) + InLists(t, Lists)
      BY <1>6 DEF Whole, EngInv, EngCounts
    <3>4. t \notin alloc => rc[t] = 0
      BY <1>6 DEF Whole, EngInv, EngCounts
    <3>5. \A a, b, c \in Nat : ((a + b) + c) - b = a + c /\ a + c \in Nat /\ a + c <= (a + b) + c
      OBVIOUS
    <3>6. CASE t \in alloc
      <4>1. rc[t] = (Column(t)' + Less(i)[t]) + InLists(t, Lists)
        BY <3>2, <3>3, <3>6
      <4>2. rc'[t] = rc[t] - Less(i)[t]
        BY <3>2, <3>6
      <4> QED BY <3>1, <3>2, <3>5, <3>6, <4>1, <4>2
    <3>7. CASE t \notin alloc
      BY <3>1, <3>2, <3>4, <3>7
    <3> QED BY <3>6, <3>7
  <2>6. \A s \in Zeroed(Less(i)) : s \in alloc /\ rc[s] > 0 /\ rc'[s] = 0 /\ s # RootSlot
    <3> SUFFICES ASSUME NEW s \in Zeroed(Less(i))
                 PROVE  s \in alloc /\ rc[s] > 0 /\ rc'[s] = 0 /\ s # RootSlot
      OBVIOUS
    <3>1. s \in alloc /\ rc[s] > 0 /\ Less(i)[s] >= rc[s]
      BY DEF Zeroed
    <3>2. s \in Slots /\ rc[s] \in Nat /\ rc'[s] \in Nat /\ Less(i)[s] \in Nat /\ rc'[s] = rc[s] - Less(i)[s]
      BY <2>4, <2>5, <3>1
    <3>3. \A a, b, c \in Nat : c = a - b /\ b >= a => c = 0
      OBVIOUS
    <3>4. rc[RootSlot] = 0
      BY <1>6 DEF Whole, EngInv, EngCounts
    <3> QED BY <3>1, <3>2, <3>3, <3>4
  <2>7. \A s \in Hits : s \in alloc /\ s \in Slots /\ rc[s] = 0 /\ rc'[s] = 0 /\ s # RootSlot
    <3>1. \A s \in Hits : s \in alloc /\ rc[s] = 0 /\ s # RootSlot
      BY <1>6 DEF Whole, EngInv, EngHits
    <3>2. \A s \in Hits : rc'[s] \in Nat /\ rc'[s] <= 0
      BY <2>4, <2>5, <3>1
    <3>3. \A a \in Nat : a <= 0 => a = 0
      OBVIOUS
    <3> QED BY <2>4, <3>1, <3>2, <3>3
  <2>8. Old' \subseteq Old
    <3>1. \A s \in alloc : rc'[s] > 0 => rc[s] > 0
      <4>1. \A s \in alloc : rc[s] \in Nat /\ rc'[s] \in Nat /\ rc'[s] <= rc[s]
        BY <2>4, <2>5
      <4>2. \A a, b \in Nat : a <= b /\ a > 0 => b > 0
        OBVIOUS
      <4> QED BY <4>1, <4>2
    <3> QED BY <1>0, <1>4, <2>6, <3>1 DEF Old
  <2>9. /\ Monotone(Kept', Pending', Old') /\ Sourced(Kept', Pending', InOrder) /\ Unique(Kept', Pending')
        /\ Reflects(rels, rels \cup dropped, (used \ ents) \cup Dead, Kept', Pending')
    BY <1>0, <1>6, <2>2, <2>3, <2>8, DropsApplied
  <2>10. HistInv'
    BY <2>9 DEF HistInv, InOrder
  <2>11. CatInv'
    BY <1>0, <1>4, <2>9 DEF CatInv
  <2>12. \A v : Current(v)' = Current(v)
    BY <1>0 DEF Current
  <2>13. EngMaps' /\ EngLists'
    BY <1>0, <1>4, <1>6, <2>12 DEF Whole, EngInv, EngMaps, EngLists
  <2>14. EngHits'
    <3>1. ASSUME NEW j \in DOMAIN tasks, NEW k \in DOMAIN tasks, j # k
          PROVE  HitBy(tasks'[j]) \cap HitBy(tasks'[k]) = {}
      <4>1. \A x \in DOMAIN tasks : x # i => \A s \in HitBy(tasks[x]) : rc[s] = 0
        BY <2>7 DEF Hits
      <4>2. \A s \in HitBy(tasks'[i]) : rc[s] > 0 /\ ~ (rc[s] = 0)
        <5>1. \A s \in HitBy(tasks'[i]) : s \in Slots /\ rc[s] > 0
          BY <1>4, <2>4, <2>6
        <5>2. \A s \in HitBy(tasks'[i]) : rc[s] \in Nat
          BY <2>5, <5>1
        <5>3. \A a \in Nat : a > 0 => ~ (a = 0)
          OBVIOUS
        <5> QED BY <5>1, <5>2, <5>3
      <4>3. HitBy(tasks[j]) \cap HitBy(tasks[k]) = {}
        BY <1>6, <3>1 DEF Whole, EngInv, EngHits
      <4> QED BY <1>4, <3>1, <4>1, <4>2, <4>3
    <3>2. \A s \in Hits' : s \in alloc /\ rc'[s] = 0 /\ s # RootSlot
      BY <1>4, <2>6, <2>7
    <3> QED BY <1>0, <1>4, <3>1, <3>2 DEF EngHits
  <2>15. EngCounts'
    <3>1. rc'[RootSlot] = 0
      <4>1. RootSlot \in Slots /\ rc[RootSlot] = 0
        BY <1>6, PipelineOK DEF Whole, EngInv, EngCounts
      <4>2. rc'[RootSlot] \in Nat /\ rc'[RootSlot] <= 0
        BY <2>5, <4>1
      <4>3. \A a \in Nat : a <= 0 => a = 0
        OBVIOUS
      <4> QED BY <4>2, <4>3
    <3> QED BY <1>0, <1>4, <2>4, <2>5, <3>1 DEF EngCounts
  <2> QED BY <2>3, <2>10, <2>11, <2>13, <2>14, <2>15 DEF Whole, EngInv
<1> QED BY <1>0, <1>5, <1>6 DEF Deep

-----------------------------------------------------------------------------
(* execRC.                                                                  *)

\* Only the task in execRC has edge lists to follow.
LEMMA ListsAre ==
    ASSUME Basic, NEW i, NEW q \in {"init", "cascade"}, Turn(i, q)
    PROVE  /\ \A j \in DOMAIN tasks : j # i => tasks[j].lists = {}
           /\ Lists = tasks[i].lists
<1>1. /\ i \in DOMAIN tasks /\ tasks[i].phase = q
      /\ \A j \in 1..(i - 1) : Stage[tasks[j].phase] > Stage[q]
  BY Started
<1>2. DOMAIN tasks = 1..Len(tasks) /\ Len(tasks) \in Nat
  BY TaskTypes DEF Basic, Types
<1>3. Stage[q] = 4 /\ Stage["cascade"] = 4
  BY DEF Stage
<1>4. ASSUME NEW j \in DOMAIN tasks, j # i
      PROVE  tasks[j].lists = {}
  <2>1. j < i \/ i < j
    BY <1>1, <1>2, <1>4
  <2>2. tasks[j].phase # "cascade"
    <3>1. j < i => Stage[tasks[j].phase] > 4
      BY <1>1, <1>2, <1>3, <1>4
    <3>2. i < j => (tasks[j].phase = "cascade" => Stage[q] > 4)
      BY <1>1, <1>4 DEF Basic, TasksFit, Before
    <3> QED BY <1>3, <2>1, <3>1, <3>2
  <2> QED BY <2>2 DEF Basic, TasksFit, TaskFits
<1> QED BY <1>1, <1>4 DEF Lists

Listed(slots) == {s \in slots : out[s] # Nowhere}

Tag(s) == <<Owners({s}), out[s]>>

\* The lists that join those to be processed are tagged with their source.
LEMMA ActiveIs ==
    ASSUME NEW slots, NEW lists
    PROVE  Active(slots, lists) = lists \cup {Tag(s) : s \in Listed(slots)}
BY DEF Active, Listed, Tag

\* A slot in use has one owner.
LEMMA OwnersAre ==
    ASSUME Basic, MapsInv, NEW slots \in SUBSET alloc
    PROVE  /\ Owners(slots) = {oMap[s] : s \in slots}
           /\ \A s \in slots : Tag(s) = <<{oMap[s]}, out[s]>>
           /\ \A s, t \in slots : Tag(s) = Tag(t) => s = t
<1>1. \A s \in slots : s \in DOMAIN oMap
  BY NamesIs
<1>2. Owners(slots) = {oMap[s] : s \in slots}
  BY <1>1 DEF Owners
<1>3. \A s \in slots : Owners({s}) = {oMap[s]}
  BY <1>1 DEF Owners
<1>4. \A s \in slots : Tag(s) = <<{oMap[s]}, out[s]>>
  BY <1>3 DEF Tag
<1>5. \A s, t \in slots : Tag(s) = Tag(t) => s = t
  <2> SUFFICES ASSUME NEW s \in slots, NEW t \in slots, Tag(s) = Tag(t) PROVE s = t
    OBVIOUS
  <2>1. {oMap[s]} = {oMap[t]}
    BY <1>4
  <2>2. oMap[s] = oMap[t]
    BY <2>1
  <2> QED BY <2>2, NamesIs
<1> QED BY <1>2, <1>4, <1>5

\* What is taken leaves the columns ...
LEMMA TakeColumn ==
    ASSUME Basic, NEW slots \in SUBSET Slots, NEW t \in Slots,
           out' = [s \in Slots |-> IF s \in slots THEN Nowhere ELSE out[s]]
    PROVE  /\ Column(t) = Column(t)' + Sum([s \in Slots |-> out[s][t]], Listed(slots))
           /\ Column(t)' \in Nat /\ Sum([s \in Slots |-> out[s][t]], Listed(slots)) \in Nat
<1> DEFINE f == [s \in Slots |-> out[s][t]]
           g == [s \in Slots |-> out'[s][t]]
           some == Listed(slots)
           kept == Slots \ slots
           none == slots \ some
<1>1. \A s \in Slots : f[s] \in Nat
  BY DEF Basic, Types
<1>2. \A s \in kept : g[s] = f[s]
  OBVIOUS
<1>3. \A s \in slots : g[s] = 0
  BY DEF Nowhere
<1>4. \A s \in none : f[s] = 0
  BY DEF Listed, Nowhere
<1>5. Column(t) = Sum(f, Slots) /\ Column(t)' = Sum(g, Slots)
  BY DEF Column, ColumnOf
<1>6. /\ IsFiniteSet(kept) /\ IsFiniteSet(slots) /\ IsFiniteSet(some) /\ IsFiniteSet(none)
      /\ some \in SUBSET slots
      /\ Slots = kept \cup slots /\ kept \cap slots = {} /\ slots = some \cup none /\ some \cap none = {}
  <2>1. some \in SUBSET Slots /\ none \in SUBSET Slots /\ kept \in SUBSET Slots
    BY DEF Listed
  <2> QED BY <2>1, FS_Subset, PipelineOK DEF Listed
<1> HIDE DEF f, g, some, kept, none
<1>7. \A s \in kept \cup slots : f[s] \in Int /\ g[s] \in Int
  BY <1>1, <1>2, <1>3, <1>6
<1>8. Sum(f, kept \cup slots) = Sum(f, kept) + Sum(f, slots)
  BY <1>6, <1>7, SumUnion
<1>9. Sum(g, kept \cup slots) = Sum(g, kept) + Sum(g, slots)
  BY <1>6, <1>7, SumUnion
<1>10. Sum(g, slots) = 0
  BY <1>3, <1>6, SumZero
<1>11. Sum(g, kept) = Sum(f, kept)
  BY <1>2, <1>6, <1>7, SumSame
<1>12. \A s \in some \cup none : f[s] \in Int
  BY <1>6, <1>7
<1>13. Sum(f, some \cup none) = Sum(f, some) + Sum(f, none)
  BY <1>6, <1>12, SumUnion
<1>14. Sum(f, none) = 0
  BY <1>4, <1>6, SumZero
<1>15. \A s \in some : f[s] \in Nat
  BY <1>1, <1>6
<1>16. \A s \in kept : f[s] \in Nat
  BY <1>1, <1>6
<1>17. Sum(f, some) \in Nat /\ Sum(f, kept) \in Nat
  BY <1>6, <1>15, <1>16, SumNat
<1>18. \A a, b \in Nat : a + 0 = a
  OBVIOUS
<1>19. Sum(g, Slots) = Sum(f, kept)
  BY <1>6, <1>9, <1>10, <1>11, <1>17, <1>18
<1>20. Sum(f, slots) = Sum(f, some)
  BY <1>6, <1>13, <1>14, <1>17, <1>18
<1>21. Sum(f, Slots) = Sum(g, Slots) + Sum(f, some)
  BY <1>6, <1>8, <1>19, <1>20
<1> QED BY <1>5, <1>17, <1>19, <1>21 DEF f, some

\* ... and joins the lists to be followed.
LEMMA TakeLists ==
    ASSUME Basic, MapsInv, NEW slots \in SUBSET alloc, NEW t \in Slots,
           NEW rest, IsFiniteSet(rest), \A list \in rest : list[2][t] \in Nat,
           \A list \in rest : \E v \in Dead : list[1] = {v}
    PROVE  /\ InLists(t, Active(slots, rest))
                = InLists(t, rest) + Sum([s \in Slots |-> out[s][t]], Listed(slots))
           /\ InLists(t, rest) \in Nat
<1> DEFINE f == [s \in Slots |-> out[s][t]]
           some == Listed(slots)
           all == Active(slots, rest)
           g == [list \in all |-> list[2][t]]
           k == [list \in rest |-> list[2][t]]
           h == [s \in some |-> Tag(s)]
           image == {h[s] : s \in some}
<1>1. some \in SUBSET slots /\ some \in SUBSET Slots /\ IsFiniteSet(some)
  <2>1. some \in SUBSET slots /\ \A s \in slots : s \in Slots
    BY NamesIs DEF Listed
  <2>2. some \in SUBSET Slots
    BY <2>1
  <2> QED BY <2>1, <2>2, FS_Subset, PipelineOK
<1>2. all = rest \cup image
  BY ActiveIs
<1>3. \A s \in some : h[s] = <<{oMap[s]}, out[s]>>
  BY <1>1, OwnersAre
<1>4. \A s, x \in some : h[s] = h[x] => s = x
  BY <1>1, OwnersAre
<1>5. \A s \in some : f[s] = out[s][t] /\ f[s] \in Nat
  BY <1>1 DEF Basic, Types
<1>6. rest \cap image = {}
  <2> SUFFICES ASSUME NEW s \in some, h[s] \in rest PROVE FALSE
    OBVIOUS
  <2>1. PICK v \in Dead : h[s][1] = {v}
    OBVIOUS
  <2>2. h[s][1] = {oMap[s]}
    BY <1>3
  <2>3. oMap[s] = v /\ s \in alloc
    BY <1>1, <2>1, <2>2
  <2> QED BY <2>1, <2>3, NamesIs
<1>7. \A list \in all : g[list] = list[2][t]
  OBVIOUS
<1>8. \A list \in rest : k[list] = list[2][t]
  OBVIOUS
<1>9. InLists(t, all) = Sum(g, all) /\ InLists(t, rest) = Sum(k, rest)
  BY DEF InLists
<1>10. \A s \in some : h[s] \in image
  OBVIOUS
<1>11. \A list \in image : \E s \in some : list = h[s]
  OBVIOUS
<1> HIDE DEF f, some, all, g, k, h
<1>12. \A s \in some : f[s] = g[h[s]] /\ f[s] \in Int
  BY <1>2, <1>3, <1>5, <1>7, <1>10
<1>13. IsFiniteSet(image) /\ Sum(g, image) = Sum(f, some)
  BY <1>1, <1>4, <1>12, SumImage
<1> HIDE DEF image
<1>14. \A list \in rest \cup image : g[list] \in Int
  BY <1>2, <1>7, <1>11, <1>12
<1>15. Sum(g, rest \cup image) = Sum(g, rest) + Sum(g, image)
  BY <1>6, <1>13, <1>14, SumUnion
<1>16. \A list \in rest : k[list] \in Int /\ k[list] = g[list]
  BY <1>2, <1>7, <1>8
<1>17. Sum(k, rest) = Sum(g, rest)
  BY <1>16, SumSame
<1>18. \A list \in rest : k[list] \in Nat
  BY <1>8
<1>19. Sum(k, rest) \in Nat
  BY <1>18, SumNat
<1> QED BY <1>2, <1>9, <1>13, <1>15, <1>17, <1>19 DEF f, some, all

\* What a take finds: the slots it takes were referred to once, and neither edge
\* lists nor the lists that remain refer to them; the others count what remains.
Spent(t, rest) ==
    /\ t # RootSlot /\ oMap[t] \in Old
    /\ \A s \in Slots : out[s][t] = 0
    /\ \A list \in rest : list[2][t] = 0

Justified(i, slots, rest, counts) ==
    /\ \A t \in slots : Spent(t, rest)
    /\ \A j \in DOMAIN tasks : j # i => HitBy(tasks[j]) \cap slots = {}
    /\ \A t \in alloc \ slots : counts[t] = Column(t) + InLists(t, rest)
    /\ \A t \in Slots : counts[t] <= rc[t] /\ (t \notin alloc \ slots => counts[t] = 0)

\* The history loses what is cut off.
LEMMA TakenHistory ==
    ASSUME Basic, MapsInv, Whole, NEW slots \in SUBSET alloc, NEW rest, \A t \in slots : Spent(t, rest),
           NEW L, L \subseteq Kept, \A e \in Kept : e \in L \/ e[1] \in Owners(slots),
           NEW P, P \subseteq Old
    PROVE  /\ Monotone(L, Pending, P) /\ Sourced(L, Pending, InOrder) /\ Unique(L, Pending)
           /\ Reflects(rels, rels \cup dropped, (used \ ents) \cup (Dead \cup Owners(slots)), L, Pending)
<1> DEFINE K == Kept
           U == Pending
           T == Owners(slots)
<1>1. U \in SUBSET Operation /\ K \in SUBSET Schema
  BY PendingIs, KeptIs DEF Whole, EngInv
<1>2. \A v \in T : CutOff(v, K, U)
  <2> SUFFICES ASSUME NEW v \in T PROVE CutOff(v, K, U)
    OBVIOUS
  <2>1. PICK t \in slots : v = oMap[t]
    BY OwnersAre
  <2>2. t \in alloc /\ oMap[t] \in Old /\ t # RootSlot /\ \A s \in alloc : out[s][t] = 0
    BY NamesIs DEF Spent
  <2> QED BY <2>1, <2>2, ForgottenIsCutOff
<1>3. /\ Monotone(K, U, Old) /\ Sourced(K, U, InOrder) /\ Unique(K, U)
      /\ Reflects(rels, rels \cup dropped, (used \ ents) \cup Dead, K, U)
  BY DEF Whole, HistInv, CatInv
<1>4. \A e \in K : e[1] \in T \/ e \in L
  OBVIOUS
<1> HIDE DEF K, U, T
<1>5. L \in SUBSET K
  BY DEF K
<1>6. Shift(K, U, Old, L, U, P, {})
  BY <1>1, <1>2, <1>4, <1>5, TakeShift
<1>7. Monotone(L, U, P)
  BY <1>3, <1>6, ShiftMonotone
<1>8. Sourced(L, U, InOrder)
  <2>1. \A r \in U, x \in {} : (r.op = "add" \/ InOrder) /\ x.op = "drop" => x.id < r.id
    OBVIOUS
  <2>2. \A x \in U : x \in U \/ x \in {}
    OBVIOUS
  <2> QED BY <1>1, <1>3, <1>6, <2>1, <2>2, ShiftSourced
<1>9. Unique(L, U)
  <2>1. L \subseteq K \cup AddsOf(U \ U)
    BY <1>5
  <2> QED BY <1>3, <2>1, ShiftUnique
<1>10. Reflects(rels, rels \cup dropped, (used \ ents) \cup (Dead \cup T), L, U)
  <2>1. \A v : CutOff(v, K, U) => CutOff(v, L, U)
    BY <1>6, ShiftCutOff
  <2>2. \A e \in K \cup AddsOf(U) :
           \/ e \in L \cup AddsOf(U) \/ CutOff(e[1], L, U)
           \/ e \notin rels /\ (e \in DropsOf(U) => e[1] = Root)
    BY <1>2, <1>4, <2>1
  <2>3. \A v \in (used \ ents) \cup (Dead \cup T) : v \in (used \ ents) \cup Dead \/ CutOff(v, L, U)
    BY <1>2, <2>1
  <2>4. L \cup AddsOf(U) \subseteq K \cup AddsOf(U)
    BY <1>5
  <2> QED BY <1>3, <2>1, <2>2, <2>3, <2>4, ReflectsShift
<1> QED BY <1>7, <1>8, <1>9, <1>10 DEF K, U, T

\* execRC keeps the history, the catalog and the counts when what it takes has no
\* reference left, in an edge list or in a list to be processed.
LEMMA TakeWhole ==
    ASSUME Basic, MapsInv, Whole, NEW i, NEW q \in {"init", "cascade"}, Turn(i, q),
           NEW slots \in SUBSET alloc, NEW rest \in SUBSET tasks[i].lists,
           Take(i, slots, rest), rc' \in [Slots -> Int], Justified(i, slots, rest, rc'),
           NEW p \in {"sources", "cascade"},
           Becomes(i, p, tasks[i].fresh, tasks[i].hit, Active(slots, rest), tasks[i].dead \cup Owners(slots)),
           UNCHANGED <<ents, rels, dropped, used, log, rows, iMap, oMap, lost>>
    PROVE  Whole'
<1> DEFINE T == Owners(slots)
           active == Active(slots, rest)
<1>1. /\ i \in DOMAIN tasks /\ DOMAIN tasks' = DOMAIN tasks
      /\ \A j \in DOMAIN tasks : j # i => tasks'[j] = tasks[j]
      /\ tasks'[i].phase = p /\ tasks'[i].lists = active /\ tasks'[i].dead = tasks[i].dead \cup T
      /\ tasks[i].phase = q
  BY Started DEF Becomes
<1>2. /\ alloc' = alloc \ slots
      /\ out' = [s \in Slots |-> IF s \in slots THEN Nowhere ELSE out[s]]
  BY DEF Take
<1>3. \A s \in alloc : s \in Slots
  BY NamesIs
<1>4. T = {oMap[s] : s \in slots} /\ \A s \in slots : Tag(s) = <<{oMap[s]}, out[s]>>
  BY OwnersAre
<1>5. active = rest \cup {Tag(s) : s \in Listed(slots)}
  BY ActiveIs
<1> HIDE DEF T, active
<1>6. (\A j \in DOMAIN tasks : j # i => tasks[j].lists = {}) /\ Lists = tasks[i].lists
  BY ListsAre
<1>7. Lists' = active
  BY <1>1, <1>6 DEF Lists
<1>8. Dead' = Dead \cup T
  <2>1. \A v : v \in Dead <=> \E j \in DOMAIN tasks : v \in tasks[j].dead
    BY DEF Dead
  <2>2. \A v : v \in Dead' <=> \E j \in DOMAIN tasks : v \in tasks'[j].dead
    BY <1>1 DEF Dead
  <2>3. \A v : v \in Dead' <=> v \in Dead \cup T
    BY <1>1, <2>1, <2>2
  <2> QED BY <2>3
<1>9. /\ HitBy(tasks'[i]) = {} /\ \A j \in DOMAIN tasks : j # i => HitBy(tasks'[j]) = HitBy(tasks[j])
      /\ \A s \in Hits' : s \in Hits /\ s \notin slots
  <2>1. HitBy(tasks'[i]) = {} /\ \A j \in DOMAIN tasks : j # i => HitBy(tasks'[j]) = HitBy(tasks[j])
    BY <1>1 DEF HitBy
  <2> QED BY <1>1, <2>1 DEF Hits, Justified
<1>10. \A t \in slots : Spent(t, rest)
  BY DEF Justified
<1>11. \A s, t \in Slots : out[s][t] > 0 => s \in alloc /\ t \in alloc /\ t \notin slots
  <2>1. \A s, t \in Slots : out[s][t] > 0 => s \in alloc /\ t \in alloc
    BY DEF Whole, EngInv, EngOut
  <2>2. \A s \in Slots, t \in slots : out[s][t] = 0
    BY <1>10 DEF Spent
  <2> QED BY <2>1, <2>2
<1>12. \A s, t \in Slots : /\ s \in slots => out'[s][t] = 0
                           /\ s \notin slots => out'[s][t] = out[s][t]
  BY <1>2 DEF Nowhere
<1>13. Kept' \subseteq Kept /\ \A e \in Kept : e \in Kept' \/ e[1] \in T
  <2>1. \A e : e \in Kept' <=> \E s, t \in alloc' : out'[s][t] > 0 /\ e = <<oMap[s], oMap[t]>>
    BY HeldIs DEF Kept
  <2>2. \A e : e \in Kept <=> \E s, t \in alloc : out[s][t] > 0 /\ e = <<oMap[s], oMap[t]>>
    BY HeldIs DEF Kept
  <2>3. Kept' \subseteq Kept
    BY <1>2, <1>3, <1>12, <2>1, <2>2
  <2>4. ASSUME NEW e \in Kept PROVE e \in Kept' \/ e[1] \in T
    <3>1. PICK s, t \in alloc : out[s][t] > 0 /\ e = <<oMap[s], oMap[t]>>
      BY <2>2
    <3>2. CASE s \in slots
      BY <1>4, <3>1, <3>2
    <3>3. CASE s \notin slots
      BY <1>2, <1>3, <1>11, <1>12, <2>1, <3>1, <3>3
    <3> QED BY <3>2, <3>3
  <2> QED BY <2>3, <2>4
<1>14. \A t \in Slots : rc'[t] \in Int /\ rc[t] \in Nat /\ rc'[t] <= rc[t]
  BY CountsAreNat DEF Justified
<1>15. Old' \subseteq Old
  <2>1. \A s \in alloc' : rc'[s] > 0 => rc[s] > 0
    <3>1. \A a \in Int, b \in Nat : a <= b /\ a > 0 => b > 0
      OBVIOUS
    <3> QED BY <1>2, <1>3, <1>14, <3>1
  <2>2. \A v \in T : v \in Old
    BY <1>4, <1>10 DEF Spent
  <2>3. \A v \in Old' : v \in Dead' \/ \E s \in alloc' : v = oMap[s] /\ (rc'[s] > 0 \/ s \in Hits')
    BY DEF Old
  <2>4. \A v \in Dead : v \in Old
    BY DEF Old
  <2>5. \A s \in alloc : rc[s] > 0 \/ s \in Hits => oMap[s] \in Old
    BY DEF Old
  <2> QED BY <1>2, <1>8, <1>9, <2>1, <2>2, <2>3, <2>4, <2>5
<1>16. Pending' = Pending
  <2>1. {p, tasks[i].phase} \cap {"maps", "adds", "deletes"} = {}
    BY <1>1
  <2> QED BY <2>1, MovePending
<1>17. /\ Monotone(Kept', Pending, Old') /\ Sourced(Kept', Pending, InOrder) /\ Unique(Kept', Pending)
       /\ Reflects(rels, rels \cup dropped, (used \ ents) \cup (Dead \cup T), Kept', Pending)
  BY <1>10, <1>13, <1>15, TakenHistory DEF T
<1>18. HistInv'
  BY <1>16, <1>17 DEF HistInv, InOrder
<1>19. CatInv'
  BY <1>8, <1>16, <1>17 DEF CatInv
<1>20. EngMaps'
  <2>1. RootSlot \in alloc' /\ oMap[RootSlot] = Root
    BY <1>2, <1>10 DEF Whole, EngInv, EngMaps, Spent
  <2>2. ASSUME NEW v \in DOMAIN iMap PROVE Current(v)' \/ v \in Dead'
    <3>1. CASE v \in Dead
      BY <1>8, <3>1
    <3>2. CASE v \notin Dead
      <4>1. iMap[v] \in alloc /\ oMap[iMap[v]] = v
        BY <3>2 DEF Whole, EngInv, EngMaps, Current
      <4>2. iMap[v] \in slots => v \in T
        BY <1>4, <4>1
      <4> QED BY <1>2, <1>8, <4>1, <4>2 DEF Current
    <3> QED BY <3>1, <3>2
  <2> QED BY <2>1, <2>2 DEF EngMaps
<1>21. EngOut'
  <2>1. ASSUME NEW s \in Slots, NEW t \in Slots
        PROVE  /\ out'[s][t] \in {0, 1}
               /\ out'[s][t] > 0 => s \in alloc' /\ t \in alloc' /\ <<oMap[s], oMap[t]>> \in Schema
    <3>1. out[s][t] \in {0, 1} /\ (out[s][t] > 0 => <<oMap[s], oMap[t]>> \in Schema)
      BY DEF Whole, EngInv, EngOut
    <3>2. CASE s \in slots
      BY <1>12, <3>2
    <3>3. CASE s \notin slots
      BY <1>2, <1>11, <1>12, <3>1, <3>3
    <3> QED BY <3>2, <3>3
  <2> QED BY <2>1 DEF EngOut
<1>22. EngLists'
  <2>1. ASSUME NEW list \in active
        PROVE  /\ \E v \in tasks[i].dead \cup T : list[1] = {v}
               /\ \A t \in Slots : list[2][t] > 0 => t \in alloc'
    <3>1. CASE list \in rest
      <4>1. /\ \E v \in tasks[i].dead : list[1] = {v}
            /\ \A t \in Slots : list[2][t] > 0 => t \in alloc
        BY <1>1, <3>1 DEF Whole, EngInv, EngLists
      <4>2. \A t \in slots : list[2][t] = 0
        BY <1>10, <3>1 DEF Spent
      <4> QED BY <1>2, <4>1, <4>2
    <3>2. CASE list \notin rest
      <4>1. PICK s \in Listed(slots) : list = Tag(s)
        BY <1>5, <3>2
      <4>2. s \in slots /\ s \in Slots /\ list = <<{oMap[s]}, out[s]>>
        BY <1>3, <1>4, <4>1 DEF Listed
      <4>3. oMap[s] \in T /\ list[1] = {oMap[s]} /\ list[2] = out[s]
        BY <1>4, <4>2
      <4> QED BY <1>2, <1>11, <4>2, <4>3
    <3> QED BY <3>1, <3>2
  <2> QED BY <1>1, <1>6, <2>1 DEF EngLists
<1>23. \A t \in alloc' : rc'[t] = Column(t)' + InLists(t, active)
  <2> SUFFICES ASSUME NEW t \in alloc' PROVE rc'[t] = Column(t)' + InLists(t, active)
    OBVIOUS
  <2>1. t \in Slots /\ t \in alloc \ slots
    BY <1>2, <1>3
  <2>2. rc'[t] = Column(t) + InLists(t, rest)
    BY <2>1 DEF Justified
  <2> DEFINE moved == Sum([s \in Slots |-> out[s][t]], Listed(slots))
  <2>3. Column(t) = Column(t)' + moved /\ Column(t)' \in Nat /\ moved \in Nat
    <3>1. slots \in SUBSET Slots
      BY <1>3
    <3> QED BY <1>2, <2>1, <3>1, TakeColumn
  <2>4. InLists(t, active) = InLists(t, rest) + moved /\ InLists(t, rest) \in Nat
    <3>1. IsFiniteSet(rest) /\ \A list \in rest : list[2][t] \in Nat
      <4>1. IsFiniteSet(tasks[i].lists) /\ \A list \in tasks[i].lists : list[2][t] \in Nat
        BY <1>1, <2>1, ListsTypes
      <4> QED BY <4>1, FS_Subset
    <3>2. \A list \in rest : \E v \in Dead : list[1] = {v}
      BY <1>1 DEF Whole, EngInv, EngLists, Dead
    <3> QED BY <2>1, <3>1, <3>2, TakeLists DEF active
  <2> HIDE DEF moved
  <2>5. \A a, b, c \in Nat : (a + b) + c = a + (c + b)
    OBVIOUS
  <2> QED BY <2>2, <2>3, <2>4, <2>5
<1>24. \A t \in Slots : rc'[t] \in Nat
  <2>1. \A t \in Slots : t \notin alloc' => rc'[t] = 0
    BY <1>2 DEF Justified
  <2>2. ASSUME NEW t \in alloc' PROVE rc'[t] \in Nat
    <3>1. t \in Slots /\ t \in alloc \ slots
      BY <1>2, <1>3
    <3>2. rc'[t] = Column(t) + InLists(t, rest)
      BY <3>1 DEF Justified
    <3>3. IsFiniteSet(rest) /\ \A list \in rest : list[2][t] \in Nat
      <4>1. IsFiniteSet(tasks[i].lists) /\ \A list \in tasks[i].lists : list[2][t] \in Nat
        BY <1>1, <3>1, ListsTypes
      <4> QED BY <4>1, FS_Subset
    <3>4. \A list \in rest : \E v \in Dead : list[1] = {v}
      BY <1>1 DEF Whole, EngInv, EngLists, Dead
    <3>5. Column(t) \in Nat /\ InLists(t, rest) \in Nat
      BY <3>1, <3>3, <3>4, CountsAreNat, TakeLists
    <3>6. \A a, b \in Nat : a + b \in Nat
      OBVIOUS
    <3> QED BY <3>2, <3>5, <3>6
  <2> QED BY <2>1, <2>2
<1>25. \A t \in Slots : rc[t] = 0 => rc'[t] = 0
  <2>1. \A a \in Nat : a <= 0 => a = 0
    OBVIOUS
  <2> QED BY <1>14, <1>24, <2>1
<1>26. EngHits'
  <2>1. \A s \in Hits' : s \in alloc' /\ rc'[s] = 0 /\ s # RootSlot
    BY <1>2, <1>3, <1>9, <1>25 DEF Whole, EngInv, EngHits
  <2>2. \A j, k \in DOMAIN tasks : j # k => HitBy(tasks'[j]) \cap HitBy(tasks'[k]) = {}
    BY <1>9 DEF Whole, EngInv, EngHits
  <2> QED BY <1>1, <2>1, <2>2 DEF EngHits
<1>27. EngCounts'
  <2>1. rc'[RootSlot] = 0
    BY <1>25, PipelineOK DEF Whole, EngInv, EngCounts
  <2>2. \A s \in Slots : s \notin alloc' => rc'[s] = 0
    BY <1>2 DEF Justified
  <2> QED BY <1>7, <1>23, <2>1, <2>2 DEF EngCounts
<1> QED BY <1>18, <1>19, <1>20, <1>21, <1>22, <1>26, <1>27 DEF Whole, EngInv

\* The task after execRC has taken some slots.
LEMMA TakeIs ==
    ASSUME Basic, NEW i, NEW q \in {"init", "cascade"}, Turn(i, q),
           NEW slots \in SUBSET alloc, NEW rest \in SUBSET tasks[i].lists, Take(i, slots, rest)
    PROVE  Becomes(i, AfterTake(Active(slots, rest)), tasks[i].fresh, tasks[i].hit,
                   Active(slots, rest), tasks[i].dead \cup Owners(slots))
<1> DEFINE active == Active(slots, rest)
<1>1. i \in DOMAIN tasks /\ tasks \in Seq(Task) /\ slots \in SUBSET Slots
  BY Started DEF Basic, Types
<1>2. rest \in SUBSET ((SUBSET Vertices) \X [Slots -> Nat]) /\ IsFiniteSet(rest)
  <2>1. IsFiniteSet(tasks[i].lists)
    BY <1>1, ListsTypes
  <2> QED BY <1>1, <2>1, TaskTypes, FS_Subset
<1>3. Owners(slots) \in SUBSET Vertices /\ active \in SUBSET ((SUBSET Vertices) \X [Slots -> Nat])
  BY <1>1, <1>2, ActiveTypes
<1> QED BY <1>1, <1>3, TakeBecomes

\* The same, for as long as nothing is lost.
LEMMA TakeDeep ==
    ASSUME Basic, MapsInv, Deep, NEW i, NEW q \in {"init", "cascade"}, Turn(i, q),
           NEW slots \in SUBSET alloc, NEW rest \in SUBSET tasks[i].lists,
           Take(i, slots, rest), rc' \in [Slots -> Int], Whole => Justified(i, slots, rest, rc'),
           UNCHANGED <<ents, rels, dropped, used, log, rows, iMap, oMap, lost>>
    PROVE  Deep'
<1> DEFINE active == Active(slots, rest)
           p == AfterTake(active)
<1>4. Becomes(i, p, tasks[i].fresh, tasks[i].hit, active, tasks[i].dead \cup Owners(slots))
  BY TakeIs
<1>5. p \in {"sources", "cascade"} /\ p \notin {"clear", "maps"} /\ p # "adds"
  BY DEF AfterTake
<1> HIDE DEF p
<1>6. EndsFound => EndsFound'
  BY <1>4, <1>5, MoveEnds
<1>7. Whole => Whole'
  BY <1>4, <1>5, TakeWhole
<1> QED BY <1>6, <1>7 DEF Deep

\* The slots that were hit have no reference left.
LEMMA StartDeep ==
    ASSUME Basic, MapsInv, Deep, NEW i, Start(i)
    PROVE  Deep'
<1> DEFINE slots == tasks[i].hit \cap alloc
<1>1. Turn(i, "init") /\ UNCHANGED <<ents, rels, dropped, used, log, rows, iMap, oMap, lost>>
  BY DEF Start, catalogVars, mapVars
<1>2. Take(i, slots, {}) /\ rc' = [s \in Slots |-> IF s \in slots THEN 0 ELSE rc[s]]
  BY DEF Start
<1>3. rc' \in [Slots -> Int]
  BY <1>2 DEF Basic, Types
<1>4. i \in DOMAIN tasks /\ tasks[i].phase = "init" /\ tasks[i].lists = {}
  BY <1>1, Started
<1>5. HitBy(tasks[i]) = tasks[i].hit /\ \A s \in slots : s \in Hits /\ s \in HitBy(tasks[i])
  BY <1>4 DEF HitBy, Hits
<1>6. \A s \in slots : s \in alloc
  OBVIOUS
<1> HIDE DEF slots
<1>7. ASSUME Whole PROVE Justified(i, slots, {}, rc')
  <2>1. Lists = {}
    BY <1>1, <1>4, ListsAre
  <2>2. ASSUME NEW t \in slots PROVE Spent(t, {})
    <3>1. t \in alloc /\ rc[t] = 0 /\ t # RootSlot
      BY <1>5, <1>7 DEF Whole, EngInv, EngHits
    <3>2. oMap[t] \in Old
      BY <1>5, <3>1 DEF Old
    <3>3. \A s \in Slots : out[s][t] = 0
      BY <1>7, <3>1, <3>2, ZeroIsCutOff
    <3> QED BY <3>1, <3>2, <3>3 DEF Spent
  <2>3. \A j \in DOMAIN tasks : j # i => HitBy(tasks[j]) \cap slots = {}
    BY <1>4, <1>5, <1>7 DEF Whole, EngInv, EngHits
  <2>4. \A t \in alloc : t \in Slots
    BY NamesIs
  <2>5. \A t \in alloc \ slots : rc'[t] = Column(t) + InLists(t, {})
    BY <1>2, <1>7, <2>1, <2>4 DEF Whole, EngInv, EngCounts
  <2>6. \A t \in Slots : rc'[t] <= rc[t] /\ (t \notin alloc \ slots => rc'[t] = 0)
    <3>1. \A t \in Slots : rc[t] \in Nat /\ (t \notin alloc => rc[t] = 0)
      BY <1>7, CountsAreNat DEF Whole, EngInv, EngCounts
    <3>2. \A a \in Nat : 0 <= a /\ a <= a
      OBVIOUS
    <3> QED BY <1>2, <3>1, <3>2
  <2> QED BY <2>2, <2>3, <2>5, <2>6 DEF Justified
<1>8. slots \in SUBSET alloc /\ {} \in SUBSET tasks[i].lists
  BY <1>6
<1> QED BY <1>1, <1>2, <1>3, <1>7, <1>8, TakeDeep

\* The slots that lose their last reference with a list have none left.
LEMMA CascadeDeep ==
    ASSUME Basic, MapsInv, Deep, NEW i, Cascade(i)
    PROVE  Deep'
<1>1. Turn(i, "cascade") /\ UNCHANGED <<ents, rels, dropped, used, log, rows, iMap, oMap, lost>>
  BY DEF Cascade, catalogVars, mapVars
<1>2. PICK list \in tasks[i].lists :
        /\ Take(i, Zeroed(list[2]), tasks[i].lists \ {list})
        /\ rc' = [t \in Slots |-> IF t \in Zeroed(list[2]) THEN 0
                                  ELSE IF t \in alloc THEN rc[t] - list[2][t] ELSE rc[t]]
  BY DEF Cascade
<1> DEFINE less == list[2]
           slots == Zeroed(less)
           rest == tasks[i].lists \ {list}
<1>3. rc' \in [Slots -> Int]
  BY CascadeBasic DEF Basic, Types
<1>4. i \in DOMAIN tasks /\ tasks[i].phase = "cascade" /\ Lists = tasks[i].lists
  BY <1>1, Started, ListsAre
<1>5. slots \in SUBSET alloc /\ \A t \in slots : rc[t] > 0 /\ less[t] >= rc[t] /\ t \in alloc
  BY DEF Zeroed
<1>6. \A t \in alloc : t \in slots \/ ~ (rc[t] > 0 /\ less[t] >= rc[t])
  BY DEF Zeroed
<1>7. ASSUME Whole PROVE Justified(i, slots, rest, rc')
  <2>1. \A t \in alloc : t \in Slots
    BY NamesIs
  <2>2. IsFiniteSet(tasks[i].lists) /\ IsFiniteSet(rest)
        /\ \A l \in tasks[i].lists : \A t \in Slots : l[2][t] \in Nat
    <3>1. IsFiniteSet(tasks[i].lists)
      BY <1>4, ListsTypes
    <3> QED BY <1>4, <3>1, ListsTypes, FS_RemoveElement
  <2>3. ASSUME NEW t \in alloc
        PROVE  /\ rc[t] = (Column(t) + InLists(t, rest)) + less[t]
               /\ Column(t) \in Nat /\ InLists(t, rest) \in Nat /\ less[t] \in Nat
    <3> DEFINE g == [l \in tasks[i].lists |-> l[2][t]]
               k == [l \in rest |-> l[2][t]]
    <3>1. \A l \in tasks[i].lists : g[l] = l[2][t] /\ g[l] \in Nat
      BY <2>1, <2>2
    <3>2. \A l \in rest : k[l] = l[2][t] /\ k[l] \in Nat /\ l \in tasks[i].lists
      BY <2>1, <2>2
    <3>3. InLists(t, tasks[i].lists) = Sum(g, tasks[i].lists) /\ InLists(t, rest) = Sum(k, rest)
      BY DEF InLists
    <3>4. tasks[i].lists \ {list} = rest
      OBVIOUS
    <3> HIDE DEF g, k, rest
    <3>5. Sum(g, tasks[i].lists) = g[list] + Sum(g, tasks[i].lists \ {list})
      <4>1. \A l \in tasks[i].lists : g[l] \in Int
        BY <3>1
      <4> QED BY <2>2, <4>1, SumTakes
    <3>6. Sum(k, rest) = Sum(g, rest)
      <4>1. \A l \in rest : k[l] \in Int /\ k[l] = g[l]
        BY <3>1, <3>2
      <4> QED BY <2>2, <4>1, SumSame
    <3>7. Sum(k, rest) \in Nat
      BY <2>2, <3>2, SumNat
    <3>8. Column(t) \in Nat /\ rc[t] = Column(t) + InLists(t, tasks[i].lists)
      BY <1>4, <1>7, <2>1, CountsAreNat DEF Whole, EngInv, EngCounts
    <3>9. g[list] = less[t] /\ less[t] \in Nat
      BY <3>1
    <3>10. \A a, b, c \in Nat : a + (c + b) = (a + b) + c
      OBVIOUS
    <3> HIDE DEF less, slots
    <3>11. rc[t] = Column(t) + (less[t] + InLists(t, rest))
      BY <3>3, <3>4, <3>5, <3>6, <3>8, <3>9
    <3>12. InLists(t, rest) \in Nat
      BY <3>3, <3>7
    <3> QED BY <3>8, <3>9, <3>10, <3>11, <3>12
  <2> HIDE DEF slots, rest, less
  <2>4. ASSUME NEW t \in slots PROVE Spent(t, rest)
    <3>1. t \in alloc /\ rc[t] > 0 /\ less[t] >= rc[t] /\ t \in Slots
      BY <1>5, <2>1
    <3>2. t # RootSlot
      <4>1. rc[RootSlot] = 0
        BY <1>7 DEF Whole, EngInv, EngCounts
      <4> QED BY <3>1, <4>1
    <3>3. oMap[t] \in Old
      BY <3>1 DEF Old
    <3>4. Column(t) + InLists(t, rest) = 0
      <4>1. \A a, b, c \in Nat : b >= (a + c) + b => a + c = 0
        OBVIOUS
      <4>2. Column(t) \in Nat /\ InLists(t, rest) \in Nat /\ less[t] \in Nat
            /\ less[t] >= (Column(t) + InLists(t, rest)) + less[t]
        BY <2>3, <3>1
      <4> QED BY <4>1, <4>2
    <3>5. \A l \in rest : l[2][t] \in Nat
      BY <2>2, <3>1 DEF rest
    <3>6. (\A s \in Slots : out[s][t] = 0) /\ \A l \in rest : l[2][t] = 0
      BY <1>7, <2>2, <3>1, <3>4, <3>5, ZeroIsZero
    <3> QED BY <3>2, <3>3, <3>6 DEF Spent
  <2>5. \A j \in DOMAIN tasks : j # i => HitBy(tasks[j]) \cap slots = {}
    <3>1. \A s \in Hits : rc[s] = 0
      BY <1>7 DEF Whole, EngInv, EngHits
    <3>2. \A s \in slots : ~ (rc[s] = 0)
      BY <1>5
    <3> QED BY <3>1, <3>2 DEF Hits
  <2>6. \A t \in Slots : rc'[t] = IF t \in slots THEN 0 ELSE IF t \in alloc THEN rc[t] - less[t] ELSE rc[t]
    BY <1>2 DEF slots, less
  <2>7. ASSUME NEW t \in alloc \ slots
        PROVE  rc'[t] = Column(t) + InLists(t, rest) /\ rc'[t] <= rc[t]
    <3>1. rc'[t] = rc[t] - less[t]
      BY <2>1, <2>6
    <3>2. /\ rc[t] = (Column(t) + InLists(t, rest)) + less[t]
          /\ Column(t) \in Nat /\ InLists(t, rest) \in Nat /\ less[t] \in Nat
      BY <2>3
    <3>3. \A a, b, c \in Nat : ((a + b) + c) - c = a + b /\ a + b <= (a + b) + c
      OBVIOUS
    <3> QED BY <3>1, <3>2, <3>3
  <2>8. \A t \in Slots : rc'[t] <= rc[t] /\ (t \notin alloc \ slots => rc'[t] = 0)
    <3>1. \A t \in Slots : rc[t] \in Nat /\ (t \notin alloc => rc[t] = 0)
      BY <1>7, CountsAreNat DEF Whole, EngInv, EngCounts
    <3>2. \A a \in Nat : 0 <= a /\ a <= a
      OBVIOUS
    <3> QED BY <2>6, <2>7, <3>1, <3>2
  <2> QED BY <2>4, <2>5, <2>7, <2>8 DEF Justified
<1>8. rest \in SUBSET tasks[i].lists /\ Take(i, slots, rest)
  BY <1>2
<1> HIDE DEF slots, rest, less
<1> QED BY <1>1, <1>3, <1>5, <1>7, <1>8, TakeDeep

-----------------------------------------------------------------------------
(* All steps.                                                               *)

\* What clients do keeps the history.
LEMMA ClientDeep ==
    ASSUME Basic, MapsInv, Deep, NEW e \in Schema, Refer(e) \/ DropRel(e) \/ DropRoot(e)
    PROVE  Deep'
<1>1. UNCHANGED <<iMap, oMap, alloc, rc, out, tasks>> /\ lost' = lost
  BY ClientIs
<1>2. EndsFound => EndsFound'
  BY <1>1, EngineStays
<1>3. Whole => Whole'
  BY ReferWhole, DropWhole
<1> QED BY <1>1, <1>2, <1>3 DEF Deep

\* Nothing changes for those who stutter.
LEMMA StutterDeep ==
    ASSUME Deep, UNCHANGED vars
    PROVE  Deep'
<1>1. UNCHANGED <<ents, rels, dropped, used, log, iMap, oMap, alloc, rc, out, tasks, lost>>
  BY DEF vars, catalogVars, mapVars, engineVars
<1>2. /\ Kept' = Kept /\ Old' = Old /\ Dead' = Dead
      /\ EngInv => EngInv'
      /\ EndsFound => EndsFound'
  BY <1>1, EngineStays
<1>3. Pending' = Pending
  BY <1>1 DEF Pending, PendingRows
<1>4. Whole => Whole'
  BY <1>1, <1>2, <1>3 DEF Whole, HistInv, CatInv
<1> QED BY <1>1, <1>2, <1>4 DEF Deep

\* The stages keep the history.
LEMMA StagesDeep ==
    ASSUME Ordered, Basic, MapsInv, Deep, NEW i, Stages(i)
    PROVE  Deep'
BY StoreDeep, ClearDeep, MapsDeep, AddsDeep, DeletesDeep, StartDeep, CascadeDeep,
   CommitDeep, PostDeep DEF Stages

\* Every step keeps the history.
LEMMA NextDeep ==
    ASSUME Ordered, Basic, MapsInv, Deep, [Next]_vars
    PROVE  Deep'
<1>1. CASE Client
  BY <1>1, ClientDeep DEF Client
<1>2. CASE Ingest
  BY <1>2, IngestDeep
<1>3. CASE \E i \in 1..MaxTasks : Stages(i) \/ Fail(i)
  BY <1>3, StagesDeep, FailDeep
<1>4. CASE UNCHANGED vars
  BY <1>4, StutterDeep
<1> QED BY <1>1, <1>2, <1>3, <1>4 DEF Next

\* At first there are the root and its slot, and no history.
LEMMA InitDeep == Init => Deep
<1> SUFFICES ASSUME Init PROVE Deep
  OBVIOUS
<1>1. /\ ents = {} /\ rels = {} /\ dropped = {} /\ used = {} /\ log = {}
      /\ tasks = <<>> /\ DOMAIN tasks = {} /\ alloc = {RootSlot}
      /\ iMap = [v \in {Root} |-> RootSlot] /\ oMap = [s \in {RootSlot} |-> Root]
  BY DEF Init
<1>2. Dead = {} /\ Lists = {} /\ Hits = {}
  BY <1>1 DEF Dead, Lists, Hits
<1>3. Pending = {}
  BY <1>1 DEF Pending, PendingRows, Ops
<1>4. \A s, t \in Slots : rc[s] = 0 /\ out[s][t] = 0
  BY DEF Init, Nowhere
<1>5. Old = {}
  BY <1>1, <1>2, <1>4, PipelineOK DEF Old
<1>6. Kept = {}
  <2>1. \A e : e \in Kept <=> \E s, t \in alloc : out[s][t] > 0 /\ e = <<oMap[s], oMap[t]>>
    BY HeldIs DEF Kept
  <2> QED BY <1>1, <1>4, <2>1, PipelineOK
<1>7. HistInv
  <2>1. Monotone({}, {}, {})
    BY DEF Monotone
  <2>2. Sourced({}, {}, InOrder) /\ Unique({}, {})
    BY DEF Sourced, Unique
  <2> QED BY <1>3, <1>5, <1>6, <2>1, <2>2 DEF HistInv
<1>8. CatInv
  <2>1. Reflects({}, {}, {}, {}, {})
    BY DEF Reflects, AddsOf, DropsOf
  <2>2. rels \cup dropped = {} /\ (used \ ents) \cup Dead = {}
    BY <1>1, <1>2
  <2> QED BY <1>1, <1>3, <1>6, <2>1, <2>2 DEF CatInv
<1>9. EngInv
  <2>1. EngMaps
    BY <1>1 DEF EngMaps, Current
  <2>2. EngOut
    BY <1>4 DEF EngOut
  <2>3. EngLists /\ EngHits
    BY <1>1, <1>2 DEF EngLists, EngHits
  <2>4. EngCounts
    <3>1. \A t \in Slots : Column(t) = 0 /\ InLists(t, Lists) = 0
      BY <1>2, <1>4, InitBasic, NothingCounted, FS_EmptySet
    <3> QED BY <1>1, <1>4, <3>1, PipelineOK DEF EngCounts
  <2> QED BY <2>1, <2>2, <2>3, <2>4 DEF EngInv
<1>10. EndsFound
  BY <1>1 DEF EndsFound
<1> QED BY <1>7, <1>8, <1>9, <1>10 DEF Deep, Whole

\* The invariant holds initially.
LEMMA IInvInit == Init => IInv
BY MapsInvInit, InitBasic, InitDeep DEF IInv

\* The invariant is inductive.
LEMMA IInvNext ==
    ASSUME Ordered, IInv, [Next]_vars
    PROVE  IInv'
<1>1. MapsInv' /\ Basic'
  BY NextMaps, NextBasic DEF IInv, Ordered
<1>2. Deep'
  BY NextDeep DEF IInv
<1> QED BY <1>1, <1>2 DEF IInv

\* The invariant holds in every state that is reached.
LEMMA IInvHolds ==
    ASSUME Ordered
    PROVE  Spec => []IInv
<1>1. IInv /\ [Next]_vars => IInv'
  BY IInvNext
<1> QED BY <1>1, IInvInit, PTL DEF Spec

-----------------------------------------------------------------------------
(* What the invariant says.                                                 *)

\* Counts and types.
LEMMA TypeFollows == IInv => TypeOK
<1> SUFFICES ASSUME IInv PROVE TypeOK
  OBVIOUS
<1>1. ~lost => \A s \in Slots : rc[s] >= 0
  BY CountsAreNat DEF IInv, Deep
<1>2. \A e \in rels \cup dropped : e \in Edges
  BY PipelineOK DEF IInv, Basic, Types, Spans, Edges
<1>3. log \subseteq Row
  BY DEF IInv, Basic, LogFits, Fits
<1>4. ents \subseteq Vertices /\ used \subseteq Vertices /\ DOMAIN iMap \subseteq Vertices
  BY PipelineOK DEF IInv, Basic, Types
<1> QED BY <1>1, <1>2, <1>3, <1>4 DEF IInv, Basic, Types, TypeOK

\* The references execRC has yet to process are those of one task.
LEMMA ListsCounted ==
    ASSUME Basic, NEW t \in Slots
    PROVE  Sum([i \in DOMAIN tasks |-> InLists(t, tasks[i].lists)], DOMAIN tasks) = InLists(t, Lists)
<1> DEFINE h == [i \in DOMAIN tasks |-> InLists(t, tasks[i].lists)]
<1>1. IsFiniteSet(DOMAIN tasks) /\ DOMAIN tasks = 1..Len(tasks) /\ Len(tasks) \in Nat
  <2>1. DOMAIN tasks = 1..Len(tasks) /\ Len(tasks) \in Nat
    BY TaskTypes DEF Basic, Types
  <2> QED BY <2>1, FS_Interval
<1>2. \A i \in DOMAIN tasks : h[i] = InLists(t, tasks[i].lists)
  OBVIOUS
<1>3. ASSUME NEW none, none = {}
      PROVE  InLists(t, none) = 0
  BY <1>3, SumEmpty DEF InLists
<1>4. \A i \in DOMAIN tasks : tasks[i].lists = {} => h[i] = 0
  BY <1>2, <1>3
<1> HIDE DEF h
<1>5. CASE \A i \in DOMAIN tasks : tasks[i].lists = {}
  <2>1. Lists = {}
    BY <1>5 DEF Lists
  <2>2. Sum(h, DOMAIN tasks) = 0
    BY <1>1, <1>4, <1>5, SumZero
  <2> QED BY <1>3, <2>1, <2>2 DEF h
<1>6. CASE \E i \in DOMAIN tasks : tasks[i].lists # {}
  <2>1. PICK i \in DOMAIN tasks : tasks[i].lists # {}
    BY <1>6
  <2>2. tasks[i].phase = "cascade"
    BY <2>1 DEF Basic, TasksFit, TaskFits
  <2>3. \A j \in DOMAIN tasks : j < i => Stage[tasks[j].phase] > Stage["cascade"]
    BY <2>1, <2>2 DEF Basic, TasksFit, Before, Stage
  <2>4. Turn(i, "cascade")
    BY <1>1, <2>2, <2>3 DEF Turn
  <2>5. /\ \A j \in DOMAIN tasks : j # i => tasks[j].lists = {}
        /\ Lists = tasks[i].lists
    BY <2>4, ListsAre
  <2> DEFINE others == DOMAIN tasks \ {i}
  <2>6. IsFiniteSet(others) /\ \A j \in others : h[j] = 0
    BY <1>1, <1>4, <2>5, FS_RemoveElement
  <2>7. Sum(h, others) = 0
    BY <2>6, SumZero
  <2>8. h[i] = InLists(t, Lists) /\ h[i] \in Nat
    <3> DEFINE g == [list \in Lists |-> list[2][t]]
    <3>1. \A list \in Lists : g[list] \in Nat
      BY ListsTypes
    <3>2. InLists(t, Lists) = Sum(g, Lists)
      BY DEF InLists
    <3> HIDE DEF g
    <3>3. Sum(g, Lists) \in Nat
      BY <3>1, ListsFinite, SumNat
    <3> QED BY <1>2, <2>1, <2>5, <3>2, <3>3
  <2>9. \A j \in DOMAIN tasks : h[j] \in Int
    <3>1. \A j \in DOMAIN tasks : j = i \/ h[j] = 0
      BY <1>4, <2>5
    <3> QED BY <2>8, <3>1
  <2>10. Sum(h, DOMAIN tasks) = h[i] + Sum(h, others)
    BY <1>1, <2>9, SumTakes
  <2> QED BY <2>7, <2>8, <2>10 DEF h
<1> QED BY <1>5, <1>6

\* A sum over a function's domain.
LEMMA SumOf ==
    ASSUME NEW S, NEW f, DOMAIN f = S
    PROVE  SumFunction(f) = Sum(f, S)
BY DEF SumFunction, Sum

\* Counts are references.
LEMMA CountsFollow == IInv => RefCountsAreReferences
<1> SUFFICES ASSUME IInv, ~lost, NEW t \in alloc
             PROVE  rc[t] = SumFunction([s \in Slots |-> out[s][t]])
                            + SumFunction([i \in DOMAIN tasks |->
                                  SumFunction([list \in tasks[i].lists |-> list[2][t]])])
  BY DEF RefCountsAreReferences
<1>1. t \in Slots /\ rc[t] = Column(t) + InLists(t, Lists)
  BY DEF IInv, Basic, Types, Deep, Whole, EngInv, EngCounts
<1>2. Column(t) = SumFunction([s \in Slots |-> out[s][t]])
  BY SumOf DEF Column, ColumnOf
<1>3. \A i \in DOMAIN tasks :
        InLists(t, tasks[i].lists) = SumFunction([list \in tasks[i].lists |-> list[2][t]])
  BY SumOf DEF InLists
<1>4. [i \in DOMAIN tasks |-> SumFunction([list \in tasks[i].lists |-> list[2][t]])]
        = [i \in DOMAIN tasks |-> InLists(t, tasks[i].lists)]
  BY <1>3
<1>5. SumFunction([i \in DOMAIN tasks |-> InLists(t, tasks[i].lists)]) = InLists(t, Lists)
  BY <1>1, SumOf, ListsCounted DEF IInv
<1> QED BY <1>1, <1>2, <1>4, <1>5

\* The references a reader may follow are those of a part of the history.
Retaining == {r \in log : r.op = "drop" /\ r.edge[1] # Root /\ ~r.due}

Retained == {r.edge : r \in Retaining}

InUse == Reach(rels \cup Retained)

\* The two ways to say what is in use.
LEMMA InUseIs == InUse = Catalog!InUse
BY DEF InUse, Reach, Retained, Retaining, Catalog!InUse

\* What is in use is reached in a part of the history, so that it is not cut off.
LEMMA InUseIsReached ==
    ASSUME Basic, MapsInv, Whole
    PROVE  /\ InUse \subseteq used \cup {Root}
           /\ \A v \in InUse : ~ CutOff(v, Kept, Pending)
<1> DEFINE U == Pending
           c == U \ Ops(Retaining)
           G == Graph(Kept, c)
           S == Reach(G)
           force == rels \cup Retained
<1>1. /\ Kept \in SUBSET Schema /\ U \in SUBSET Operation /\ c \in SUBSET Operation
      /\ G \in SUBSET Schema
  BY KeptIs, PendingIs, GraphIs DEF Whole, EngInv
<1>2. \A r \in Retaining : /\ r \in log /\ r \in PendingRows /\ Fits(r, rows, used)
                           /\ Op(r) \in U /\ Op(r).op = "drop" /\ Op(r).edge = r.edge
                           /\ Op(r).edge[1] # Root
  BY PendingIs, OpIs DEF Retaining, PendingRows
<1>3. \A x \in Ops(Retaining) : x \in U /\ x.op = "drop"
  BY <1>2 DEF Ops
<1>4. Cut(c, U)
  BY <1>3 DEF Cut
<1>5. AddsOf(c) = AddsOf(U) /\ DropsOf(c) \subseteq DropsOf(U)
  BY <1>3 DEF AddsOf, DropsOf
<1>6. Retained \cap DropsOf(c) = {}
  <2> SUFFICES ASSUME NEW r \in Retaining, NEW q \in c, q.op = "drop", q.edge = r.edge
               PROVE  FALSE
    BY DEF Retained, DropsOf
  <2>1. Op(r) \in U /\ Op(r).op = "drop" /\ Op(r).edge = q.edge /\ Op(r).edge[1] # Root /\ q \in U
    BY <1>2
  <2>2. Op(r) = q
    BY <2>1 DEF Whole, HistInv, Unique, UniqueTo
  <2> QED BY <2>2 DEF Ops
<1>7. \A e \in force : Backed(e, Kept, U)
  <2>1. \A e \in Retained : e \in DropsOf(U) /\ e[1] # Root
    BY <1>2, OpsOf, <1>1 DEF Retained
  <2> QED BY <2>1 DEF Whole, CatInv, Reflects
<1>8. \A e \in force : e \notin DropsOf(c)
  BY <1>5, <1>6 DEF Whole, CatInv, Reflects
<1>9. /\ Root \in S /\ S \in SUBSET Vertices
      /\ \A e \in G : e[1] \in S => e[2] \in S
  BY <1>1, ReachIsClosed
<1>10. \A v \in S : ~ CutOff(v, Kept, U)
  BY <1>4 DEF CutOff
<1>11. ASSUME NEW e \in force, e[1] \in S
       PROVE  e[2] \in S
  <2>1. e \in Kept \cup AddsOf(U)
    BY <1>7, <1>10, <1>11 DEF Backed
  <2>2. e \in G
    BY <1>5, <1>8, <2>1 DEF Graph
  <2> QED BY <1>9, <1>11, <2>2
<1>12. InUse \subseteq S
  <2>1. Closed(S, force)
    BY <1>9, <1>11, ClosedIs
  <2> QED BY <1>9, <2>1, ReachIsLeast DEF InUse
<1>13. InUse \subseteq used \cup {Root}
  <2>1. \A e \in force : e[2] \in used \cup {Root}
    BY <1>2, OpIs DEF Retained, Basic, Types, Spans
  <2>2. used \cup {Root} \in SUBSET Vertices
    BY PipelineOK DEF Basic, Types
  <2>3. Closed(used \cup {Root}, force)
    BY <2>1, ClosedIs
  <2> QED BY <2>2, <2>3, ReachIsLeast DEF InUse
<1> QED BY <1>10, <1>12, <1>13

\* Nothing that is in use is taken.
LEMMA NothingLiveFollows == IInv => NothingLiveCollected
<1> SUFFICES ASSUME IInv, ~lost
             PROVE  /\ \A i \in DOMAIN tasks : tasks[i].dead \cap InUse = {}
                    /\ InUse \subseteq ents \cup {Root}
  BY InUseIs DEF NothingLiveCollected
<1>1. /\ InUse \subseteq used \cup {Root}
      /\ \A v \in InUse : ~ CutOff(v, Kept, Pending)
  BY InUseIsReached DEF IInv, Deep
<1>2. \A v \in (used \ ents) \cup Dead : CutOff(v, Kept, Pending)
  BY DEF IInv, Deep, Whole, CatInv, Reflects
<1> QED BY <1>1, <1>2 DEF Dead

\* Every variable keeps its type, for any graph and any number of slots and tasks:
\* in particular no reference count falls below zero.
THEOREM TypeCorrect ==
    ASSUME Ordered
    PROVE  Spec => []TypeOK
BY IInvHolds, TypeFollows, PTL

\* The number in a vertex descriptor is "the number of references to the vertex"
\* (gcgraph.h:21), for any graph and any number of slots and tasks: GCGraph never
\* loses a count, over reused slots and with the edge lists of what it has taken
\* still to be processed, unless a failure has cut it off from the catalog.
THEOREM CountsAreReferences ==
    ASSUME Ordered
    PROVE  Spec => []RefCountsAreReferences
BY IInvHolds, CountsFollow, PTL

\* GCManager never takes what a client can still reach, over a reference in force or
\* a dropped one whose retention runs, and rcCommit never deletes it, as long as no
\* failure has cut the engine off from the catalog.
THEOREM NothingLiveIsCollected ==
    ASSUME Ordered
    PROVE  Spec => []NothingLiveCollected
BY IInvHolds, NothingLiveFollows, PTL

\* With failures of the first statement only, nothing is lost.
LEMMA NothingLost ==
    ASSUME MayFail \subseteq {"clear"}
    PROVE  Spec => [](~lost)
<1>1. Init => ~lost
  BY DEF Init
<1>2. ~lost /\ [Next]_vars => ~lost'
  <2> SUFFICES ASSUME ~lost, [Next]_vars PROVE ~lost'
    OBVIOUS
  <2>1. CASE Client
    BY <2>1, ClientIs DEF Client
  <2>2. CASE Ingest
    BY <2>2 DEF Ingest
  <2>3. ASSUME NEW i, Stages(i)
        PROVE  ~lost'
    BY <2>3 DEF Stages, Store, Clear, Maps, Adds, Deletes, Start, Cascade,
                DeleteSources, DeleteDests, DeleteEnts, Post
  <2>4. ASSUME NEW i, Fail(i)
        PROVE  ~lost'
    <3>1. tasks[i].phase = "clear"
      BY <2>4 DEF Fail, Turn
    <3> QED BY <2>4, <3>1 DEF Fail
  <2>5. CASE UNCHANGED vars
    BY <2>5 DEF vars
  <2> QED BY <2>1, <2>2, <2>3, <2>4, <2>5 DEF Next
<1> QED BY <1>1, <1>2, PTL DEF Spec

\* applyAddEdges always finds a slot for both ends of a reference, so that src and
\* dest are never read uninitialized (gcmanager.cpp, stage 3): if the tasks run one at
\* a time whatever fails, and if they overlap as long as only stage 1 gives up.
THEOREM EndsAreFound ==
    ASSUME Ordered, QuietStage = 6 \/ MayFail \subseteq {"clear"}
    PROVE  Spec => []EndsHaveSlots
<1>1. EndsFound => EndsHaveSlots
  BY DEF EndsFound, EndsHaveSlots, Turn
<1>2. CASE QuietStage = 6
  <2>1. IInv => EndsFound
    BY <1>2 DEF IInv, Deep
  <2> QED BY <1>1, <2>1, IInvHolds, PTL
<1>3. CASE MayFail \subseteq {"clear"}
  <2>1. IInv /\ ~lost => EndsFound
    BY DEF IInv, Deep
  <2>2. Spec => [](~lost)
    BY <1>3, NothingLost
  <2> QED BY <1>1, <2>1, <2>2, IInvHolds, PTL
<1> QED BY <1>2, <1>3

-----------------------------------------------------------------------------
(* The promise of CatalogGC.                                                *)

\* What clients reach is in the catalog and was not taken.
LEMMA LiveIsKept ==
    ASSUME IInv, ~lost
    PROVE  /\ Live \subseteq ents \cup {Root} /\ \A v \in Live : v \notin Dead
           /\ Root \in Live /\ \A e \in rels : e[1] \in Live => e[2] \in Live
           /\ Dead \subseteq used \cup {Root} /\ Dead \subseteq Vertices
<1>1. NothingLiveCollected
  BY NothingLiveFollows
<1>2. rels \cup Retained \in SUBSET Schema /\ rels \in SUBSET Schema
  BY OpIs DEF Retained, Retaining, IInv, Basic, Types, LogFits, Spans
<1>3. Live \subseteq InUse
  BY <1>2, ReachIsMonotone DEF Live, Reach, InUse
<1>4. InUse \subseteq ents \cup {Root} /\ \A v \in InUse : v \notin Dead
  BY <1>1, InUseIs DEF NothingLiveCollected, Dead
<1>5. Root \in Live /\ \A e \in rels : e[1] \in Live => e[2] \in Live
  BY <1>2, ReachIsClosed DEF Live, Reach
<1>6. Dead \subseteq used \cup {Root}
  BY NamesIs DEF IInv
<1> QED BY <1>3, <1>4, <1>5, <1>6, PipelineOK DEF IInv, Basic, Types

\* Steps that leave the catalog and start no commit.
LEMMA TidyStays ==
    ASSUME Tidy, UNCHANGED <<ents, rels, dropped>>,
           \A j \in DOMAIN tasks' :
              \/ tasks'[j].phase \notin {"dests", "ents", "post"}
              \/ \E k \in DOMAIN tasks : tasks'[j] = tasks[k]
    PROVE  Tidy'
<1>1. Rows' = Rows
  BY DEF Rows
<1>2. \A j \in DOMAIN tasks' : Committed(tasks'[j], Rows)
  BY DEF Tidy, Committed
<1> QED BY <1>1, <1>2 DEF Tidy

\* A task that moves on before stage 5 leaves the catalog tidy.
LEMMA MoveTidy ==
    ASSUME Tidy, UNCHANGED <<ents, rels, dropped>>,
           NEW i, NEW p, NEW f, NEW h, NEW l, NEW d, Becomes(i, p, f, h, l, d),
           p \notin {"dests", "ents", "post"}
    PROVE  Tidy'
<1>1. \A j \in DOMAIN tasks' :
        \/ tasks'[j].phase \notin {"dests", "ents", "post"}
        \/ \E k \in DOMAIN tasks : tasks'[j] = tasks[k]
  BY DEF Becomes
<1> QED BY <1>1, TidyStays

\* So does execRC.
LEMMA TakeTidy ==
    ASSUME Basic, Tidy, UNCHANGED <<ents, rels, dropped>>, NEW i \in DOMAIN tasks,
           NEW slots \in SUBSET alloc, NEW rest \in SUBSET tasks[i].lists, Take(i, slots, rest)
    PROVE  Tidy'
<1>1. tasks \in Seq(Task) /\ slots \in SUBSET Slots
  BY DEF Basic, Types
<1>2. rest \in SUBSET ((SUBSET Vertices) \X [Slots -> Nat]) /\ IsFiniteSet(rest)
  <2>1. IsFiniteSet(tasks[i].lists)
    BY ListsTypes
  <2> QED BY <1>1, <2>1, TaskTypes, FS_Subset
<1>3. /\ Owners(slots) \in SUBSET Vertices
      /\ Active(slots, rest) \in SUBSET ((SUBSET Vertices) \X [Slots -> Nat])
  BY <1>1, <1>2, ActiveTypes
<1>4. Becomes(i, AfterTake(Active(slots, rest)), tasks[i].fresh, tasks[i].hit,
              Active(slots, rest), tasks[i].dead \cup Owners(slots))
  BY <1>1, <1>3, TakeBecomes
<1>5. AfterTake(Active(slots, rest)) \notin {"dests", "ents", "post"}
  BY DEF AfterTake
<1> QED BY <1>4, <1>5, MoveTidy

\* The stages before the fifth do not touch the catalog.
LEMMA EngineTidy ==
    ASSUME Basic, Tidy, NEW i,
           Store(i) \/ Clear(i) \/ Maps(i) \/ Adds(i) \/ Deletes(i) \/ Start(i) \/ Cascade(i)
    PROVE  Tidy'
<1>0. UNCHANGED <<ents, rels, dropped>>
  BY DEF Store, Clear, Maps, Adds, Deletes, Start, Cascade, catalogVars
<1>1. i \in DOMAIN tasks /\ tasks \in Seq(Task)
  BY DEF Store, Clear, Maps, Adds, Deletes, Start, Cascade, Turn, Basic, Types
<1>2. CASE Store(i)
  <2>1. Ends(Added(i)) \subseteq used \cup {Root}
    BY <1>1, <1>2, EndsFit, Started DEF Store
  <2>2. Fresh(i) \in SUBSET Vertices
    BY <2>1, PipelineOK DEF Fresh, Basic, Types
  <2>3. Becomes(i, "clear", Fresh(i), tasks[i].hit, tasks[i].lists, tasks[i].dead)
    BY <1>1, <1>2, <2>2, StoreBecomes
  <2> QED BY <1>0, <2>3, MoveTidy
<1>3. CASE Clear(i) \/ Maps(i) \/ Adds(i)
  <2>1. PICK p \in {"maps", "adds", "deletes"} : Pass(i, p)
    BY <1>3 DEF Clear, Maps, Adds
  <2>2. p \in Phases
    BY DEF Phases, Stage
  <2>3. Becomes(i, p, tasks[i].fresh, tasks[i].hit, tasks[i].lists, tasks[i].dead)
    BY <1>1, <2>1, <2>2, PassBecomes
  <2> QED BY <1>0, <2>3, MoveTidy
<1>4. CASE Deletes(i)
  <2>1. Becomes(i, "init", tasks[i].fresh, Zeroed(Less(i)), tasks[i].lists, tasks[i].dead)
    BY <1>1, <1>4, DeletesBecomes DEF Basic, Types
  <2> QED BY <1>0, <2>1, MoveTidy
<1>5. CASE Start(i)
  <2>1. Take(i, tasks[i].hit \cap alloc, {})
    BY <1>5 DEF Start
  <2>2. tasks[i].hit \cap alloc \in SUBSET alloc /\ {} \in SUBSET tasks[i].lists
    OBVIOUS
  <2> QED BY <1>0, <1>1, <2>1, <2>2, TakeTidy
<1>6. CASE Cascade(i)
  <2>1. PICK list \in tasks[i].lists : Take(i, Zeroed(list[2]), tasks[i].lists \ {list})
    BY <1>6 DEF Cascade
  <2>2. Zeroed(list[2]) \in SUBSET alloc /\ tasks[i].lists \ {list} \in SUBSET tasks[i].lists
    BY DEF Zeroed
  <2> QED BY <1>0, <1>1, <2>1, <2>2, TakeTidy
<1> QED BY <1>2, <1>3, <1>4, <1>5, <1>6

\* Stage 5 takes the rows before the entities they name.
LEMMA CommitTidy ==
    ASSUME IInv, ~lost, Tidy, NEW i, DeleteSources(i) \/ DeleteDests(i) \/ DeleteEnts(i)
    PROVE  Tidy'
<1> DEFINE gone == tasks[i].dead
<1>1. PICK q \in {"sources", "dests", "ents"} : Turn(i, q)
  BY DEF DeleteSources, DeleteDests, DeleteEnts
<1>2. i \in DOMAIN tasks /\ tasks \in Seq(Task) /\ tasks[i].phase = q
  BY <1>1 DEF Turn, IInv, Basic, Types
<1>3. /\ rels' \subseteq rels /\ dropped' \subseteq dropped
      /\ \/ q = "sources" /\ Pass(i, "dests") /\ ents' = ents
         \/ q = "dests" /\ Pass(i, "ents") /\ ents' = ents
         \/ q = "ents" /\ Pass(i, "post") /\ ents' = ents \ gone
  BY <1>2 DEF DeleteSources, DeleteDests, DeleteEnts, Turn, Without
<1>4. PICK p \in {"dests", "ents", "post"} :
        /\ Pass(i, p)
        /\ p = "dests" => q = "sources" /\ ents' = ents
        /\ p = "ents" => q = "dests" /\ ents' = ents
        /\ p = "post" => q = "ents" /\ ents' = ents \ gone
  BY <1>3
<1>5. Becomes(i, p, tasks[i].fresh, tasks[i].hit, tasks[i].lists, gone)
  <2>1. p \in Phases
    BY DEF Phases, Stage
  <2> QED BY <1>2, <1>4, <2>1, PassBecomes
<1>6. gone \subseteq Dead
  BY <1>2 DEF Dead
<1>7. \A e \in Rows' : e \in Rows
  BY <1>3 DEF Rows
<1>8. Committed(tasks[i], Rows)
  BY <1>2 DEF Tidy
<1>9. \A e \in Rows' : e[1] \notin gone
  <2>1. CASE p = "dests"
    <3>1. \A e \in Rows' : e[1] = Root \/ e[1] \notin gone
      BY <1>2, <1>4, <2>1 DEF DeleteSources, DeleteDests, DeleteEnts, Turn, Without, Rows
    <3> QED BY <1>6, <3>1, LiveIsKept
  <2>2. CASE p # "dests"
    BY <1>2, <1>4, <1>7, <1>8, <2>2 DEF Committed
  <2> QED BY <2>1, <2>2
<1>10. ASSUME p # "dests", NEW e \in Rows'
       PROVE  e[2] \notin gone
  <2>1. CASE e[1] = Root
    <3>1. e \in rels
      BY <1>7, <2>1 DEF Tidy, Rows
    <3> QED BY <1>6, <2>1, <3>1, LiveIsKept
  <2>2. CASE e[1] # Root /\ p = "ents"
    BY <1>2, <1>4, <2>2, <1>10 DEF DeleteSources, DeleteDests, DeleteEnts, Turn, Without, Rows
  <2>3. CASE p = "post"
    BY <1>2, <1>4, <1>7, <1>8, <2>3 DEF Committed
  <2> QED BY <1>10, <2>1, <2>2, <2>3
<1>11. \A e \in Rows' : e[1] \in ents' \cup {Root} /\ e[2] \in ents' \cup {Root}
  <2>1. \A e \in Rows' : e[1] \in ents \cup {Root} /\ e[2] \in ents \cup {Root}
    BY <1>7 DEF Tidy
  <2>2. CASE p = "post"
    <3>1. \A e \in Rows' : e[2] \notin gone
      BY <1>10, <2>2
    <3> QED BY <1>4, <1>9, <2>1, <2>2, <3>1
  <2>3. CASE p # "post"
    BY <1>4, <2>1, <2>3
  <2> QED BY <2>2, <2>3
<1>12. \A j \in DOMAIN tasks' : Committed(tasks'[j], Rows')
  <2>1. ASSUME NEW j \in DOMAIN tasks', j # i PROVE Committed(tasks'[j], Rows')
    <3>1. tasks'[j] = tasks[j] /\ j \in DOMAIN tasks
      BY <1>5, <2>1 DEF Becomes
    <3>2. Committed(tasks[j], Rows)
      BY <3>1 DEF Tidy
    <3> QED BY <1>7, <3>1, <3>2 DEF Committed
  <2>2. Committed(tasks'[i], Rows')
    <3>1. tasks'[i].phase = p /\ tasks'[i].dead = gone
      BY <1>5 DEF Becomes
    <3>2. p # "dests" => \A e \in Rows' : e[2] \notin gone
      BY <1>10
    <3> HIDE DEF gone
    <3> QED BY <1>9, <3>1, <3>2 DEF Committed
  <2> QED BY <2>1, <2>2
<1>13. \A e \in dropped' : e[1] # Root
  BY <1>3 DEF Tidy
<1> QED BY <1>11, <1>12, <1>13 DEF Tidy

\* A task that goes leaves the others.
LEMMA FinishTidy ==
    ASSUME Basic, Tidy, UNCHANGED <<ents, rels, dropped>>, NEW i \in DOMAIN tasks, Finish(i)
    PROVE  Tidy'
<1>1. PICK old : Stayed(i, old)
  BY OthersStay
<1>2. \A j \in DOMAIN tasks' : \E k \in DOMAIN tasks : tasks'[j] = tasks[k]
  BY <1>1 DEF Stayed
<1> QED BY <1>2, TidyStays

\* Clients refer to what is there.
LEMMA ClientTidy ==
    ASSUME IInv, ~lost, Tidy, NEW e \in Schema, Refer(e) \/ DropRel(e) \/ DropRoot(e)
    PROVE  Tidy'
<1>1. tasks' = tasks /\ ents \subseteq ents'
  BY ClientIs
<1>2. /\ \A x \in Rows' : x \in Rows \/ (Refer(e) /\ x = e)
      /\ \A x \in dropped' : x[1] # Root
  BY DEF Refer, DropRel, DropRoot, Rows, Tidy
<1>3. ASSUME Refer(e)
      PROVE  /\ e[1] \in ents' \cup {Root} /\ e[2] \in ents' \cup {Root}
             /\ e[1] \notin Dead /\ e[2] \notin Dead
  <2>1. e[1] \in Live /\ (e[2] \in Live \/ e[2] \notin used) /\ ents' = ents \cup {e[2]} /\ e[2] # Root
    BY <1>3, PipelineOK DEF Refer
  <2> QED BY <2>1, LiveIsKept
<1>4. \A i \in DOMAIN tasks : Committed(tasks[i], Rows')
  <2> SUFFICES ASSUME NEW i \in DOMAIN tasks PROVE Committed(tasks[i], Rows')
    OBVIOUS
  <2>1. Committed(tasks[i], Rows) /\ tasks[i].dead \subseteq Dead
    BY DEF Tidy, Dead
  <2>2. \A x \in Rows' : x \in Rows \/ (x[1] \notin Dead /\ x[2] \notin Dead)
    BY <1>2, <1>3
  <2> QED BY <2>1, <2>2 DEF Committed
<1>5. \A x \in Rows' : x[1] \in ents' \cup {Root} /\ x[2] \in ents' \cup {Root}
  BY <1>1, <1>2, <1>3 DEF Tidy
<1> QED BY <1>1, <1>2, <1>4, <1>5 DEF Tidy

\* The empty catalog is tidy.
LEMMA TidyInit == Init => Tidy
BY DEF Init, Tidy, Rows

\* The catalog stays tidy: stage 5 deletes an entity after the rows that name it, and
\* no client adds one meanwhile.
LEMMA NextTidy ==
    ASSUME IInv, ~lost, Tidy, [Next]_vars
    PROVE  Tidy'
<1>1. CASE Client
  BY <1>1, ClientTidy DEF Client
<1>2. CASE Ingest
  <2>1. PICK R \in Cuts : \E read \in SUBSET Row : tasks' = Append(tasks, NewTask(read))
    BY <1>2, IngestIs DEF IInv
  <2>2. PICK read \in SUBSET Row : tasks' = Append(tasks, NewTask(read))
    BY <2>1
  <2>3. /\ DOMAIN tasks' = DOMAIN tasks \cup {Len(tasks) + 1}
        /\ \A j \in DOMAIN tasks : tasks'[j] = tasks[j]
        /\ tasks'[Len(tasks) + 1] = NewTask(read)
    BY <2>2, IngestAppends DEF IInv, Basic, Types
  <2>4. \A j \in DOMAIN tasks' :
          \/ tasks'[j].phase \notin {"dests", "ents", "post"}
          \/ \E k \in DOMAIN tasks : tasks'[j] = tasks[k]
    BY <2>3 DEF NewTask
  <2>5. UNCHANGED <<ents, rels, dropped>>
    BY <1>2 DEF Ingest, catalogVars
  <2> QED BY <2>4, <2>5, TidyStays
<1>3. ASSUME NEW i, Stages(i) PROVE Tidy'
  <2>1. CASE Post(i)
    BY <2>1, FinishTidy DEF Post, Turn, catalogVars, IInv
  <2>2. CASE DeleteSources(i) \/ DeleteDests(i) \/ DeleteEnts(i)
    BY <2>2, CommitTidy
  <2>3. CASE ~ (Post(i) \/ DeleteSources(i) \/ DeleteDests(i) \/ DeleteEnts(i))
    BY <1>3, <2>3, EngineTidy DEF Stages, IInv
  <2> QED BY <2>1, <2>2, <2>3
<1>4. ASSUME NEW i, Fail(i) PROVE Tidy'
  BY <1>4, FinishTidy DEF Fail, Turn, catalogVars, IInv
<1>5. CASE UNCHANGED vars
  BY <1>5, TidyStays DEF vars, catalogVars
<1> QED BY <1>1, <1>2, <1>3, <1>4, <1>5 DEF Next

\* The catalog's own variables under the mapping.
LEMMA RetainedIs ==
    /\ Retained = {r.edge : r \in {r \in log : r.op = "drop" /\ r.edge[1] # Root /\ ~r.due}}
    /\ \A x : x \in Retained <=> \E r \in log : r.op = "drop" /\ r.edge[1] # Root /\ ~r.due /\ x = r.edge
BY DEF Retained, Retaining

CatalogStep == [Catalog!Next]_(Catalog!vars)

\* A row that leaves the log ends a retention, which the promise allows at any time.
LEMMA ExpireStep ==
    ASSUME UNCHANGED <<ents, used, rels, dropped>>, Retained' \subseteq Retained
    PROVE  CatalogStep
<1>1. CASE Retained' = Retained
  <2>1. UNCHANGED <<ents, used, rels, dropped, Retained>>
    BY <1>1
  <2> QED BY <2>1 DEF CatalogStep, Catalog!vars, Retained, Retaining
<1>2. CASE Retained' # Retained
  <2> DEFINE E == Retained \ Retained'
  <2>1. E \in SUBSET Retained /\ E # {} /\ Retained' = Retained \ E
    BY <1>2
  <2>2. Catalog!Expire
    BY <2>1 DEF Catalog!Expire, Retained, Retaining
  <2> QED BY <2>2 DEF CatalogStep, Catalog!Next
<1> QED BY <1>1, <1>2

\* Clients do to the catalog what the promise lets them do.
LEMMA ClientStep ==
    ASSUME Basic, NEW e \in Schema, Refer(e) \/ DropRel(e) \/ DropRoot(e)
    PROVE  CatalogStep
<1>1. CASE Refer(e)
  <2>1. log' = log \cup {Written("add", e)}
    BY <1>1 DEF Refer, Write, Written
  <2>2. \A x : x \in Retained' <=> x \in Retained
    <3>1. Written("add", e).op # "drop"
      BY DEF Written
    <3>2. \A x : x \in Retained' <=> \E r \in log' : r.op = "drop" /\ r.edge[1] # Root /\ ~r.due /\ x = r.edge
      BY DEF Retained, Retaining
    <3> QED BY <2>1, <3>1, <3>2, RetainedIs
  <2>3. Retained' = Retained
    BY <2>2
  <2>4. Catalog!Refer(e)
    BY <1>1, <2>3 DEF Refer, Live, Catalog!Refer, Catalog!MayRefer, Retained, Retaining
  <2> QED BY <2>4 DEF CatalogStep, Catalog!Next
<1>2. CASE DropRel(e) \/ DropRoot(e)
  <2> DEFINE new == Written("drop", e)
  <2>1. log' = log \cup {new}
    BY <1>2 DEF DropRel, DropRoot, Write, Written
  <2>2. new.op = "drop" /\ new.edge = e /\ new.due = FALSE
    BY DEF Written
  <2> HIDE DEF new
  <2>3. \A x : x \in Retained' <=> \E r \in log' : r.op = "drop" /\ r.edge[1] # Root /\ ~r.due /\ x = r.edge
    BY DEF Retained, Retaining
  <2>4. \A x : x \in Retained' <=> x \in Retained \/ (e[1] # Root /\ x = e)
    BY <2>1, <2>2, <2>3, RetainedIs
  <2>5. CASE e \notin rels
    <3>1. DropRoot(e) /\ e[1] = Root
      BY <1>2, <2>5 DEF DropRel, DropRoot
    <3>2. UNCHANGED <<ents, used, rels, dropped>>
      BY <2>5, <3>1 DEF DropRoot
    <3>3. Retained' \subseteq Retained
      BY <2>4, <3>1
    <3> QED BY <3>2, <3>3, ExpireStep
  <2>6. CASE e \in rels /\ e[1] = Root
    <3>1. Retained' = Retained
      BY <2>4, <2>6
    <3>2. Catalog!Drop(e)
      BY <1>2, <2>6, <3>1 DEF DropRel, DropRoot, Catalog!Drop, Retained, Retaining
    <3> QED BY <3>2 DEF CatalogStep, Catalog!Next
  <2>7. CASE e \in rels /\ e[1] # Root
    <3>1. Retained' = Retained \cup {e}
      BY <2>4, <2>7
    <3>2. Catalog!Drop(e)
      BY <1>2, <2>7, <3>1 DEF DropRel, DropRoot, Catalog!Drop, Retained, Retaining
    <3> QED BY <3>2 DEF CatalogStep, Catalog!Next
  <2> QED BY <2>5, <2>6, <2>7
<1> QED BY <1>1, <1>2

\* An ingest ends the retention of what it reads.
LEMMA IngestStep ==
    ASSUME Basic, Ingest
    PROVE  CatalogStep
<1>1. PICK R \in Cuts : \E read \in SUBSET Row :
        R \in SUBSET log /\ read = {Mark(r) : r \in R} /\ log' = (log \ R) \cup read
  BY IngestIs
<1>2. \A r \in log' : r \in log \/ r.due
  <2>1. \A r \in R : r \in Row
    BY <1>1 DEF Basic, LogFits, Fits
  <2>2. \A r \in R : Mark(r).due = TRUE
    BY <2>1 DEF Mark, Row
  <2> QED BY <1>1, <2>2
<1>3. Retained' \subseteq Retained
  <2>1. \A x : x \in Retained' <=> \E r \in log' : r.op = "drop" /\ r.edge[1] # Root /\ ~r.due /\ x = r.edge
    BY DEF Retained, Retaining
  <2> QED BY <1>2, <2>1, RetainedIs
<1> QED BY <1>3, ExpireStep DEF Ingest, catalogVars

\* A task deletes rows of the log that it has read.
LEMMA LogStep ==
    ASSUME log' \subseteq log, UNCHANGED <<ents, used, rels, dropped>>
    PROVE  CatalogStep
<1>1. Retained' \subseteq Retained
  <2>1. \A x : x \in Retained' <=> \E r \in log' : r.op = "drop" /\ r.edge[1] # Root /\ ~r.due /\ x = r.edge
    BY DEF Retained, Retaining
  <2> QED BY <2>1, RetainedIs
<1> QED BY <1>1, ExpireStep

\* A statement of stage 5 deletes what the promise lets go: what is not in use, and
\* an entity after every row that names it.
LEMMA CommitStep ==
    ASSUME IInv, ~lost, Tidy', NEW i, DeleteSources(i) \/ DeleteDests(i) \/ DeleteEnts(i)
    PROVE  CatalogStep
<1> DEFINE gone == tasks[i].dead
<1>1. i \in DOMAIN tasks /\ tasks \in Seq(Task)
  BY DEF DeleteSources, DeleteDests, DeleteEnts, Turn, IInv, Basic, Types
<1>2. /\ ents' \subseteq ents /\ ents \ ents' \subseteq gone
      /\ rels' \subseteq rels /\ \A e \in rels \ rels' : e[1] \in gone \/ e[2] \in gone
      /\ dropped' \subseteq dropped /\ \A e \in dropped \ dropped' : e[1] \in gone \/ e[2] \in gone
      /\ UNCHANGED <<used, log>>
  BY DEF DeleteSources, DeleteDests, DeleteEnts, Without
<1>3. gone \subseteq Catalog!Collectable
  <2>1. gone \cap Catalog!InUse = {}
    BY <1>1, NothingLiveFollows DEF NothingLiveCollected
  <2>2. gone \subseteq Vertices
    BY <1>1, TaskTypes
  <2> QED BY <2>1, <2>2 DEF Catalog!Collectable
<1> HIDE DEF gone
<1>4. ents' \in SUBSET ents /\ ents \ ents' \subseteq Catalog!Collectable
  BY <1>2, <1>3
<1>5. \E R \in SUBSET Catalog!Touching(rels) : rels' = rels \ R
  <2>1. rels \ rels' \in SUBSET Catalog!Touching(rels)
    BY <1>2, <1>3 DEF Catalog!Touching
  <2>2. rels' = rels \ (rels \ rels')
    BY <1>2
  <2> QED BY <2>1, <2>2
<1>6. \E D \in SUBSET Catalog!Touching(dropped) : dropped' = dropped \ D
  <2>1. dropped \ dropped' \in SUBSET Catalog!Touching(dropped)
    BY <1>2, <1>3 DEF Catalog!Touching
  <2>2. dropped' = dropped \ (dropped \ dropped')
    BY <1>2
  <2> QED BY <2>1, <2>2
<1>7. \A e \in rels' \cup dropped' : {e[1], e[2]} \subseteq ents' \cup {Root}
  BY DEF Tidy, Rows
<1>8. Retained' = Retained
  BY <1>2 DEF Retained, Retaining
<1>9. Catalog!Collect
  BY <1>2, <1>4, <1>5, <1>6, <1>7, <1>8 DEF Catalog!Collect, Retained, Retaining
<1> QED BY <1>9 DEF CatalogStep, Catalog!Next

\* Every step is one the promise allows, or none for it.
LEMMA StepRefines ==
    ASSUME IInv, ~lost, Tidy', [Next]_vars
    PROVE  CatalogStep
<1>1. CASE Client
  BY <1>1, ClientStep DEF Client, IInv
<1>2. CASE Ingest
  BY <1>2, IngestStep DEF IInv
<1>3. ASSUME NEW i, Stages(i) PROVE CatalogStep
  <2>1. CASE DeleteSources(i) \/ DeleteDests(i) \/ DeleteEnts(i)
    BY <2>1, CommitStep
  <2>2. CASE ~ (DeleteSources(i) \/ DeleteDests(i) \/ DeleteEnts(i))
    <3>1. log' \subseteq log /\ UNCHANGED <<ents, used, rels, dropped>>
      BY <1>3, <2>2 DEF Stages, Store, Clear, Maps, Adds, Deletes, Start, Cascade, Post, catalogVars
    <3> QED BY <3>1, LogStep
  <2> QED BY <2>1, <2>2
<1>4. ASSUME NEW i, Fail(i) PROVE CatalogStep
  <2>1. log' \subseteq log /\ UNCHANGED <<ents, used, rels, dropped>>
    BY <1>4 DEF Fail, catalogVars
  <2> QED BY <2>1, LogStep
<1>5. CASE UNCHANGED vars
  <2>1. log' \subseteq log /\ UNCHANGED <<ents, used, rels, dropped>>
    BY <1>5 DEF vars, catalogVars
  <2> QED BY <2>1, LogStep
<1> QED BY <1>1, <1>2, <1>3, <1>4, <1>5 DEF Next

\* Log, tasks, maps and engine together keep the promise of CatalogGC: what they do
\* to the catalog is, step by step, what that specification lets a collector do.
THEOREM PipelineImplementsCatalogGC ==
    ASSUME Ordered, MayFail \subseteq {"clear"}
    PROVE  Spec => ImplementsCatalogGC
<1>1. Init => Catalog!Init
  BY DEF Init, Catalog!Init
<1>2. Init => Tidy
  BY TidyInit
<1>3. Spec => []IInv
  BY IInvHolds
<1>4. Spec => [](~lost)
  BY NothingLost
<1>5. IInv /\ ~lost /\ Tidy /\ [Next]_vars => Tidy'
  BY NextTidy
<1>6. IInv /\ ~lost /\ Tidy' /\ [Next]_vars => [Catalog!Next]_(Catalog!vars)
  BY StepRefines DEF CatalogStep
<1> QED BY <1>1, <1>2, <1>3, <1>4, <1>5, <1>6, PTL DEF Spec, ImplementsCatalogGC, Catalog!Spec
-----------------------------------------------------------------------------
(* Nothing leaks: steps that change neither slots nor counts.               *)

\* Neither a slot nor an operation is gone, and what left the catalog was cut off.
LEMMA StaysExact ==
    ASSUME Exact, UNCHANGED <<alloc, rc>>, \A s \in alloc : oMap'[s] = oMap[s],
           Kept' = Kept, Pending' = Pending, Hits' = Hits,
           \A e \in rels : \/ e \in rels' \/ e \notin Kept \cup AddsOf(Pending)
                           \/ CutOff(e[1], Kept, Pending),
           \A v \in ents' : v \in ents /\ (v \in Dead => v \in Dead'),
           \A j \in DOMAIN tasks : tasks[j].phase = "adds" => \E k \in DOMAIN tasks' : tasks'[k] = tasks[j],
           GoneAreGone', FreshAreEnds'
    PROVE  Exact'
<1>1. ASSUME NEW s \in alloc, Awaited(s) PROVE Awaited(s)'
  <2>1. PICK j \in DOMAIN tasks : tasks[j].phase = "adds" /\ \E r \in Added(j) : r.edge[2] = oMap[s]
    BY <1>1 DEF Awaited
  <2>2. PICK k \in DOMAIN tasks' : tasks'[k] = tasks[j]
    BY <2>1
  <2>3. Added(k)' = Added(j)
    BY <2>2 DEF Added
  <2> QED BY <2>1, <2>2, <2>3 DEF Awaited
<1>2. ZeroesGo'
  BY <1>1 DEF Exact, ZeroesGo
<1>3. InForce(rels, Kept, Pending)'
  BY DEF Exact, InForce
<1>4. EntsTracked'
  BY DEF Exact, EntsTracked, Tracked
<1> QED BY <1>2, <1>3, <1>4 DEF Exact

\* The same for a step of one task.
LEMMA MoveExact ==
    ASSUME Exact, NEW i, NEW p, NEW f, NEW h, Becomes(i, p, f, h, tasks[i].lists, tasks[i].dead),
           tasks[i].phase \notin {"init", "adds"}, p # "init", UNCHANGED <<alloc, rc, oMap>>,
           Kept' = Kept, Pending' = Pending,
           \A e \in rels : \/ e \in rels' \/ e \notin Kept \cup AddsOf(Pending)
                           \/ CutOff(e[1], Kept, Pending),
           ents' \subseteq ents, p = "post" => tasks[i].dead \cap ents' = {},
           p \in {"clear", "maps"} => f \subseteq Ends(Added(i))
    PROVE  Exact'
<1>1. /\ i \in DOMAIN tasks /\ DOMAIN tasks' = DOMAIN tasks
      /\ \A j \in DOMAIN tasks : j # i => tasks'[j] = tasks[j]
      /\ tasks'[i].phase = p /\ tasks'[i].fresh = f /\ tasks'[i].dead = tasks[i].dead
      /\ tasks'[i].rows = tasks[i].rows
  BY DEF Becomes
<1>2. Dead' = Dead /\ Hits' = Hits
  BY MoveSets
<1>3. \A j \in DOMAIN tasks : Added(j)' = Added(j)
  BY <1>1 DEF Added
<1>4. GoneAreGone'
  BY <1>1 DEF Exact, GoneAreGone
<1>5. FreshAreEnds'
  BY <1>1, <1>3 DEF Exact, FreshAreEnds
<1>6. \A j \in DOMAIN tasks : tasks[j].phase = "adds" => \E k \in DOMAIN tasks' : tasks'[k] = tasks[j]
  BY <1>1
<1> QED BY <1>2, <1>4, <1>5, <1>6, StaysExact

\* updateGraphStore notes no vertex but the ends of what is added.
LEMMA StoreExact ==
    ASSUME Basic, MapsInv, Exact, NEW i, Store(i)
    PROVE  Exact'
<1>0. Turn(i, "store") /\ UNCHANGED <<ents, rels, dropped, used, log, iMap, oMap, alloc, rc, out, lost>>
  BY DEF Store, catalogVars, mapVars, engineVars
<1>1. Fresh(i) \in SUBSET Vertices
  <2>1. Ends(Added(i)) \subseteq used \cup {Root}
    BY <1>0, Started, EndsFit
  <2> QED BY <2>1, PipelineOK DEF Fresh, Basic, Types
<1>2. Becomes(i, "clear", Fresh(i), tasks[i].hit, tasks[i].lists, tasks[i].dead)
  BY <1>0, <1>1, Started, StoreBecomes
<1>3. tasks[i].phase = "store"
  BY <1>0, Started
<1>4. Pending' = Pending
  BY <1>0, <1>2, <1>3, MovePending
<1>5. Kept' = Kept
  BY <1>0 DEF Kept
<1>6. Fresh(i) \subseteq Ends(Added(i))
  BY DEF Fresh
<1> QED BY <1>0, <1>2, <1>3, <1>4, <1>5, <1>6, MoveExact

\* clearCatalogEdges leaves its rows pending in the task.
LEMMA ClearExact ==
    ASSUME Basic, MapsInv, Exact, NEW i, Clear(i)
    PROVE  Exact'
<1>0. /\ Turn(i, "clear") /\ Pass(i, "maps")
      /\ UNCHANGED <<ents, rels, dropped, used, iMap, oMap, alloc, rc, out, lost>>
  BY DEF Clear, catalogVars, mapVars, engineVars
<1>1. tasks[i].phase = "clear" /\ "maps" \in Phases /\ i \in DOMAIN tasks
  BY <1>0, Started DEF Phases, Stage
<1>2. Becomes(i, "maps", tasks[i].fresh, tasks[i].hit, tasks[i].lists, tasks[i].dead)
  BY <1>0, <1>1, Started, PassBecomes
<1>3. Pending' = Pending
  BY ClearPending
<1>4. Kept' = Kept
  BY <1>0 DEF Kept
<1>5. tasks[i].fresh \subseteq Ends(Added(i))
  BY <1>1 DEF Exact, FreshAreEnds
<1> QED BY <1>0, <1>1, <1>2, <1>3, <1>4, <1>5, MoveExact

\* Stage 5 deletes what is cut off; nothing the engine holds ends there.
LEMMA CommitExact ==
    ASSUME Basic, MapsInv, Whole, Exact, NEW i, DeleteSources(i) \/ DeleteDests(i) \/ DeleteEnts(i)
    PROVE  Exact'
<1>1. /\ UNCHANGED <<log, used, iMap, oMap, alloc, rc, out, lost>>
      /\ ents' \subseteq ents
      /\ \A e \in rels : e \in rels' \/ e[1] \in tasks[i].dead \/ e[2] \in tasks[i].dead
      /\ DeleteEnts(i) => ents' = ents \ tasks[i].dead
  BY DEF DeleteSources, DeleteDests, DeleteEnts, Without, mapVars, engineVars
<1>2. PICK q \in {"sources", "dests", "ents"} :
        /\ Turn(i, q)
        /\ Pass(i, IF q = "sources" THEN "dests" ELSE IF q = "dests" THEN "ents" ELSE "post")
        /\ q = "ents" => DeleteEnts(i)
  BY DEF DeleteSources, DeleteDests, DeleteEnts
<1> DEFINE p == IF q = "sources" THEN "dests" ELSE IF q = "dests" THEN "ents" ELSE "post"
<1>3. p \in {"dests", "ents", "post"} /\ Pass(i, p) /\ p \in Phases /\ (p = "post" => q = "ents")
  BY <1>2 DEF Phases, Stage
<1> HIDE DEF p
<1>4. Becomes(i, p, tasks[i].fresh, tasks[i].hit, tasks[i].lists, tasks[i].dead)
  BY <1>2, <1>3, Started, PassBecomes
<1>5. tasks[i].phase = q /\ i \in DOMAIN tasks /\ tasks[i].dead \subseteq Dead
  BY <1>2, Started DEF Dead
<1>6. Pending' = Pending
  BY <1>1, <1>3, <1>4, <1>5, MovePending
<1>7. Kept' = Kept
  BY <1>1 DEF Kept
<1>8. \A v \in Dead : CutOff(v, Kept, Pending)
  BY DEF Whole, CatInv, Reflects
<1>9. \A e \in Kept : e[2] \notin Dead
  <2>1. \A e \in Kept : \E s, t \in alloc : e = <<oMap[s], oMap[t]>>
    BY KeptIs DEF Whole, EngInv
  <2> QED BY <2>1, NamesIs
<1>10. \A e \in AddsOf(Pending) : e[2] \notin Dead
  <2> SUFFICES ASSUME NEW e \in AddsOf(Pending) PROVE e[2] \notin Dead
    OBVIOUS
  <2>1. PICK r \in Pending : r.op = "add" /\ r.edge = e
    BY DEF AddsOf
  <2>2. Pending \in SUBSET Operation /\ Kept \in SUBSET Schema
    BY PendingIs, KeptIs DEF Whole, EngInv
  <2>3. ~ CutOff(e[2], Kept, Pending)
    BY <2>1, <2>2, AddEndsReached DEF Whole, HistInv
  <2> QED BY <1>8, <2>3
<1>11. \A e \in rels : \/ e \in rels' \/ e \notin Kept \cup AddsOf(Pending)
                       \/ CutOff(e[1], Kept, Pending)
  BY <1>1, <1>5, <1>8, <1>9, <1>10
<1>12. p = "post" => tasks[i].dead \cap ents' = {}
  BY <1>1, <1>2, <1>3
<1> QED BY <1>1, <1>3, <1>4, <1>5, <1>6, <1>7, <1>11, <1>12, MoveExact

\* An ingest changes what is read, not what is pending.
LEMMA IngestExact ==
    ASSUME Basic, Exact, Ingest
    PROVE  Exact'
<1>1. UNCHANGED <<ents, rels, dropped, used, rows, iMap, oMap, alloc, rc, out, lost>>
  BY DEF Ingest, catalogVars, mapVars, engineVars
<1>2. Pending' = Pending /\ Dead' = Dead /\ Hits' = Hits
  BY IngestSets
<1>3. PICK new, last : Appends(new, last)
  BY IngestSets
<1>4. /\ DOMAIN tasks' = DOMAIN tasks \cup {last} /\ tasks'[last].phase = "store"
      /\ \A j \in DOMAIN tasks : tasks'[j] = tasks[j] /\ Added(j)' = Added(j)
  BY <1>3 DEF Appends, Added
<1>5. Kept' = Kept
  BY <1>1 DEF Kept
<1>6. GoneAreGone'
  BY <1>1, <1>4 DEF Exact, GoneAreGone
<1>7. FreshAreEnds'
  BY <1>4 DEF Exact, FreshAreEnds
<1>8. \A j \in DOMAIN tasks : tasks[j].phase = "adds" => \E k \in DOMAIN tasks' : tasks'[k] = tasks[j]
  BY <1>4
<1> QED BY <1>1, <1>2, <1>5, <1>6, <1>7, <1>8, StaysExact

\* A task that leaves has nothing in hand that the catalog has.
LEMMA LeavesExact ==
    ASSUME Basic, Exact, NEW i \in DOMAIN tasks, Finish(i), UNCHANGED <<ents, rels, alloc, rc, log>>,
           tasks[i].lists = {}, tasks[i].phase \notin {"init", "maps", "adds", "deletes"},
           \A s \in alloc : oMap'[s] = oMap[s], Kept' = Kept, tasks[i].dead \cap ents = {}
    PROVE  Exact'
<1>1. /\ Pending' = Pending /\ Hits' = Hits
      /\ Dead' \subseteq Dead /\ \A v \in Dead : v \in Dead' \/ v \in tasks[i].dead
  BY FinishSets
<1>2. PICK old : Stayed(i, old)
  BY OthersStay
<1>3. \A j \in DOMAIN tasks' : tasks'[j] = tasks[old[j]] /\ old[j] \in DOMAIN tasks
  BY <1>2 DEF Stayed
<1>4. \A j \in DOMAIN tasks' : Added(j)' = Added(old[j])
  BY <1>3 DEF Added
<1>5. GoneAreGone'
  BY <1>3 DEF Exact, GoneAreGone
<1>6. FreshAreEnds'
  BY <1>3, <1>4 DEF Exact, FreshAreEnds
<1>7. \A j \in DOMAIN tasks : tasks[j].phase = "adds" => \E k \in DOMAIN tasks' : tasks'[k] = tasks[j]
  BY <1>2 DEF Stayed
<1> QED BY <1>1, <1>5, <1>6, <1>7, StaysExact

\* postRCCommit comes when the entities are deleted.
LEMMA PostExact ==
    ASSUME Basic, MapsInv, Whole, Exact, NEW i, Post(i)
    PROVE  Exact'
<1>1. UNCHANGED <<ents, rels, dropped, used, alloc, rc, out, lost, log>>
  BY DEF Post, catalogVars, engineVars
<1>2. /\ Finish(i) /\ i \in DOMAIN tasks /\ Turn(i, "post")
      /\ DOMAIN iMap' = DOMAIN iMap \ tasks[i].dead /\ \A v \in DOMAIN iMap' : iMap'[v] = iMap[v]
      /\ DOMAIN oMap' = {s \in DOMAIN oMap : ~ (oMap[s] \in tasks[i].dead \cap DOMAIN iMap
                                                /\ iMap[oMap[s]] = s)}
      /\ \A s \in DOMAIN oMap' : oMap'[s] = oMap[s]
  BY PostIs
<1>3. tasks[i].lists = {} /\ tasks[i].phase = "post" /\ tasks[i].dead \subseteq Dead
  BY <1>2, Started DEF Dead
<1>4. \A s \in alloc : oMap'[s] = oMap[s]
  <2>1. \A s \in alloc : s \in DOMAIN oMap /\ oMap[s] \notin tasks[i].dead
    BY <1>3, NamesIs
  <2> QED BY <1>2, <2>1
<1>5. Kept' = Kept
  BY <1>1, <1>2, <1>3, <1>4, FinishEngine DEF Whole
<1>6. tasks[i].dead \cap ents = {}
  BY <1>2, <1>3 DEF Exact, GoneAreGone
<1> QED BY <1>1, <1>2, <1>3, <1>4, <1>5, <1>6, LeavesExact

\* A task that is given up in stage 1 has taken nothing.
LEMMA FailExact ==
    ASSUME Basic, Exact, NEW i, Fail(i), ~ lost'
    PROVE  Exact'
<1>1. /\ i \in DOMAIN tasks /\ Finish(i)
      /\ UNCHANGED <<ents, rels, dropped, used, rows, iMap, oMap, alloc, rc, out>>
      /\ log' = log /\ tasks[i].phase = "clear"
  BY DEF Fail, Turn, catalogVars, mapVars, engineVars
<1>2. tasks[i].lists = {} /\ tasks[i].dead = {}
  BY <1>1 DEF Basic, TasksFit, TaskFits, Unapplied
<1>3. Kept' = Kept
  BY <1>1 DEF Kept
<1> QED BY <1>1, <1>2, <1>3, LeavesExact
-----------------------------------------------------------------------------
(* Nothing leaks: steps of the engine.                                      *)

\* What is reached is the root or the end of an edge.
LEMMA ReachedByEdge ==
    ASSUME NEW G \in SUBSET Schema, NEW v \in Reach(G), v # Root
    PROVE  \E e \in G : e[2] = v
<1> SUFFICES ASSUME \A e \in G : e[2] # v PROVE FALSE
  OBVIOUS
<1> DEFINE S == Vertices \ {v}
<1>1. Closed(S, G)
  <2>1. \A e \in G : e[2] \in Vertices
    BY PipelineOK
  <2> QED BY <2>1, PipelineOK, ClosedIs
<1>2. Reach(G) \subseteq S
  BY <1>1, ReachIsLeast
<1> QED BY <1>2

\* A vertex that gets a slot in stage 2 is the destination of an added reference.
LEMMA FreshAreDests ==
    ASSUME Basic, MapsInv, Whole, EndsFound, NEW i, Turn(i, "maps"),
           NEW v \in tasks[i].fresh, v \in Ends(Added(i))
    PROVE  \E r \in Added(i) : r.edge[2] = v
<1>1. /\ i \in DOMAIN tasks /\ tasks[i].phase = "maps" /\ TaskFits(tasks[i], rows, used)
      /\ ReadFrom(tasks[i], log) /\ tasks \in Seq(Task)
  BY Started
<1>2. v \notin DOMAIN iMap
  BY <1>1 DEF MapsInv, FreshHaveNoSlot
<1>3. PICK r \in Added(i) : v = r.edge[1] \/ v = r.edge[2]
  BY DEF Ends
<1>4. /\ Pending \in SUBSET Operation /\ Kept \in SUBSET Schema
      /\ \A x \in Pending : \E q \in PendingRows : x = Op(q)
      /\ \A q \in PendingRows : Fits(q, rows, used) /\ Op(q) \in Pending
  BY PendingIs, KeptIs DEF Whole, EngInv
<1>5. r \in tasks[i].rows /\ r.op = "add" /\ r \in PendingRows
  BY <1>1 DEF Added, PendingRows, Waiting
<1>6. /\ Op(r) \in Pending /\ Op(r).id = r.id /\ Op(r).op = "add" /\ Op(r).edge = r.edge /\ r.id \in Nat
  BY <1>4, <1>5, OpIs
<1> DEFINE c == {q \in Pending : q.op = "add" /\ q.id < r.id}
<1>7. c \in SUBSET Pending /\ c \in SUBSET Operation
  BY <1>4
<1>8. Cut(c, Pending) /\ Around(Op(r), c, Pending)
  <2>1. \A q \in Pending : q.id \in Nat
    BY <1>4, OpsOf
  <2>2. \A q \in Pending, p \in c : q.op = "add" /\ q.id < p.id => q \in c
    BY <2>1, <1>6
  <2> QED BY <2>2, <1>6 DEF Cut, Around
<1>9. r.edge[1] \in Reach(Graph(Kept, c))
  BY <1>6, <1>7, <1>8 DEF Whole, HistInv, Sourced, SourcedBy
<1>10. Graph(Kept, c) \in SUBSET Schema
  BY <1>4, <1>7, GraphIs
<1>11. Root \in DOMAIN iMap
  BY NamesIs DEF Whole, EngInv, EngMaps
<1>12. CASE v = r.edge[1]
  <2>1. PICK e \in Graph(Kept, c) : e[2] = v
    BY <1>2, <1>9, <1>10, <1>11, <1>12, ReachedByEdge
  <2>2. e \notin Kept
    <3> SUFFICES ASSUME e \in Kept PROVE FALSE
      OBVIOUS
    <3>1. PICK s \in alloc, t \in alloc : e = <<oMap[s], oMap[t]>>
      BY KeptIs DEF Whole, EngInv
    <3> QED BY <3>1, <2>1, <1>2, NamesIs
  <2>3. PICK x \in c : x.edge = e
    BY <2>2 DEF Graph, AddsOf
  <2>4. PICK q \in PendingRows : x = Op(q)
    BY <2>3, <1>4
  <2>5. q.op = "add" /\ q.id < r.id /\ q.edge[2] = v /\ q.id \in Nat
    BY <2>1, <2>3, <2>4, <1>4, OpIs
  <2>6. CASE q \in log
    <3>1. q \in tasks[i].rows
      BY <2>5, <2>6, <1>1, <1>5, <1>6 DEF ReadFrom, AtOnce
    <3> QED BY <3>1, <2>5 DEF Added
  <2>7. CASE q \notin log
    <3>1. PICK j \in DOMAIN tasks : q \in Waiting(tasks[j])
      BY <2>7 DEF PendingRows
    <3>2. q \in tasks[j].rows /\ q \in Added(j) /\ tasks[j].phase \in {"maps", "adds"}
      BY <3>1, <2>5 DEF Waiting, Added
    <3>3. CASE j = i
      BY <3>2, <3>3, <2>5
    <3>4. DOMAIN tasks = 1..Len(tasks) /\ Len(tasks) \in Nat
      BY <1>1, TaskTypes
    <3>5. CASE i < j
      <4>1. r.id < q.id
        BY <3>2, <3>5, <1>1, <1>5 DEF Basic, TasksFit, Before
      <4> QED BY <4>1, <2>5, <1>6
    <3>6. CASE j < i
      <4>1. j \in 1..(Len(tasks) - 1)
        BY <3>4, <3>6, <1>1
      <4>2. tasks[j].phase = "adds"
        BY <4>1, <3>2 DEF MapsInv, InTurn, Early
      <4>3. v \in DOMAIN iMap
        BY <4>2, <3>2, <2>5 DEF EndsFound, Ends
      <4> QED BY <4>3, <1>2
    <3> QED BY <3>3, <3>4, <3>5, <3>6, <1>1
  <2> QED BY <2>6, <2>7
<1> QED BY <1>3, <1>12

\* A step of a task that is neither before stage 2 nor at stage 6 then.
LEMMA MovedOn ==
    ASSUME Exact, NEW i, NEW p, NEW f, NEW h, NEW l, NEW d, Becomes(i, p, f, h, l, d),
           p \notin {"clear", "maps", "post"}, ents' = ents
    PROVE  GoneAreGone' /\ FreshAreEnds'
<1>1. /\ DOMAIN tasks' = DOMAIN tasks
      /\ \A j \in DOMAIN tasks : tasks'[j].phase \in {"clear", "maps", "post"} => tasks'[j] = tasks[j]
      /\ \A j \in DOMAIN tasks : Added(j)' = Added(j)
  BY DEF Becomes, Added
<1>2. GoneAreGone'
  BY <1>1 DEF Exact, GoneAreGone
<1>3. FreshAreEnds'
  BY <1>1 DEF Exact, FreshAreEnds
<1> QED BY <1>2, <1>3

\* Stage 2 gives slots to what is about to be referred to.
LEMMA MapsExact ==
    ASSUME Basic, MapsInv, Whole, EndsFound, Exact, NEW i, Maps(i)
    PROVE  Exact'
<1>1. /\ Turn(i, "maps") /\ Pass(i, "adds") /\ UNCHANGED <<ents, rels, dropped, used, log, rows, lost>>
  BY DEF Maps, catalogVars
<1>2. i \in DOMAIN tasks /\ tasks[i].phase = "maps" /\ tasks \in Seq(Task) /\ "adds" \in Phases
  BY <1>1, Started DEF Phases, Stage
<1>3. Becomes(i, "adds", tasks[i].fresh, tasks[i].hit, tasks[i].lists, tasks[i].dead)
  BY <1>1, <1>2, PassBecomes
<1>4. /\ DOMAIN tasks' = DOMAIN tasks /\ \A j \in DOMAIN tasks : j # i => tasks'[j] = tasks[j]
      /\ tasks'[i].phase = "adds" /\ tasks'[i].rows = tasks[i].rows
  BY <1>3 DEF Becomes
<1>5. /\ rc' = rc /\ Kept' = Kept
      /\ \A s \in alloc : oMap'[s] = oMap[s] /\ s \in Slots /\ s \in alloc'
      /\ \A s \in alloc' : s \in Slots /\ (s \in alloc \/ oMap'[s] \in tasks[i].fresh)
  BY MapsKept
<1>6. Pending' = Pending
  BY <1>1, <1>2, <1>3, MovePending
<1>7. Dead' = Dead /\ Hits' = Hits
  BY <1>2, <1>3, MoveSets
<1>8. \A j \in DOMAIN tasks : Added(j)' = Added(j)
  BY <1>4 DEF Added
<1>9. ZeroesGo'
  <2> SUFFICES ASSUME NEW s \in alloc', rc'[s] = 0, s # RootSlot, s \notin Hits'
               PROVE  Awaited(s)'
    BY DEF ZeroesGo
  <2>1. CASE s \in alloc
    <3>1. Awaited(s)
      BY <2>1, <1>5, <1>7 DEF Exact, ZeroesGo
    <3>2. PICK j \in DOMAIN tasks : tasks[j].phase = "adds" /\ \E r \in Added(j) : r.edge[2] = oMap[s]
      BY <3>1 DEF Awaited
    <3>3. j # i /\ tasks'[j].phase = "adds" /\ oMap'[s] = oMap[s]
      BY <3>2, <2>1, <1>2, <1>4, <1>5
    <3> QED BY <3>2, <3>3, <1>4, <1>8 DEF Awaited
  <2>2. CASE s \notin alloc
    <3>1. oMap'[s] \in tasks[i].fresh
      BY <2>2, <1>5
    <3>2. oMap'[s] \in Ends(Added(i))
      BY <3>1, <1>2 DEF Exact, FreshAreEnds
    <3>3. \E r \in Added(i) : r.edge[2] = oMap'[s]
      BY <3>1, <3>2, <1>1, FreshAreDests
    <3> QED BY <3>3, <1>2, <1>4, <1>8 DEF Awaited
  <2> QED BY <2>1, <2>2
<1>10. InForce(rels, Kept, Pending)'
  BY <1>1, <1>5, <1>6 DEF Exact, InForce
<1>11. EntsTracked'
  BY <1>1, <1>5, <1>6, <1>7 DEF Exact, EntsTracked, Tracked
<1>12. GoneAreGone' /\ FreshAreEnds'
  BY <1>1, <1>3, MovedOn
<1> QED BY <1>9, <1>10, <1>11, <1>12 DEF Exact

\* What is referred to counts from stage 3 on.
LEMMA AddsExact ==
    ASSUME Basic, MapsInv, Whole, EndsFound, Exact, NEW i, Adds(i)
    PROVE  Exact'
<1>0. /\ Turn(i, "adds") /\ Pass(i, "deletes")
      /\ UNCHANGED <<ents, rels, dropped, used, log, iMap, oMap, alloc, lost>>
  BY DEF Adds, catalogVars, mapVars
<1>1. tasks[i].phase = "adds" /\ i \in DOMAIN tasks /\ "deletes" \in Phases
  BY <1>0, Started DEF Phases, Stage
<1>2. Becomes(i, "deletes", tasks[i].fresh, tasks[i].hit, tasks[i].lists, tasks[i].dead)
  BY <1>0, <1>1, Started, PassBecomes
<1>3. PICK pos : Puts(i, pos)
  BY AddsIs DEF Puts
<1>4. Dead' = Dead /\ Hits' = Hits
  BY <1>1, <1>2, MoveSets
<1> DEFINE K == Kept
           U == Pending
           A == Ops(Added(i))
<1>5. /\ A \in SUBSET U /\ Pending' = U \ A /\ AddsOf(A) = {r.edge : r \in Added(i)}
      /\ \A a \in A : a.op = "add"
      /\ \A a \in A, q \in U \ A : q.op = "add" => a.id < q.id
  BY AddsApplied
<1>6. U \in SUBSET Operation /\ K \in SUBSET Schema
  BY PendingIs, KeptIs DEF Whole, EngInv
<1>7. Kept' = K \cup AddsOf(A)
  BY <1>1, <1>3, AddsKept
<1>8. \A v \in Ends(Added(i)) : pos[v] \in alloc /\ pos[v] \in Slots /\ oMap[pos[v]] = v
  BY <1>1, <1>3, PutsWell
<1>9. \A r \in Added(i) : r.edge[2] \in Ends(Added(i)) /\ oMap[pos[r.edge[2]]] = r.edge[2]
                          /\ pos[r.edge[2]] \in alloc /\ pos[r.edge[2]] \in Slots
  BY <1>1, <1>8, AddsRows
<1>10. ZeroesGo'
  <2> SUFFICES ASSUME NEW s \in alloc, rc'[s] = 0, s # RootSlot, s \notin Hits
               PROVE  Awaited(s)'
    BY <1>0, <1>4 DEF ZeroesGo
  <2>1. s \in Slots /\ oMap[s] \in DOMAIN iMap /\ iMap[oMap[s]] = s
    BY NamesIs
  <2>2. rc'[s] = rc[s] + Cardinality(Into(i, pos, s))
    BY <1>3, <2>1 DEF Puts
  <2>3. rc[s] \in Nat /\ Cardinality(Into(i, pos, s)) \in Nat
    BY <1>1, <1>3, <2>1, CountsAreNat, IntoIs
  <2>4. \A a, b \in Nat : a + b = 0 => a = 0 /\ b = 0
    OBVIOUS
  <2>5. rc[s] = 0 /\ Cardinality(Into(i, pos, s)) = 0
    BY <2>2, <2>3, <2>4
  <2>6. Into(i, pos, s) = {}
    <3>1. Into(i, pos, s) \in SUBSET Added(i) /\ IsFiniteSet(Added(i))
      BY <1>1, AddsRows DEF Into
    <3>2. IsFiniteSet(Into(i, pos, s))
      BY <3>1, CountType
    <3> QED BY <2>5, <3>2, FS_EmptySet
  <2>7. PICK j \in DOMAIN tasks : tasks[j].phase = "adds" /\ \E r \in Added(j) : r.edge[2] = oMap[s]
    BY <2>5 DEF Exact, ZeroesGo, Awaited
  <2>8. j # i
    <3> SUFFICES ASSUME NEW r \in Added(i), r.edge[2] = oMap[s] PROVE FALSE
      BY <2>7
    <3>1. pos[r.edge[2]] \in alloc /\ oMap[pos[r.edge[2]]] = oMap[s]
      BY <1>9
    <3>2. pos[r.edge[2]] = s
      BY <2>1, <3>1, NamesIs
    <3> QED BY <2>6, <3>2 DEF Into
  <2>9. j \in DOMAIN tasks' /\ tasks'[j] = tasks[j] /\ Added(j)' = Added(j)
    BY <1>2, <2>8 DEF Becomes, Added
  <2> QED BY <1>0, <2>7, <2>9 DEF Awaited
<1>11. AddsOf(U) = AddsOf(A) \cup AddsOf(U \ A) /\ DropsOf(U) = DropsOf(U \ A)
  BY <1>5 DEF AddsOf, DropsOf
<1>12. EntsTracked'
  <2> SUFFICES ASSUME NEW v \in ents PROVE Tracked(v)'
    BY <1>0 DEF EntsTracked
  <2>1. Tracked(v)
    BY DEF Exact, EntsTracked
  <2>2. CASE \E e \in AddsOf(U) : e[2] = v
    <3>1. CASE \E e \in AddsOf(U \ A) : e[2] = v
      BY <1>5, <3>1 DEF Tracked
    <3>2. CASE \E e \in AddsOf(A) : e[2] = v
      <4>1. PICK r \in Added(i) : r.edge[2] = v
        BY <1>5, <3>2
      <4>2. pos[v] \in alloc /\ oMap[pos[v]] = v
        BY <1>9, <4>1
      <4> QED BY <1>0, <4>2 DEF Tracked
    <3> QED BY <2>2, <3>1, <3>2, <1>11
  <2>3. CASE v \in Dead \/ \E s \in alloc : oMap[s] = v
    BY <1>0, <1>4, <2>3 DEF Tracked
  <2> QED BY <2>1, <2>2, <2>3 DEF Tracked
<1>13. InForce(rels, Kept, Pending)'
  <2> HIDE DEF K, U, A
  <2>1. Shift(K, U, Old, K \cup AddsOf(A), U \ A, Old, A)
    BY <1>5, <1>6, AddsShift
  <2>2. \A v : CutOff(v, K, U) => CutOff(v, K \cup AddsOf(A), U \ A)
    BY <1>5, <2>1, ShiftCutOff
  <2>3. InForce(rels, K, U)
    BY DEF Exact, K, U
  <2>4. InForce(rels, K \cup AddsOf(A), U \ A)
    BY <1>11, <2>2, <2>3 DEF InForce
  <2> QED BY <1>0, <1>5, <1>7, <2>4
<1>14. GoneAreGone' /\ FreshAreEnds'
  BY <1>0, <1>2, MovedOn
<1> QED BY <1>10, <1>12, <1>13, <1>14 DEF Exact

\* What counts nothing when stage 3 has dropped references is hit.
LEMMA DeletesExact ==
    ASSUME Ordered, Basic, MapsInv, Whole, Exact, NEW i, Deletes(i)
    PROVE  Exact'
<1>0. Turn(i, "deletes") /\ UNCHANGED <<ents, rels, dropped, used, log, iMap, oMap, alloc, lost>>
  BY DEF Deletes, catalogVars, mapVars
<1>1. tasks[i].phase = "deletes" /\ i \in DOMAIN tasks
  BY <1>0, Started
<1>2. Becomes(i, "init", tasks[i].fresh, Zeroed(Less(i)), tasks[i].lists, tasks[i].dead)
  BY <1>0, <1>1, Started, DeletesBecomes DEF Basic, Types
<1>3. Dead' = Dead /\ Hits' = Hits \cup Zeroed(Less(i))
  BY <1>1, <1>2, NewHits
<1> DEFINE K == Kept
           U == Pending
           D == Ops(Removed(i))
<1>4. D \in SUBSET U /\ Pending' = U \ D
  <2>1. Waiting(tasks'[i]) = {}
    BY <1>2 DEF Waiting, Becomes
  <2>2. Removed(i) \in SUBSET Waiting(tasks[i]) /\ Waiting(tasks'[i]) = Waiting(tasks[i]) \ Removed(i)
    BY <1>1, <2>1, DropsRows
  <2> QED BY <1>0, <1>2, <2>2, Applied
<1>5. Kept' = K \ DropsOf(D)
  BY <1>1, DropsKept
<1>6. U \in SUBSET Operation /\ K \in SUBSET Schema
  BY PendingIs, KeptIs DEF Whole, EngInv
<1>7. \A x \in D : x.op = "drop" /\ \A q \in U : q.op = "add" => x.id < q.id
  <2>1. \A r \in Removed(i) : Op(r).op = "drop"
    BY <1>1, DropsRows
  <2> QED BY <1>0, <2>1, DropsFirst DEF Ops
<1>8. AddsOf(U \ D) = AddsOf(U) /\ DropsOf(U) = DropsOf(D) \cup DropsOf(U \ D)
  BY <1>4, <1>7 DEF AddsOf, DropsOf
<1>9. ZeroesGo'
  <2> SUFFICES ASSUME NEW s \in alloc, rc'[s] = 0, s # RootSlot, s \notin Hits'
               PROVE  Awaited(s)'
    BY <1>0 DEF ZeroesGo
  <2>1. s \in Slots
    BY NamesIs
  <2>2. rc[s] = 0
    <3>1. rc[s] \in Nat /\ Less(i)[s] \in Nat /\ rc'[s] = rc[s] - Less(i)[s]
      BY <1>1, <2>1, CountsAreNat, LessCounted
    <3>2. \A a, b \in Nat : a - b = 0 => b >= a /\ (a > 0 \/ a = 0)
      OBVIOUS
    <3>3. Less(i)[s] >= rc[s] /\ (rc[s] > 0 \/ rc[s] = 0)
      BY <3>1, <3>2
    <3>4. ~ (rc[s] > 0 /\ Less(i)[s] >= rc[s])
      BY <1>3 DEF Zeroed
    <3> QED BY <3>3, <3>4
  <2>3. PICK j \in DOMAIN tasks : tasks[j].phase = "adds" /\ \E r \in Added(j) : r.edge[2] = oMap[s]
    BY <1>3, <2>2 DEF Exact, ZeroesGo, Awaited
  <2>4. j \in DOMAIN tasks' /\ tasks'[j] = tasks[j] /\ Added(j)' = Added(j)
    BY <1>1, <1>2, <2>3 DEF Becomes, Added
  <2> QED BY <1>0, <2>3, <2>4 DEF Awaited
<1>10. EntsTracked'
  BY <1>0, <1>3, <1>4, <1>8 DEF Exact, EntsTracked, Tracked
<1>11. InForce(rels, Kept, Pending)'
  <2>1. \A e \in AddsOf(U) : e \notin DropsOf(D)
    <3> SUFFICES ASSUME NEW x \in D, NEW q \in U, q.op = "add", q.edge = x.edge PROVE FALSE
      BY <1>7 DEF AddsOf, DropsOf
    <3>1. x \in U /\ x.op = "drop" /\ x.id < q.id
      BY <1>4, <1>7
    <3>2. q.id < x.id
      BY <3>1 DEF Whole, HistInv, Unique, UniqueTo
    <3>3. x.id \in Nat /\ q.id \in Nat
      BY <1>6, <3>1, OpsOf
    <3> QED BY <3>1, <3>2, <3>3
  <2>2. Unique(K, U)
    BY DEF Whole, HistInv
  <2>3. InForce(rels, K, U)
    BY DEF Exact
  <2> HIDE DEF K, U, D
  <2>4. Shift(K, U, Old, K \ DropsOf(D), U \ D, Old, D)
    BY <1>4, <1>6, <1>7, <2>2, DropsShift
  <2>5. \A v : CutOff(v, K, U) => CutOff(v, K \ DropsOf(D), U \ D)
    BY <1>4, <2>4, ShiftCutOff
  <2>6. InForce(rels, K \ DropsOf(D), U \ D)
    BY <1>8, <2>1, <2>3, <2>5 DEF InForce
  <2> QED BY <1>0, <1>4, <1>5, <2>6
<1>12. GoneAreGone' /\ FreshAreEnds'
  BY <1>0, <1>2, MovedOn
<1> QED BY <1>9, <1>10, <1>11, <1>12 DEF Exact

\* What execRC takes it has in hand; what then counts nothing is taken too.
LEMMA TakeExact ==
    ASSUME Basic, MapsInv, Whole, Exact, NEW i, NEW q \in {"init", "cascade"}, Turn(i, q),
           NEW slots \in SUBSET alloc, NEW rest \in SUBSET tasks[i].lists, Take(i, slots, rest),
           \A t \in alloc \ slots : rc'[t] = 0 => rc[t] = 0,
           q = "init" => tasks[i].hit \cap alloc \subseteq slots,
           UNCHANGED <<ents, rels, dropped, used, log, rows, iMap, oMap, lost>>
    PROVE  Exact'
<1>1. i \in DOMAIN tasks /\ tasks[i].phase = q
  BY Started
<1>2. Becomes(i, AfterTake(Active(slots, rest)), tasks[i].fresh, tasks[i].hit,
              Active(slots, rest), tasks[i].dead \cup Owners(slots))
  BY TakeIs
<1>3. AfterTake(Active(slots, rest)) \in {"sources", "cascade"}
  BY DEF AfterTake
<1>4. Pending' = Pending
  BY <1>1, <1>2, <1>3, MovePending
<1>5. /\ alloc' = alloc \ slots
      /\ out' = [s \in Slots |-> IF s \in slots THEN Nowhere ELSE out[s]]
  BY DEF Take
<1>6. /\ DOMAIN tasks' = DOMAIN tasks /\ tasks'[i].dead = tasks[i].dead \cup Owners(slots)
      /\ \A j \in DOMAIN tasks : j # i => tasks'[j] = tasks[j]
  BY <1>2 DEF Becomes
<1>7. \A v \in Dead \cup Owners(slots) : v \in Dead'
  <2>1. \A v : v \in Dead' <=> \E j \in DOMAIN tasks : v \in tasks'[j].dead
    BY <1>6 DEF Dead
  <2>2. \A v : v \in Dead <=> \E j \in DOMAIN tasks : v \in tasks[j].dead
    BY DEF Dead
  <2> QED BY <1>1, <1>6, <2>1, <2>2
<1>8. ZeroesGo'
  <2> SUFFICES ASSUME NEW s \in alloc \ slots, rc'[s] = 0, s # RootSlot, s \notin Hits'
               PROVE  Awaited(s)'
    BY <1>5 DEF ZeroesGo
  <2>1. s \notin Hits
    <3> SUFFICES ASSUME NEW j \in DOMAIN tasks, s \in HitBy(tasks[j]) PROVE FALSE
      BY DEF Hits
    <3>1. CASE j = i
      BY <1>1, <3>1 DEF HitBy
    <3>2. CASE j # i
      BY <1>6, <3>2 DEF Hits
    <3> QED BY <3>1, <3>2
  <2>2. PICK j \in DOMAIN tasks : tasks[j].phase = "adds" /\ \E r \in Added(j) : r.edge[2] = oMap[s]
    BY <2>1 DEF Exact, ZeroesGo, Awaited
  <2>3. j \in DOMAIN tasks' /\ tasks'[j] = tasks[j] /\ Added(j)' = Added(j)
    BY <1>1, <1>6, <2>2 DEF Added
  <2> QED BY <2>2, <2>3 DEF Awaited
<1>9. EntsTracked'
  <2> SUFFICES ASSUME NEW v \in ents PROVE Tracked(v)'
    BY DEF EntsTracked
  <2>1. CASE \E s \in alloc : oMap[s] = v
    <3>1. PICK s \in alloc : oMap[s] = v
      BY <2>1
    <3>2. s \in slots => v \in Owners(slots)
      BY <3>1, NamesIs DEF Owners
    <3> QED BY <1>5, <1>7, <3>1, <3>2 DEF Tracked
  <2> QED BY <2>1, <1>4, <1>7 DEF Exact, EntsTracked, Tracked
<1>10. Kept' \subseteq Kept
  <2> SUFFICES ASSUME NEW e \in Kept' PROVE e \in Kept
    OBVIOUS
  <2>1. PICK s \in alloc \ slots, t \in alloc \ slots : out'[s][t] > 0 /\ e = <<oMap[s], oMap[t]>>
    BY <1>5, HeldIs DEF Kept
  <2>2. s \in Slots
    BY NamesIs
  <2>3. out[s][t] > 0
    BY <1>5, <2>1, <2>2
  <2> QED BY <2>1, <2>3, HeldIs DEF Kept
<1>11. \A v : CutOff(v, Kept, Pending) => CutOff(v, Kept', Pending)
  <2>1. Kept \in SUBSET Schema /\ Pending \in SUBSET Operation
    BY KeptIs, PendingIs DEF Whole, EngInv
  <2>2. ASSUME NEW c \in SUBSET Pending
        PROVE  Reach(Graph(Kept', c)) \subseteq Reach(Graph(Kept, c))
    <3>1. Graph(Kept, c) \in SUBSET Schema
      BY <2>1, GraphIs
    <3>2. Graph(Kept', c) \in SUBSET Graph(Kept, c)
      BY <1>10 DEF Graph
    <3> QED BY <3>1, <3>2, ReachIsMonotone
  <2> QED BY <2>2 DEF CutOff
<1>12. InForce(rels, Kept, Pending)'
  <2>1. InForce(rels, Kept, Pending)
    BY DEF Exact
  <2>2. InForce(rels, Kept', Pending)
    BY <1>10, <1>11, <2>1 DEF InForce
  <2> QED BY <1>4, <2>2
<1>13. GoneAreGone' /\ FreshAreEnds'
  BY <1>2, <1>3, MovedOn
<1> QED BY <1>8, <1>9, <1>12, <1>13 DEF Exact

\* execRC starts with all that was hit.
LEMMA StartExact ==
    ASSUME Basic, MapsInv, Whole, Exact, NEW i, Start(i)
    PROVE  Exact'
<1> DEFINE slots == tasks[i].hit \cap alloc
<1>1. Turn(i, "init") /\ UNCHANGED <<ents, rels, dropped, used, log, rows, iMap, oMap, lost>>
  BY DEF Start, catalogVars, mapVars
<1>2. Take(i, slots, {}) /\ rc' = [s \in Slots |-> IF s \in slots THEN 0 ELSE rc[s]]
  BY DEF Start
<1>3. \A t \in alloc \ slots : rc'[t] = rc[t]
  BY <1>2, NamesIs
<1>4. slots \in SUBSET alloc /\ {} \in SUBSET tasks[i].lists /\ tasks[i].hit \cap alloc \subseteq slots
  OBVIOUS
<1> HIDE DEF slots
<1> QED BY <1>1, <1>2, <1>3, <1>4, TakeExact

\* It goes on with what loses its last reference with a list.
LEMMA CascadeExact ==
    ASSUME Basic, MapsInv, Whole, Exact, NEW i, Cascade(i)
    PROVE  Exact'
<1>1. Turn(i, "cascade") /\ UNCHANGED <<ents, rels, dropped, used, log, rows, iMap, oMap, lost>>
  BY DEF Cascade, catalogVars, mapVars
<1>2. PICK list \in tasks[i].lists :
        /\ Take(i, Zeroed(list[2]), tasks[i].lists \ {list})
        /\ rc' = [t \in Slots |-> IF t \in Zeroed(list[2]) THEN 0
                                  ELSE IF t \in alloc THEN rc[t] - list[2][t] ELSE rc[t]]
  BY DEF Cascade
<1> DEFINE less == list[2]
           slots == Zeroed(less)
<1>3. ASSUME NEW t \in alloc \ slots, rc'[t] = 0 PROVE rc[t] = 0
  <2>1. t \in Slots
    BY NamesIs
  <2>2. rc[t] \in Nat /\ less[t] \in Nat
    BY <1>1, <2>1, CountsAreNat, ListsTypes, Started
  <2>3. rc[t] - less[t] = 0
    BY <1>2, <1>3, <2>1
  <2>4. ~ (rc[t] > 0 /\ less[t] >= rc[t])
    BY DEF Zeroed
  <2>5. \A a, b \in Nat : a - b = 0 /\ ~ (a > 0 /\ b >= a) => a = 0
    OBVIOUS
  <2> HIDE DEF less
  <2> QED BY <2>2, <2>3, <2>4, <2>5
<1>4. slots \in SUBSET alloc /\ tasks[i].lists \ {list} \in SUBSET tasks[i].lists
  BY DEF Zeroed
<1>5. "cascade" # "init"
  OBVIOUS
<1> QED BY <1>1, <1>2, <1>3, <1>4, <1>5, TakeExact

\* Clients refer to nothing that goes, and what they drop is pending.
LEMMA ClientExact ==
    ASSUME IInv, ~lost, Exact, NEW e \in Schema, Refer(e) \/ DropRel(e) \/ DropRoot(e)
    PROVE  Exact'
<1>1. Basic /\ MapsInv /\ Whole
  BY DEF IInv, Deep
<1> DEFINE K == Kept
           U == Pending
           W == used \cup {Root}
<1>2. UNCHANGED <<iMap, oMap, alloc, rc, out, tasks>>
  BY ClientIs
<1>3. Kept' = K /\ Dead' = Dead
  BY <1>2, EngineStays
<1>4. Hits' = Hits
  BY <1>2 DEF Hits
<1>5. \A j \in DOMAIN tasks : Added(j)' = Added(j)
  BY <1>2 DEF Added
<1>6. ZeroesGo' /\ FreshAreEnds'
  BY <1>2, <1>4, <1>5 DEF Exact, ZeroesGo, FreshAreEnds, Awaited
<1>7. /\ K \in SUBSET Schema /\ U \in SUBSET Operation /\ Within(W, K, U, Old)
      /\ Live \subseteq Reach(Graph(K, U)) /\ e[2] # Root
  BY <1>1, KeptIs, PendingIs, HistoryIsWithin, LiveIsReached, PipelineOK DEF Whole, EngInv
<1>8. InForce(rels, K, U) /\ EntsTracked /\ GoneAreGone
  BY DEF Exact
<1>9. ASSUME Refer(e) PROVE InForce(rels, Kept, Pending)' /\ EntsTracked' /\ GoneAreGone'
  <2>1. /\ (e[2] \in Live /\ e[1] # Root) \/ e[2] \notin used
        /\ log' = log \cup {Written("add", e)}
        /\ ents' = ents \cup {e[2]} /\ rels' = rels \cup {e}
    BY <1>9 DEF Refer, Write, Written
  <2>2. PICK n : /\ Newest(n, U) /\ n.op = "add" /\ n.edge = e /\ Pending' = U \cup {n}
                 /\ AddsOf(Pending') = AddsOf(U) \cup {e} /\ DropsOf(Pending') = DropsOf(U)
    BY <1>1, <1>2, <2>1, WrittenIs
  <2>3. n.edge[2] \in Reach(Graph(K, U)) \/ n.edge[2] \notin W
    BY <1>7, <2>1, <2>2
  <2>4. e[2] \notin Dead
    BY <1>7, <2>1, LiveIsKept
  <2>5. GoneAreGone'
    <3>1. \A j \in DOMAIN tasks : tasks[j].dead \subseteq Dead
      BY DEF Dead
    <3> QED BY <1>2, <1>8, <2>1, <2>4, <3>1 DEF GoneAreGone
  <2>6. EntsTracked'
    <3>1. e \in AddsOf(Pending')
      BY <2>2
    <3>2. Tracked(e[2])'
      BY <3>1 DEF Tracked
    <3>3. \A v \in ents : Tracked(v)'
      BY <1>2, <1>3, <1>8, <2>2 DEF EntsTracked, Tracked
    <3> QED BY <2>1, <3>2, <3>3 DEF EntsTracked
  <2>7. \A f \in K \cup AddsOf(U) : f[1] \in W
    BY <1>7 DEF Within
  <2> HIDE DEF K, U, W
  <2>8. \A v \in W : CutOff(v, K, U) => CutOff(v, K, U \cup {n})
    BY <1>7, <2>2, <2>3, NewAddCutOff
  <2>9. InForce(rels', K, Pending')
    BY <1>8, <2>1, <2>2, <2>7, <2>8 DEF InForce
  <2> QED BY <1>3, <2>5, <2>6, <2>9
<1>10. ASSUME DropRel(e) \/ DropRoot(e) PROVE InForce(rels, Kept, Pending)' /\ EntsTracked' /\ GoneAreGone'
  <2>1. log' = log \cup {Written("drop", e)} /\ ents' = ents /\ rels' = rels \ {e}
    BY <1>10 DEF DropRel, DropRoot, Write, Written
  <2>2. PICK n : /\ Newest(n, U) /\ n.op = "drop" /\ n.edge = e /\ Pending' = U \cup {n}
                 /\ AddsOf(Pending') = AddsOf(U) /\ DropsOf(Pending') = DropsOf(U) \cup {e}
    BY <1>1, <1>2, <2>1, WrittenIs
  <2>3. GoneAreGone'
    BY <1>2, <1>8, <2>1 DEF GoneAreGone
  <2>4. EntsTracked'
    BY <1>2, <1>3, <1>8, <2>1, <2>2 DEF EntsTracked, Tracked
  <2> HIDE DEF K, U, W
  <2>5. \A v : CutOff(v, K, U) => CutOff(v, K, U \cup {n})
    BY <1>7, <2>2, NewDropCutOff
  <2>6. InForce(rels', K, Pending')
    BY <1>8, <2>1, <2>2, <2>5 DEF InForce
  <2> QED BY <1>3, <2>3, <2>4, <2>6
<1> QED BY <1>6, <1>9, <1>10 DEF Exact
-----------------------------------------------------------------------------
(* Nothing leaks: all steps.                                                *)

\* A step in which nothing happens.
LEMMA StutterExact ==
    ASSUME Exact, UNCHANGED vars
    PROVE  Exact'
<1>1. UNCHANGED <<ents, rels, log, oMap, alloc, rc, out, tasks>>
  BY DEF vars, catalogVars, mapVars, engineVars
<1>2. Kept' = Kept /\ Pending' = Pending /\ Hits' = Hits /\ Dead' = Dead
  BY <1>1 DEF Kept, Pending, PendingRows, Hits, Dead
<1>3. GoneAreGone'
  BY <1>1 DEF Exact, GoneAreGone
<1>4. FreshAreEnds'
  <2>1. \A j \in DOMAIN tasks : Added(j)' = Added(j)
    BY <1>1 DEF Added
  <2> QED BY <1>1, <2>1 DEF Exact, FreshAreEnds
<1> QED BY <1>1, <1>2, <1>3, <1>4, StaysExact

\* Initially there is nothing but the root's slot.
LEMMA InitExact == Init => Exact
<1> SUFFICES ASSUME Init PROVE Exact
  OBVIOUS
<1>1. DOMAIN tasks = {}
  BY DEF Init
<1>2. Pending = {}
  BY <1>1 DEF Init, Pending, PendingRows, Ops
<1>3. Kept = {}
  <2>1. \A s, t \in alloc : ~ (out[s][t] > 0)
    BY PipelineOK DEF Init, Nowhere
  <2> QED BY <2>1, HeldIs DEF Kept
<1>4. ZeroesGo
  BY DEF Init, ZeroesGo
<1>5. InForce(rels, Kept, Pending)
  BY <1>2, <1>3 DEF InForce, AddsOf
<1>6. EntsTracked /\ GoneAreGone /\ FreshAreEnds
  BY <1>1 DEF Init, EntsTracked, GoneAreGone, FreshAreEnds
<1> QED BY <1>4, <1>5, <1>6 DEF Exact

\* The stages leave nothing behind.
LEMMA StagesExact ==
    ASSUME Ordered, IInv, ~lost, Exact, NEW i, Stages(i)
    PROVE  Exact'
<1>1. Basic /\ MapsInv /\ Whole /\ EndsFound
  BY DEF IInv, Deep
<1> QED BY <1>1, StoreExact, ClearExact, MapsExact, AddsExact, DeletesExact, StartExact, CascadeExact,
           CommitExact, PostExact DEF Stages

\* Nothing that is lost is found again.
LEMMA LostForGood ==
    ASSUME Next, ~lost'
    PROVE  ~lost
<1>1. CASE Client
  BY <1>1, ClientIs DEF Client
<1>2. CASE Ingest
  BY <1>2 DEF Ingest
<1>3. ASSUME NEW i, Stages(i) PROVE ~lost
  BY <1>3 DEF Stages, Store, Clear, Maps, Adds, Deletes, Start, Cascade, DeleteSources, DeleteDests,
              DeleteEnts, Post
<1>4. ASSUME NEW i, Fail(i) PROVE ~lost
  BY <1>4 DEF Fail
<1> QED BY <1>1, <1>2, <1>3, <1>4 DEF Next

\* No step leaves anything behind.
LEMMA NextExact ==
    ASSUME Ordered, IInv, (~lost) => Exact, [Next]_vars
    PROVE  (~lost') => Exact'
<1>1. CASE UNCHANGED vars
  BY <1>1, StutterExact DEF vars
<1>2. ASSUME Next, ~lost' PROVE Exact'
  <2>1. ~lost /\ Exact /\ Basic /\ MapsInv
    BY <1>2, LostForGood DEF IInv
  <2>2. CASE Client
    BY <2>1, <2>2, ClientExact DEF Client
  <2>3. CASE Ingest
    BY <2>1, <2>3, IngestExact
  <2>4. ASSUME NEW i, Stages(i) PROVE Exact'
    BY <2>1, <2>4, StagesExact
  <2>5. ASSUME NEW i, Fail(i) PROVE Exact'
    BY <1>2, <2>1, <2>5, FailExact
  <2> QED BY <1>2, <2>2, <2>3, <2>4, <2>5 DEF Next
<1> QED BY <1>1, <1>2

\* In a schema without cycles all that is counted is reached from the root.
LEMMA CountedIsReached ==
    ASSUME Basic, MapsInv, Whole, Acyclic, Lists = {}, \A s \in alloc : rc[s] = 0 => s = RootSlot
    PROVE  \A s \in alloc : oMap[s] \in Reach(Kept)
<1>1. PICK rank \in [Vertices -> Nat] : \A e \in Schema : rank[e[1]] < rank[e[2]]
  BY DEF Acyclic
<1>2. /\ Kept \in SUBSET Schema
      /\ \A s, t \in alloc : <<oMap[s], oMap[t]>> \in Kept <=> out[s][t] > 0
  BY KeptIs DEF Whole, EngInv
<1>3. Root \in Reach(Kept) /\ \A e \in Kept : e[1] \in Reach(Kept) => e[2] \in Reach(Kept)
  BY <1>2, ReachIsClosed
<1> DEFINE Left == {s \in alloc : oMap[s] \notin Reach(Kept)}
           Ranks == {rank[oMap[s]] : s \in Left}
<1>4. \A s \in alloc : s \in Slots /\ oMap[s] \in Vertices /\ rank[oMap[s]] \in Nat
  BY NamesIs
<1> SUFFICES ASSUME Left # {} PROVE FALSE
  OBVIOUS
<1>5. PICK s \in Left : \A u \in Left : rank[oMap[s]] <= rank[oMap[u]]
  <2>1. Ranks \subseteq Nat /\ Ranks # {}
    BY <1>4
  <2>2. PICK x \in Ranks : \A y \in Ranks : x <= y
    BY <2>1, Least
  <2> QED BY <2>2
<1>6. rc[s] # 0
  BY <1>3 DEF Whole, EngInv, EngMaps
<1>7. PICK u \in Slots : out[u][s] # 0
  <2>1. rc[s] = Column(s) + InLists(s, {})
    BY DEF Whole, EngInv, EngCounts
  <2>2. \E u \in Slots : out[u][s] # 0
    <3> SUFFICES ASSUME \A u \in Slots : out[u][s] = 0 PROVE FALSE
      OBVIOUS
    <3>1. IsFiniteSet({}) /\ \A list \in {} : list[2][s] = 0
      BY FS_EmptySet
    <3>2. Column(s) = 0 /\ InLists(s, {}) = 0
      BY <1>4, <3>1, NothingCounted
    <3> QED BY <1>6, <2>1, <3>2
  <2> QED BY <2>2
<1>8. u \in alloc /\ out[u][s] > 0 /\ <<oMap[u], oMap[s]>> \in Schema
  BY <1>4, <1>7 DEF Whole, EngInv, EngOut
<1>9. rank[oMap[u]] < rank[oMap[s]]
  BY <1>1, <1>8
<1>10. u \notin Left
  <2>1. \A a, b \in Nat : ~ (a < b /\ b <= a)
    OBVIOUS
  <2> QED BY <1>4, <1>5, <1>8, <1>9, <2>1
<1>11. oMap[s] \in Reach(Kept)
  BY <1>2, <1>3, <1>8, <1>10
<1> QED BY <1>11

\* At rest the engine holds what clients reach, and the maps and the catalog have
\* nothing else.
LEMMA ExactFollows ==
    ASSUME Acyclic, IInv, (~lost) => Exact
    PROVE  ExactAtRest
<1> SUFFICES ASSUME log = {}, tasks = <<>>, ~lost
             PROVE  ents = Live \ {Root} /\ DOMAIN iMap = Live /\ alloc = Range(iMap)
  BY DEF ExactAtRest
<1>1. Basic /\ MapsInv /\ Whole /\ Exact
  BY DEF IInv, Deep
<1>2. DOMAIN tasks = {}
  OBVIOUS
<1>3. Pending = {} /\ Dead = {} /\ Hits = {} /\ Lists = {}
  BY <1>2 DEF Pending, PendingRows, Ops, Dead, Hits, Lists
<1>4. AddsOf(Pending) = {} /\ DropsOf(Pending) = {} /\ Graph(Kept, Pending) = Kept
  BY <1>3 DEF AddsOf, DropsOf, Graph
<1>5. \A s \in alloc : rc[s] = 0 => s = RootSlot
  BY <1>1, <1>2, <1>3 DEF Exact, ZeroesGo, Awaited
<1>6. \A s \in alloc : oMap[s] \in Reach(Kept)
  BY <1>1, <1>3, <1>5, CountedIsReached
<1>7. Kept \in SUBSET Schema /\ \A e \in Kept : \E s, t \in alloc : e = <<oMap[s], oMap[t]>>
  BY <1>1, KeptIs DEF Whole, EngInv
<1>8. Kept \subseteq rels
  <2> SUFFICES ASSUME NEW e \in Kept PROVE e \in rels
    OBVIOUS
  <2>1. e[1] \in Reach(Kept)
    BY <1>6, <1>7
  <2>2. ~ CutOff(e[1], Kept, Pending)
    BY <1>4, <2>1, AllIsCut DEF CutOff
  <2> QED BY <1>1, <1>4, <2>2 DEF Exact, InForce
<1>9. rels \in SUBSET Schema
  BY <1>1 DEF Basic, Types, Spans
<1>10. Live = Reach(Kept)
  <2>1. Live \subseteq Reach(Kept)
    BY <1>1, <1>4, LiveIsReached
  <2>2. Reach(Kept) \subseteq Live
    BY <1>8, <1>9, ReachIsMonotone DEF Live, Reach
  <2> QED BY <2>1, <2>2
<1>11. \A v \in Live : \E s \in alloc : oMap[s] = v
  <2> SUFFICES ASSUME NEW v \in Live PROVE \E s \in alloc : oMap[s] = v
    OBVIOUS
  <2>1. CASE v = Root
    BY <1>1, <2>1 DEF Whole, EngInv, EngMaps
  <2>2. CASE v # Root
    <3>1. \E e \in Kept : e[2] = v
      BY <1>7, <1>10, <2>2, ReachedByEdge
    <3> QED BY <1>7, <3>1
  <2> QED BY <2>1, <2>2
<1>12. \A v : v \in Live <=> \E s \in alloc : oMap[s] = v
  BY <1>6, <1>10, <1>11
<1>13. ents = Live \ {Root}
  <2>1. \A v \in ents : \E s \in alloc : oMap[s] = v
    BY <1>1, <1>3, <1>4 DEF Exact, EntsTracked, Tracked
  <2>2. Root \notin ents
    BY <1>1 DEF Basic, Types
  <2>3. Live \subseteq ents \cup {Root}
    BY LiveIsKept
  <2> QED BY <1>12, <2>1, <2>2, <2>3
<1>14. \A v \in DOMAIN iMap : iMap[v] \in alloc /\ oMap[iMap[v]] = v
  BY <1>1, <1>3 DEF Whole, EngInv, EngMaps, Current
<1>15. \A s \in alloc : oMap[s] \in DOMAIN iMap /\ iMap[oMap[s]] = s
  BY <1>1, NamesIs
<1>16. DOMAIN iMap = Live
  BY <1>12, <1>14, <1>15
<1>17. alloc = Range(iMap)
  BY <1>14, <1>15 DEF Range
<1> QED BY <1>13, <1>16, <1>17

\* Nothing leaks: when all that clients have written is through the pipeline, the
\* catalog, the vertex maps and the engine hold what is reachable, no more.
THEOREM NothingLeaks ==
    ASSUME Ordered, Acyclic
    PROVE  Spec => []ExactAtRest
<1> DEFINE Inv == IInv /\ ((~lost) => Exact)
<1>1. Init => Inv
  BY IInvInit, InitExact
<1>2. Inv /\ [Next]_vars => Inv'
  BY IInvNext, NextExact
<1>3. Inv => ExactAtRest
  BY ExactFollows
<1> QED BY <1>1, <1>2, <1>3, PTL DEF Spec
=============================================================================
