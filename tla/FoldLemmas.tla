----------------------------- MODULE FoldLemmas -----------------------------
(***************************************************************************)
(* What the proofs of several components need of sets of numbers and of    *)
(* sums: induction over the natural numbers and over the subsets of a      *)
(* finite set, least and greatest elements, and the sum of a function with *)
(* a finite domain, which the folds of the community modules compute in an *)
(* order that nobody knows.                                                *)
(***************************************************************************)
EXTENDS Integers, Sequences, FiniteSetsExt, FiniteSetTheorems, WellFoundedInduction, TLAPS

\* FoldFunction with the addition of numbers.
SumOf(f) == FoldFunction(+, 0, f)

-----------------------------------------------------------------------------
Below == {ss \in Nat \X Nat : ss[1] < ss[2]}

\* A set of numbers that holds 0, and n + 1 whenever it holds n, holds them all.
LEMMA NatSetInduction ==
    ASSUME NEW S \in SUBSET Nat, 0 \in S, \A n \in S : n + 1 \in S
    PROVE  S = Nat
<1>. SUFFICES ASSUME S # Nat PROVE FALSE
  OBVIOUS
<1>. DEFINE T == Nat \ S
<1>1. IsWellFoundedOn(Below, Nat)
  BY NatLessThanWellFounded DEF OpToRel, Below
<1>2. PICK m \in T : \A k \in T : ~ (<<k, m>> \in Below)
  BY <1>1, WFMin
<1>3. m # 0 /\ m - 1 \in Nat /\ <<m - 1, m>> \in Below
  BY <1>2 DEF Below
<1>4. m - 1 \in S
  BY <1>2, <1>3
<1>. QED
  BY <1>2, <1>4

\* A function with a finite domain takes finitely many values.
LEMMA ImageIsFinite ==
    ASSUME NEW S, IsFiniteSet(S), NEW T, NEW f \in [S -> T]
    PROVE  IsFiniteSet({f[x] : x \in S})
<1>. DEFINE image == {f[x] : x \in S}
<1>1. f \in [S -> image]
  OBVIOUS
<1>2. \A y \in image : \E x \in S : f[x] = y
  OBVIOUS
<1>3. f \in Surjection(S, image)
  BY <1>1, <1>2 DEF Surjection
<1>. HIDE DEF image
<1>4. IsFiniteSet(image)
  BY <1>3, FS_Surjection
<1>. QED
  BY <1>4 DEF image

\* Every nonempty set of natural numbers has a least element.
LEMMA NatLeast ==
    ASSUME NEW S \in SUBSET Nat, S # {}
    PROVE  \E m \in S : \A k \in S : m <= k
<1>1. IsWellFoundedOn(Below, Nat)
  BY NatLessThanWellFounded DEF OpToRel, Below
<1>2. PICK m \in S : \A k \in S : ~ (<<k, m>> \in Below)
  BY <1>1, WFMin
<1>3. \A k \in S : ~ (k < m)
  BY <1>2 DEF Below
<1>. QED
  BY <1>3

\* Min is that element.
LEMMA MinFact ==
    ASSUME NEW S \in SUBSET Nat, S # {}
    PROVE  Min(S) \in S /\ \A k \in S : Min(S) <= k
BY NatLeast DEF Min

\* Nothing else is.
LEMMA MinUnique ==
    ASSUME NEW S \in SUBSET Nat, NEW m \in S, \A k \in S : m <= k
    PROVE  Min(S) = m
<1>. DEFINE least == Min(S)
<1>1. least \in S /\ least <= m
  BY MinFact
<1>2. m <= least
  BY <1>1
<1>3. least \in Nat /\ m \in Nat
  BY <1>1
<1>. HIDE DEF least
<1>4. least = m
  BY <1>1, <1>2, <1>3
<1>. QED
  BY <1>4 DEF least

\* The element that a sum over s adds first, and what the sums over all subsets of
\* the domain of f have to do with one another.
First(s) == CHOOSE x \in s : TRUE
Adds(f, g) ==
    g = [s \in SUBSET DOMAIN f |-> IF s = {} THEN 0 ELSE f[First(s)] + g[s \ {First(s)}]]

LEMMA SumIsChosen ==
    ASSUME NEW f
    PROVE  SumOf(f) = (CHOOSE g : Adds(f, g))[DOMAIN f]
BY DEF SumOf, FoldFunction, FoldFunctionOnSet, MapThenFoldSet, Adds, First

\* What holds of the empty set, and of a set whenever it holds of the set without
\* its first element, holds of every subset of a finite set.
LEMMA SubsetInduction ==
    ASSUME NEW D, IsFiniteSet(D), NEW Good \in SUBSET SUBSET D, {} \in Good,
           \A s \in SUBSET D : s # {} /\ s \ {First(s)} \in Good => s \in Good
    PROVE  Good = SUBSET D
<1>. DEFINE Upto(n) == \A s \in SUBSET D : Cardinality(s) = n => s \in Good
            S == {n \in Nat : Upto(n)}
<1>1. \A s \in SUBSET D : IsFiniteSet(s) /\ Cardinality(s) \in Nat
  BY FS_Subset, FS_CardinalityType
<1>2. Upto(0)
  <2>1. \A s \in SUBSET D : Cardinality(s) = 0 => s = {}
    BY <1>1, FS_EmptySet
  <2>. QED
    BY <2>1
<1>3. ASSUME NEW n \in Nat, Upto(n)
      PROVE  Upto(n + 1)
  <2>. SUFFICES ASSUME NEW s \in SUBSET D, Cardinality(s) = n + 1
                PROVE  s \in Good
    OBVIOUS
  <2>1. s # {}
    BY FS_EmptySet
  <2>2. First(s) \in s
    BY <2>1 DEF First
  <2>3. Cardinality(s \ {First(s)}) = n /\ s \ {First(s)} \in SUBSET D
    BY <1>1, <2>2, FS_RemoveElement
  <2>. QED
    BY <1>3, <2>1, <2>3
<1>4. S = Nat
  <2>1. 0 \in S /\ \A n \in S : n + 1 \in S
    BY <1>2, <1>3
  <2>. HIDE DEF S
  <2>2. S \in SUBSET Nat
    BY DEF S
  <2>. QED
    BY <2>1, <2>2, NatSetInduction
<1>. QED
  BY <1>1, <1>4

\* Max is the greatest element of a finite set of numbers.
LEMMA MaxFact ==
    ASSUME NEW S \in SUBSET Int, IsFiniteSet(S), S # {}
    PROVE  Max(S) \in S /\ \A k \in S : k <= Max(S)
<1>. DEFINE Has(s) == s # {} => \E m \in s : \A k \in s : k <= m
            Good == {s \in SUBSET S : Has(s)}
<1>1. {} \in Good
  OBVIOUS
<1>2. ASSUME NEW s \in SUBSET S, s # {}, s \ {First(s)} \in Good
      PROVE  s \in Good
  <2>. DEFINE x == First(s)
  <2>1. x \in s
    BY <1>2 DEF First
  <2>. HIDE DEF x
  <2>2. CASE s \ {x} = {}
    <3>1. \A k \in s : k <= x
      BY <2>1, <2>2
    <3>. QED
      BY <2>1, <3>1
  <2>3. CASE s \ {x} # {}
    <3>1. PICK m \in s \ {x} : \A k \in s \ {x} : k <= m
      BY <1>2, <2>3 DEF x
    <3>2. m \in Int /\ x \in Int /\ m \in s
      BY <2>1, <3>1
    <3>3. CASE x <= m
      <4>1. \A k \in s : k <= m
        BY <3>1, <3>3
      <4>. QED
        BY <3>2, <4>1
    <3>4. CASE m <= x
      <4>1. \A k \in s : k <= x
        BY <3>1, <3>2, <3>4
      <4>. QED
        BY <2>1, <4>1
    <3>. QED
      BY <3>2, <3>3, <3>4
  <2>. QED
    BY <2>2, <2>3
<1>3. Good = SUBSET S
  <2>1. Good \in SUBSET SUBSET S
    OBVIOUS
  <2>2. \A s \in SUBSET S : s # {} /\ s \ {First(s)} \in Good => s \in Good
    BY <1>2
  <2>. HIDE DEF Good
  <2>. QED
    BY <1>1, <2>1, <2>2, SubsetInduction
<1>4. \E m \in S : \A k \in S : k <= m
  BY <1>3
<1>. QED
  BY <1>4 DEF Max

\* There are such sums, whole numbers, for every function with a finite domain.
LEMMA SumsExist ==
    ASSUME NEW D, IsFiniteSet(D), NEW f \in [D -> Int]
    PROVE  \E g \in [SUBSET D -> Int] : Adds(f, g)
<1>. DEFINE Part(g, n) ==
              \A s \in SUBSET D : Cardinality(s) <= n =>
                  g[s] = IF s = {} THEN 0 ELSE f[First(s)] + g[s \ {First(s)}]
            Some(n) == \E g \in [SUBSET D -> Int] : Part(g, n)
            S == {n \in Nat : Some(n)}
<1>1. \A s \in SUBSET D : IsFiniteSet(s) /\ Cardinality(s) \in Nat
  BY FS_Subset, FS_CardinalityType
<1>2. \A s \in SUBSET D : s # {} =>
          First(s) \in s /\ s \ {First(s)} \in SUBSET D
                         /\ Cardinality(s \ {First(s)}) = Cardinality(s) - 1
  BY <1>1, FS_RemoveElement DEF First
<1>3. Some(0)
  <2>1. \A s \in SUBSET D : Cardinality(s) <= 0 => s = {}
    BY <1>1, FS_EmptySet
  <2>2. [s \in SUBSET D |-> 0] \in [SUBSET D -> Int]
    OBVIOUS
  <2>3. Part([s \in SUBSET D |-> 0], 0)
    BY <2>1
  <2>. QED
    BY <2>2, <2>3
<1>4. ASSUME NEW n \in Nat, Some(n)
      PROVE  Some(n + 1)
  <2>1. PICK g \in [SUBSET D -> Int] : Part(g, n)
    BY <1>4
  <2>. DEFINE h == [s \in SUBSET D |-> IF Cardinality(s) = n + 1
                                       THEN f[First(s)] + g[s \ {First(s)}] ELSE g[s]]
  <2>2. h \in [SUBSET D -> Int]
    <3>1. \A s \in SUBSET D : Cardinality(s) = n + 1 => s # {}
      <4>1. Cardinality({}) = 0 /\ n + 1 # 0
        BY FS_EmptySet
      <4>. QED
        BY <4>1
    <3>2. ASSUME NEW s \in SUBSET D
          PROVE  h[s] \in Int
      <4>1. CASE Cardinality(s) = n + 1
        <5>1. f[First(s)] \in Int /\ g[s \ {First(s)}] \in Int
          BY <1>2, <3>1, <4>1
        <5>. QED
          BY <4>1, <5>1
      <4>2. CASE Cardinality(s) # n + 1
        BY <4>2
      <4>. QED
        BY <4>1, <4>2
    <3>. QED
      BY <3>2
  <2>3. ASSUME NEW s \in SUBSET D, Cardinality(s) <= n + 1
        PROVE  h[s] = IF s = {} THEN 0 ELSE f[First(s)] + h[s \ {First(s)}]
    <3>1. CASE s = {}
      BY <2>1, <3>1, FS_EmptySet
    <3>2. CASE s # {}
      <4>. DEFINE r == s \ {First(s)}
      <4>1. r \in SUBSET D /\ Cardinality(r) = Cardinality(s) - 1 /\ Cardinality(s) \in Nat
        BY <1>1, <1>2, <3>2
      <4>2. Cardinality(r) # n + 1
        BY <2>3, <4>1
      <4>3. h[r] = g[r]
        BY <4>1, <4>2
      <4>4. CASE Cardinality(s) = n + 1
        BY <3>2, <4>3, <4>4
      <4>5. CASE Cardinality(s) # n + 1
        <5>1. Cardinality(s) <= n
          BY <2>3, <4>1, <4>5
        <5>2. g[s] = f[First(s)] + g[r]
          BY <2>1, <3>2, <5>1
        <5>. QED
          BY <3>2, <4>3, <4>5, <5>2
      <4>. QED
        BY <4>4, <4>5
    <3>. QED
      BY <3>1, <3>2
  <2>4. Part(h, n + 1)
    BY <2>3
  <2>. HIDE DEF h
  <2>. QED
    BY <2>2, <2>4
<1>. HIDE DEF Some
<1>5. S = Nat
  <2>1. 0 \in S /\ \A n \in S : n + 1 \in S
    BY <1>3, <1>4
  <2>. HIDE DEF S
  <2>2. S \in SUBSET Nat
    BY DEF S
  <2>. QED
    BY <2>1, <2>2, NatSetInduction
<1>6. Some(Cardinality(D))
  BY <1>1, <1>5
<1>7. PICK g \in [SUBSET D -> Int] : Part(g, Cardinality(D))
  BY <1>6 DEF Some
<1>8. \A s \in SUBSET D : Cardinality(s) <= Cardinality(D)
  BY FS_Subset
<1>9. \A s \in SUBSET D : g[s] = IF s = {} THEN 0 ELSE f[First(s)] + g[s \ {First(s)}]
  BY <1>7, <1>8
<1>10. Adds(f, g)
  BY <1>9 DEF Adds
<1>. QED
  BY <1>10

\* The sums of f over the subsets of its domain D.
SumsOf(D, f, g) ==
    /\ SumOf(f) = g[D] /\ g[{}] = 0
    /\ \A s \in SUBSET D : s # {} => g[s] = f[First(s)] + g[s \ {First(s)}]

\* The sum of f, by its sums over subsets.
LEMMA SumFact ==
    ASSUME NEW D, IsFiniteSet(D), NEW f \in [D -> Int]
    PROVE  \E g \in [SUBSET D -> Int] : SumsOf(D, f, g)
<1>. DEFINE g == CHOOSE x : Adds(f, x)
<1>1. Adds(f, g)
  BY SumsExist
<1>2. SumOf(f) = g[D]
  BY SumIsChosen
<1>. HIDE DEF g
<1>3. PICK w \in [SUBSET D -> Int] : Adds(f, w)
  BY SumsExist
<1>4. \A s \in SUBSET D : s # {} => First(s) \in s
  BY DEF First
<1>. DEFINE Same == {s \in SUBSET D : g[s] = w[s]}
<1>5. Same = SUBSET D
  <2>1. {} \in Same
    BY <1>1, <1>3 DEF Adds
  <2>2. ASSUME NEW s \in SUBSET D, s # {}, s \ {First(s)} \in Same
        PROVE  s \in Same
    BY <1>1, <1>3, <1>4, <2>2 DEF Adds
  <2>3. Same \in SUBSET SUBSET D
    OBVIOUS
  <2>4. \A s \in SUBSET D : s # {} /\ s \ {First(s)} \in Same => s \in Same
    BY <2>2
  <2>. HIDE DEF Same
  <2>. QED
    BY <2>1, <2>3, <2>4, SubsetInduction
<1>6. g \in [SUBSET D -> Int]
  <2>1. \A s \in SUBSET D : g[s] \in Int
    BY <1>5
  <2>2. g = [s \in SUBSET D |-> g[s]]
    BY <1>1 DEF Adds
  <2>. HIDE DEF Same
  <2>. QED
    BY <2>1, <2>2
<1>7. \A s \in SUBSET D : g[s] = IF s = {} THEN 0 ELSE f[First(s)] + g[s \ {First(s)}]
  BY <1>1 DEF Adds
<1>8. g[{}] = 0
  BY <1>7
<1>9. \A s \in SUBSET D : s # {} => g[s] = f[First(s)] + g[s \ {First(s)}]
  BY <1>7
<1>. QED
  BY <1>2, <1>6, <1>8, <1>9 DEF SumsOf

\* Adding to one value adds to the sum.
LEMMA SumAdd ==
    ASSUME NEW D, IsFiniteSet(D), NEW f \in [D -> Int], NEW d \in D, NEW c \in Int,
           NEW h \in [D -> Int], h[d] = f[d] + c, \A x \in D : x # d => h[x] = f[x]
    PROVE  SumOf(h) = SumOf(f) + c
<1>1. h \in [D -> Int] /\ h[d] = f[d] + c /\ \A x \in D : x # d => h[x] = f[x]
  OBVIOUS
<1>2. PICK gf \in [SUBSET D -> Int] : SumsOf(D, f, gf)
  BY SumFact
<1>3. PICK gh \in [SUBSET D -> Int] : SumsOf(D, h, gh)
  BY <1>1, SumFact
<1>. DEFINE Good == {s \in SUBSET D : gh[s] = gf[s] + (IF d \in s THEN c ELSE 0)}
<1>4. {} \in Good
  BY <1>2, <1>3 DEF SumsOf
<1>5. ASSUME NEW s \in SUBSET D, s # {}, s \ {First(s)} \in Good
      PROVE  s \in Good
  <2>. DEFINE x == First(s)
              r == s \ {x}
  <2>1. x \in s
    BY <1>5 DEF First
  <2>. HIDE DEF x
  <2>2. r \in SUBSET D /\ gh[r] = gf[r] + (IF d \in r THEN c ELSE 0)
    BY <1>5 DEF x
  <2>3. gf[s] = f[x] + gf[r] /\ gh[s] = h[x] + gh[r]
    BY <1>2, <1>3, <1>5 DEF x, SumsOf
  <2>4. gf[r] \in Int /\ gh[r] \in Int /\ f[x] \in Int /\ h[x] \in Int
    BY <1>1, <2>1, <2>2
  <2>5. CASE x = d
    <3>1. d \in s /\ d \notin r /\ h[x] = f[x] + c
      BY <1>1, <2>1, <2>5
    <3>2. gh[s] = gf[s] + c
      BY <2>2, <2>3, <2>4, <3>1
    <3>. QED
      BY <3>1, <3>2
  <2>6. CASE x # d
    <3>1. h[x] = f[x] /\ (d \in s <=> d \in r)
      BY <1>1, <2>1, <2>6
    <3>. HIDE DEF r
    <3>2. gh[s] = gf[s] + (IF d \in s THEN c ELSE 0)
      BY <2>2, <2>3, <2>4, <3>1
    <3>. QED
      BY <3>2
  <2>. QED
    BY <2>5, <2>6
<1>6. Good = SUBSET D
  <2>1. Good \in SUBSET SUBSET D
    OBVIOUS
  <2>2. \A s \in SUBSET D : s # {} /\ s \ {First(s)} \in Good => s \in Good
    BY <1>5
  <2>. HIDE DEF Good
  <2>. QED
    BY <1>4, <2>1, <2>2, SubsetInduction
<1>7. gh[D] = gf[D] + c
  BY <1>6
<1>. QED
  BY <1>2, <1>3, <1>7 DEF SumsOf

\* A sum is a whole number; a sum of zeros is 0.
LEMMA SumType ==
    ASSUME NEW D, IsFiniteSet(D), NEW f \in [D -> Int]
    PROVE  SumOf(f) \in Int
<1>1. PICK g \in [SUBSET D -> Int] : SumsOf(D, f, g)
  BY SumFact
<1>. QED
  BY <1>1 DEF SumsOf

LEMMA SumZero ==
    ASSUME NEW D, IsFiniteSet(D)
    PROVE  SumOf([d \in D |-> 0]) = 0
<1>. DEFINE f == [d \in D |-> 0]
<1>1. f \in [D -> Int] /\ \A d \in D : f[d] = 0
  OBVIOUS
<1>. HIDE DEF f
<1>2. PICK g \in [SUBSET D -> Int] : SumsOf(D, f, g)
  BY <1>1, SumFact
<1>. DEFINE Good == {s \in SUBSET D : g[s] = 0}
<1>3. {} \in Good
  BY <1>2 DEF SumsOf
<1>4. ASSUME NEW s \in SUBSET D, s # {}, s \ {First(s)} \in Good
      PROVE  s \in Good
  <2>1. First(s) \in D
    BY <1>4 DEF First
  <2>. QED
    BY <1>1, <1>2, <1>4, <2>1 DEF SumsOf
<1>5. Good = SUBSET D
  <2>1. Good \in SUBSET SUBSET D
    OBVIOUS
  <2>2. \A s \in SUBSET D : s # {} /\ s \ {First(s)} \in Good => s \in Good
    BY <1>4
  <2>. HIDE DEF Good
  <2>. QED
    BY <1>3, <2>1, <2>2, SubsetInduction
<1>6. SumOf(f) = 0
  BY <1>2, <1>5 DEF SumsOf
<1>. QED
  BY <1>6 DEF f

\* The sums of f may take any element out first.
AnyFirst(D, f, g) ==
    /\ SumOf(f) = g[D] /\ g[{}] = 0
    /\ \A s \in SUBSET D : \A x \in s : g[s] = f[x] + g[s \ {x}]

LEMMA SumRemove ==
    ASSUME NEW D, IsFiniteSet(D), NEW f \in [D -> Int]
    PROVE  \E g \in [SUBSET D -> Int] : AnyFirst(D, f, g)
<1>0. PICK g \in [SUBSET D -> Int] : SumsOf(D, f, g)
  BY SumFact
<1>. DEFINE Upto(n) == \A s \in SUBSET D : Cardinality(s) <= n =>
                          \A x \in s : g[s] = f[x] + g[s \ {x}]
            S == {n \in Nat : Upto(n)}
<1>1. \A s \in SUBSET D : IsFiniteSet(s) /\ Cardinality(s) \in Nat
  BY FS_Subset, FS_CardinalityType
<1>2. ASSUME NEW s \in SUBSET D, NEW x \in s
      PROVE  s \ {x} \in SUBSET D /\ Cardinality(s \ {x}) = Cardinality(s) - 1
  BY <1>1, FS_RemoveElement
<1>3. Upto(0)
  <2>1. \A s \in SUBSET D : Cardinality(s) <= 0 => s = {}
    BY <1>1, FS_EmptySet
  <2>. QED
    BY <2>1
<1>4. ASSUME NEW n \in Nat, Upto(n)
      PROVE  Upto(n + 1)
  <2>. SUFFICES ASSUME NEW s \in SUBSET D, Cardinality(s) <= n + 1, NEW x \in s
                PROVE  g[s] = f[x] + g[s \ {x}]
    OBVIOUS
  <2>. DEFINE y == First(s)
              rx == s \ {x}
              ry == s \ {y}
              r == s \ {x, y}
  <2>1. y \in s /\ g[s] = f[y] + g[ry]
    BY <1>0 DEF First, SumsOf
  <2>. HIDE DEF y
  <2>2. CASE x = y
    BY <2>1, <2>2
  <2>3. CASE x # y
    <3>1. x \in ry /\ y \in rx /\ ry \ {x} = r /\ rx \ {y} = r
      BY <2>1, <2>3
    <3>2. rx \in SUBSET D /\ ry \in SUBSET D /\ Cardinality(rx) <= n /\ Cardinality(ry) <= n
      BY <1>1, <1>2, <2>1
    <3>3. r \in SUBSET D
      OBVIOUS
    <3>. HIDE DEF rx, ry, r
    <3>4. g[ry] = f[x] + g[r] /\ g[rx] = f[y] + g[r]
      BY <1>4, <3>1, <3>2
    <3>5. f[x] \in Int /\ f[y] \in Int /\ g[r] \in Int
      BY <2>1, <3>3
    <3>6. g[s] = f[x] + g[rx]
      BY <2>1, <3>4, <3>5
    <3>. QED
      BY <3>6 DEF rx
  <2>. QED
    BY <2>2, <2>3
<1>. HIDE DEF Upto
<1>5. S = Nat
  <2>1. 0 \in S /\ \A n \in S : n + 1 \in S
    BY <1>3, <1>4
  <2>. HIDE DEF S
  <2>2. S \in SUBSET Nat
    BY DEF S
  <2>. QED
    BY <2>1, <2>2, NatSetInduction
<1>6. ASSUME NEW s \in SUBSET D, NEW x \in s
      PROVE  g[s] = f[x] + g[s \ {x}]
  <2>1. Upto(Cardinality(s)) /\ Cardinality(s) <= Cardinality(s)
    BY <1>1, <1>5
  <2>. QED
    BY <2>1 DEF Upto
<1>. QED
  BY <1>0, <1>6 DEF SumsOf, AnyFirst

\* A sum over the first numbers, one after the other.
LEMMA SumOfPrefix ==
    ASSUME NEW n \in Nat, NEW f \in [1..n -> Int]
    PROVE  \E p \in [0..n -> Int] :
              /\ p[0] = 0 /\ p[n] = SumOf(f)
              /\ \A k \in 1..n : p[k] = p[k - 1] + f[k]
<1>. DEFINE D == 1..n
<1>1. IsFiniteSet(D)
  BY FS_Interval
<1>2. PICK g \in [SUBSET D -> Int] : AnyFirst(D, f, g)
  BY <1>1, SumRemove
<1>3. \A s \in SUBSET D : \A x \in s : g[s] = f[x] + g[s \ {x}]
  BY <1>2 DEF AnyFirst
<1>. DEFINE p == [k \in 0..n |-> g[1..k]]
<1>4. \A k \in 0..n : 1..k \in SUBSET D
  OBVIOUS
<1>5. p \in [0..n -> Int]
  BY <1>4
<1>6. p[0] = 0 /\ p[n] = SumOf(f)
  <2>1. 1..0 = {}
    OBVIOUS
  <2>. QED
    BY <1>2, <2>1 DEF AnyFirst
<1>7. ASSUME NEW k \in 1..n
      PROVE  p[k] = p[k - 1] + f[k]
  <2>1. k \in 1..k /\ (1..k) \ {k} = 1..(k - 1) /\ k - 1 \in 0..n /\ k \in 0..n
    OBVIOUS
  <2>2. g[1..k] = f[k] + g[1..(k - 1)]
    BY <1>3, <1>4, <2>1
  <2>3. g[1..(k - 1)] \in Int /\ f[k] \in Int
    BY <1>4, <2>1
  <2>. QED
    BY <2>1, <2>2, <2>3
<1>. HIDE DEF p
<1>. QED
  BY <1>5, <1>6, <1>7

\* The order does not matter: a sum is the same from behind.
LEMMA SumReversed ==
    ASSUME NEW n \in Nat, NEW f \in [1..n -> Int], NEW h \in [1..n -> Int],
           \A i \in 1..n : h[i] = f[(n - i) + 1]
    PROVE  SumOf(h) = SumOf(f)
<1>1. PICK p \in [0..n -> Int] : /\ p[0] = 0 /\ p[n] = SumOf(f)
                                 /\ \A k \in 1..n : p[k] = p[k - 1] + f[k]
  BY SumOfPrefix
<1>2. PICK q \in [0..n -> Int] : /\ q[0] = 0 /\ q[n] = SumOf(h)
                                 /\ \A k \in 1..n : q[k] = q[k - 1] + h[k]
  BY SumOfPrefix
<1>. DEFINE Meet(k) == k <= n => q[k] + p[n - k] = p[n]
            S == {k \in Nat : Meet(k)}
<1>3. Meet(0)
  BY <1>1, <1>2
<1>4. ASSUME NEW k \in Nat, Meet(k)
      PROVE  Meet(k + 1)
  <2>. SUFFICES ASSUME k + 1 <= n PROVE q[k + 1] + p[n - (k + 1)] = p[n]
    OBVIOUS
  <2>. DEFINE j == n - k
  <2>1. j \in 1..n /\ k + 1 \in 1..n /\ k \in 0..n /\ (n - (k + 1)) + 1 = j
        /\ j - 1 = n - (k + 1) /\ j - 1 \in 0..n /\ (k + 1) - 1 = k
    OBVIOUS
  <2>2. h[k + 1] = f[j]
    BY <2>1
  <2>3. p[j] = p[j - 1] + f[j]
    BY <1>1, <2>1
  <2>4. q[k + 1] = q[k] + h[k + 1]
    BY <1>2, <2>1
  <2>5. q[k] + p[j] = p[n]
    BY <1>4
  <2>6. q[k] \in Int /\ p[j - 1] \in Int /\ f[j] \in Int
    BY <2>1
  <2>. HIDE DEF j
  <2>7. q[k + 1] = q[k] + f[j]
    BY <2>2, <2>4
  <2>8. q[k] + (p[j - 1] + f[j]) = p[n]
    BY <2>3, <2>5
  <2>. DEFINE a == q[k]
              b == p[j - 1]
              c == f[j]
  <2>9. a \in Int /\ b \in Int /\ c \in Int
    BY <2>6
  <2>10. q[k + 1] = a + c /\ a + (b + c) = p[n]
    BY <2>7, <2>8
  <2>. HIDE DEF a, b, c
  <2>11. (a + c) + b = a + (b + c)
    BY <2>9
  <2>12. q[k + 1] + b = p[n]
    BY <2>10, <2>11
  <2>. QED
    BY <2>1, <2>12 DEF b
<1>. HIDE DEF Meet
<1>5. S = Nat
  <2>1. 0 \in S /\ \A k \in S : k + 1 \in S
    BY <1>3, <1>4
  <2>. HIDE DEF S
  <2>2. S \in SUBSET Nat
    BY DEF S
  <2>. QED
    BY <2>1, <2>2, NatSetInduction
<1>6. Meet(n)
  BY <1>5
<1>7. q[n] + p[0] = p[n] /\ q[n] \in Int /\ n - n = 0
  BY <1>6 DEF Meet
<1>. QED
  BY <1>1, <1>2, <1>7
=============================================================================
