-------------------------------- MODULE SetSums --------------------------------
(***************************************************************************)
(* What the sums of the models obey: MapThenSumSet of a finite set takes   *)
(* its elements in the order CHOOSE gives, and the order does not matter.  *)
(* The library defines it by recursion on subsets; the facts below follow  *)
(* by induction on the size of a set, as the absence of a least size for   *)
(* which they fail.  The same way: what the library's choose counts, that  *)
(* products defined by recursion exist, and what one more trial does to    *)
(* the sums of a binomial law.                                             *)
(***************************************************************************)
EXTENDS Integers, FiniteSets, FiniteSetsExt, Combinatorics, FiniteSetTheorems,
        WellFoundedInduction, TLAPS

\* The sum of f over S.
SumOf(f, S) == MapThenSumSet(LAMBDA x : f[x], S)

\* g sums f over each set of D, an element at a time.
First(s) == CHOOSE x \in s : TRUE
Sums(g, f, D) ==
  g = [s \in D |-> IF s = {} THEN 0 ELSE f[First(s)] + g[s \ {First(s)}]]

SumsOf(g, f, S) == Sums(g, f, SUBSET S)

\* What is summed are naturals, and the sums can be taken apart at any element.
Counted(f, S) == \A x \in S : f[x] \in Nat
Orderless(g, f, S) ==
  \A s \in SUBSET S : g[s] \in Nat /\ \A x \in s : g[s] = f[x] + g[s \ {x}]

\* The least of some naturals.
LEMMA LeastNatural ==
  ASSUME NEW D, D \subseteq Nat, D # {}
  PROVE  \E n \in D : \A m \in D : ~(m < n)
<1> DEFINE R == OpToRel(<, Nat)
<1>1. IsWellFoundedOn(R, Nat)
  BY NatLessThanWellFounded
<1> HIDE DEF R
<1>2. \E n \in D : \A m \in D : <<m, n>> \notin R
  BY <1>1, WFMin
<1> QED  BY <1>2 DEF R, OpToRel

\* Induction on the naturals, for a set of them.
LEMMA AllNaturals ==
  ASSUME NEW G, 0 \in G, \A n \in Nat : n \in G => n + 1 \in G
  PROVE  Nat \subseteq G
<1> DEFINE D == Nat \ G
<1> SUFFICES ASSUME D # {} PROVE FALSE
  OBVIOUS
<1>1. PICK n \in D : \A m \in D : ~(m < n)
  <2>1. D \subseteq Nat
    OBVIOUS
  <2> HIDE DEF D
  <2> QED  BY <2>1, LeastNatural
<1>2. n # 0 /\ n - 1 \in Nat /\ n - 1 < n /\ n = (n - 1) + 1
  OBVIOUS
<1>3. n - 1 \notin D
  <2> HIDE DEF D
  <2> QED  BY <1>1, <1>2
<1> QED  BY <1>2, <1>3

\* The recursion on subsets has a solution: it is built up size by size.
LEMMA SumsUpTo ==
  ASSUME NEW f, NEW S, IsFiniteSet(S)
  PROVE  \E g : SumsOf(g, f, S)
<1> DEFINE Small(n) == {s \in SUBSET S : Cardinality(s) <= n}
           G == {n \in Nat : \E g : Sums(g, f, Small(n))}
<1>1. \A s \in SUBSET S :
        IsFiniteSet(s) /\ Cardinality(s) \in Nat /\ Cardinality(s) <= Cardinality(S)
  BY FS_Subset, FS_CardinalityType
<1>2. 0 \in G
  <2> DEFINE g == [s \in Small(0) |-> 0]
  <2>1. \A s \in Small(0) : s = {}
    BY <1>1, FS_EmptySet
  <2>2. Sums(g, f, Small(0))
    BY <2>1 DEF SumsOf, Sums
  <2> QED  BY <2>2
<1>3. ASSUME NEW n \in Nat, n \in G PROVE n + 1 \in G
  <2>1. PICK g : Sums(g, f, Small(n))
    BY <1>3
  <2> DEFINE h == [s \in Small(n + 1) |->
                     IF s = {} THEN 0 ELSE f[First(s)] + g[s \ {First(s)}]]
  <2>2. ASSUME NEW s \in Small(n), s # {}
        PROVE  s \ {First(s)} \in Small(n) /\ s \in Small(n + 1)
    <3>1. First(s) \in s
      BY <2>2 DEF First
    <3>2. Cardinality(s \ {First(s)}) = Cardinality(s) - 1
      BY <1>1, <3>1, FS_RemoveElement
    <3> QED  BY <1>1, <3>2
  <2>3. ASSUME NEW s \in Small(n + 1), s # {}
        PROVE  s \ {First(s)} \in Small(n)
    <3>1. First(s) \in s
      BY <2>3 DEF First
    <3>2. Cardinality(s \ {First(s)}) = Cardinality(s) - 1
      BY <1>1, <3>1, FS_RemoveElement
    <3> QED  BY <1>1, <3>2
  <2>4. ASSUME NEW s \in Small(n) PROVE s \in Small(n + 1) /\ h[s] = g[s]
    <3>1. s \in Small(n + 1)
      BY <1>1
    <3>2. g[s] = IF s = {} THEN 0 ELSE f[First(s)] + g[s \ {First(s)}]
      BY <2>1 DEF SumsOf, Sums
    <3> QED  BY <3>1, <3>2
  <2>5. Sums(h, f, Small(n + 1))
    <3>1. \A s \in Small(n + 1) :
            h[s] = IF s = {} THEN 0 ELSE f[First(s)] + h[s \ {First(s)}]
      BY <2>3, <2>4
    <3> QED  BY <3>1 DEF SumsOf, Sums
  <2>6. \E k : Sums(k, f, Small(n + 1))
    <3> HIDE DEF h, Small
    <3> QED  BY <2>5
  <2> HIDE DEF h, Small
  <2> QED  BY <2>6
<1>4. Cardinality(S) \in G
  <2> HIDE DEF G
  <2> QED  BY <1>1, <1>2, <1>3, AllNaturals
<1>5. Small(Cardinality(S)) = SUBSET S
  <2>1. \A s \in SUBSET S : s \in Small(Cardinality(S))
    BY <1>1
  <2>2. \A s \in Small(Cardinality(S)) : s \in SUBSET S
    OBVIOUS
  <2> HIDE DEF Small
  <2> QED  BY <2>1, <2>2
<1> QED  BY <1>4, <1>5 DEF SumsOf

\* A sum of naturals takes its elements in whatever order.
LEMMA AnyOrder ==
  ASSUME NEW f, NEW S, IsFiniteSet(S), Counted(f, S), NEW g, SumsOf(g, f, S)
  PROVE  Orderless(g, f, S)
<1>0. \A x \in S : f[x] \in Nat
  BY DEF Counted
<1> DEFINE G == {n \in Nat : \A s \in SUBSET S :
                   Cardinality(s) <= n =>
                     g[s] \in Nat /\ \A x \in s : g[s] = f[x] + g[s \ {x}]}
<1>1. \A s \in SUBSET S :
        IsFiniteSet(s) /\ Cardinality(s) \in Nat /\ Cardinality(s) <= Cardinality(S)
  BY FS_Subset, FS_CardinalityType
<1>2. ASSUME NEW s \in SUBSET S, s # {}
      PROVE  /\ First(s) \in s
             /\ g[s] = f[First(s)] + g[s \ {First(s)}]
  <2>1. First(s) \in s
    BY <1>2 DEF First
  <2> QED  BY <1>2, <2>1 DEF SumsOf, Sums
<1>3. g[{}] = 0
  BY DEF SumsOf, Sums
<1>4. 0 \in G
  <2>1. \A s \in SUBSET S : Cardinality(s) <= 0 => s = {}
    BY <1>1, FS_EmptySet
  <2>2. ASSUME NEW s \in SUBSET S, Cardinality(s) <= 0
        PROVE  g[s] \in Nat /\ \A x \in s : g[s] = f[x] + g[s \ {x}]
    <3>1. s = {}
      BY <2>1, <2>2
    <3> QED  BY <1>3, <3>1
  <2> QED  BY <2>2
<1>5. ASSUME NEW n \in Nat, n \in G PROVE n + 1 \in G
  <2> SUFFICES ASSUME NEW s \in SUBSET S, Cardinality(s) <= n + 1
               PROVE  g[s] \in Nat /\ \A x \in s : g[s] = f[x] + g[s \ {x}]
    OBVIOUS
  <2>0. CASE s = {}
    BY <1>3, <2>0
  <2> SUFFICES ASSUME s # {} PROVE g[s] \in Nat /\ \A x \in s : g[s] = f[x] + g[s \ {x}]
    BY <2>0
  <2> DEFINE c == First(s)
  <2>1. c \in s /\ g[s] = f[c] + g[s \ {c}]
    BY <1>2
  <2>2. ASSUME NEW x \in s
        PROVE  /\ g[s \ {x}] \in Nat
               /\ \A y \in s \ {x} : g[s \ {x}] = f[y] + g[s \ {x, y}] /\ g[s \ {x, y}] \in Nat
    <3>1. Cardinality(s \ {x}) = Cardinality(s) - 1 /\ s \ {x} \in SUBSET S
      BY <1>1, FS_RemoveElement
    <3>2. /\ g[s \ {x}] \in Nat
          /\ \A y \in s \ {x} : g[s \ {x}] = f[y] + g[(s \ {x}) \ {y}]
      <4>1. Cardinality(s \ {x}) <= n
        BY <1>1, <3>1
      <4> QED  BY <1>5, <3>1, <4>1
    <3>3. ASSUME NEW y \in s \ {x} PROVE (s \ {x}) \ {y} = s \ {x, y} /\ g[s \ {x, y}] \in Nat
      <4>1. (s \ {x}) \ {y} = s \ {x, y} /\ s \ {x, y} \in SUBSET S
        OBVIOUS
      <4>2. Cardinality(s \ {x, y}) = Cardinality(s) - 2
        <5>1. Cardinality((s \ {x}) \ {y}) = Cardinality(s \ {x}) - 1
          BY <1>1, <3>1, <3>3, FS_RemoveElement
        <5>2. Cardinality(s \ {x, y}) = Cardinality(s \ {x}) - 1
          BY <4>1, <5>1
        <5>3. Cardinality(s) \in Nat
          BY <1>1
        <5> QED  BY <3>1, <5>2, <5>3
      <4>3. Cardinality(s \ {x, y}) <= n
        BY <1>1, <4>1, <4>2
      <4> QED  BY <1>5, <4>1, <4>3
    <3>4. \A y \in s \ {x} : g[s \ {x}] = f[y] + g[s \ {x, y}] /\ g[s \ {x, y}] \in Nat
      BY <3>2, <3>3
    <3> QED  BY <3>2, <3>4
  <2>3. ASSUME NEW x \in s, x # c PROVE g[s] = f[x] + g[s \ {x}]
    <3>1. g[s \ {c}] = f[x] + g[s \ {c, x}] /\ g[s \ {c, x}] \in Nat
      BY <2>1, <2>2, <2>3
    <3>2. g[s \ {x}] = f[c] + g[s \ {x, c}]
      BY <2>1, <2>2, <2>3
    <3>3. s \ {c, x} = s \ {x, c}
      OBVIOUS
    <3>4. f[c] \in Nat /\ f[x] \in Nat
      BY <1>0, <2>1, <2>3
    <3> DEFINE rest == g[s \ {c, x}]
    <3>5. /\ g[s] = f[c] + (f[x] + rest) /\ g[s \ {x}] = f[c] + rest
          /\ rest \in Nat
      BY <2>1, <3>1, <3>2, <3>3
    <3> HIDE DEF c, rest
    <3> QED  BY <3>4, <3>5
  <2>4. g[s] \in Nat
    <3>1. f[c] \in Nat /\ g[s \ {c}] \in Nat
      BY <1>0, <2>1, <2>2
    <3> HIDE DEF c
    <3> QED  BY <2>1, <3>1
  <2> QED  BY <2>1, <2>3, <2>4
<1>6. Cardinality(S) \in G
  <2> HIDE DEF G
  <2> QED  BY <1>1, <1>4, <1>5, AllNaturals
<1> QED  BY <1>1, <1>6 DEF Orderless

\* Two sums of the same values agree on every set both are given.
LEMMA SameSum ==
  ASSUME NEW f, NEW T, IsFiniteSet(T), NEW h, SumsOf(h, f, T),
         NEW S \in SUBSET T, NEW g, SumsOf(g, f, S)
  PROVE  g[S] = h[S]
<1>0. IsFiniteSet(S)
  BY FS_Subset
<1> DEFINE G == {n \in Nat : \A s \in SUBSET S : Cardinality(s) <= n => g[s] = h[s]}
<1>1. \A s \in SUBSET S :
        IsFiniteSet(s) /\ Cardinality(s) \in Nat /\ Cardinality(s) <= Cardinality(S)
  BY <1>0, FS_Subset, FS_CardinalityType
<1>2. 0 \in G
  <2>1. \A s \in SUBSET S : Cardinality(s) <= 0 => s = {}
    BY <1>1, FS_EmptySet
  <2>2. g[{}] = 0 /\ h[{}] = 0
    BY DEF SumsOf, Sums
  <2> QED  BY <2>1, <2>2
<1>3. ASSUME NEW n \in Nat, n \in G PROVE n + 1 \in G
  <2> SUFFICES ASSUME NEW s \in SUBSET S, Cardinality(s) <= n + 1, s # {}
               PROVE  g[s] = h[s]
    BY <1>2, <1>1, FS_EmptySet
  <2> DEFINE c == First(s)
  <2>1. c \in s
    BY DEF First
  <2>2. Cardinality(s \ {c}) = Cardinality(s) - 1 /\ s \ {c} \in SUBSET S
    BY <1>1, <2>1, FS_RemoveElement
  <2>3. g[s \ {c}] = h[s \ {c}]
    BY <1>1, <1>3, <2>2
  <2>4. g[s] = f[c] + g[s \ {c}] /\ h[s] = f[c] + h[s \ {c}]
    BY DEF SumsOf, Sums
  <2> QED  BY <2>3, <2>4
<1>4. Cardinality(S) \in G
  <2> HIDE DEF G
  <2> QED  BY <1>1, <1>2, <1>3, AllNaturals
<1> QED  BY <1>1, <1>4

\* What the library computes is such a sum.
LEMMA SumIsSums ==
  ASSUME NEW f, NEW S, IsFiniteSet(S)
  PROVE  \E g : SumsOf(g, f, S) /\ SumOf(f, S) = g[S]
<1> DEFINE iter == CHOOSE g : SumsOf(g, f, S)
<1>1. SumsOf(iter, f, S)
  BY SumsUpTo
<1>2. SumOf(f, S) =
        (CHOOSE g : g = [s \in SUBSET S |-> IF s = {} THEN 0 ELSE f[First(s)] + g[s \ {First(s)}]])[S]
  BY DEF SumOf, MapThenSumSet, MapThenFoldSet, First
<1>3. SumOf(f, S) = iter[S]
  BY <1>2 DEF SumsOf, Sums
<1> HIDE DEF iter
<1> QED  BY <1>1, <1>3

\* The sum over no element.
LEMMA SumOfNone ==
  ASSUME NEW f
  PROVE  SumOf(f, {}) = 0
<1>1. PICK g : SumsOf(g, f, {}) /\ SumOf(f, {}) = g[{}]
  BY SumIsSums, FS_EmptySet
<1> QED  BY <1>1 DEF SumsOf, Sums

\* The sums over all subsets of a set come from one function.
LEMMA SubsetSums ==
  ASSUME NEW f, NEW S, IsFiniteSet(S), Counted(f, S)
  PROVE  \E g : Orderless(g, f, S) /\ \A s \in SUBSET S : SumOf(f, s) = g[s]
<1>1. PICK g : SumsOf(g, f, S) /\ SumOf(f, S) = g[S]
  BY SumIsSums
<1>2. Orderless(g, f, S)
  BY <1>1, AnyOrder
<1>3. ASSUME NEW s \in SUBSET S PROVE SumOf(f, s) = g[s]
  <2>1. IsFiniteSet(s)
    BY FS_Subset
  <2>2. PICK k : SumsOf(k, f, s) /\ SumOf(f, s) = k[s]
    BY <2>1, SumIsSums
  <2>3. k[s] = g[s]
    BY <1>1, <2>2, SameSum
  <2> QED  BY <2>2, <2>3
<1> QED  BY <1>2, <1>3

\* An element adds its value, whichever it is.
LEMMA SumOfOneMore ==
  ASSUME NEW f, NEW S, IsFiniteSet(S), Counted(f, S), NEW x \in S, NEW R, R = S \ {x}
  PROVE  SumOf(f, R) \in Nat /\ SumOf(f, S) = f[x] + SumOf(f, R)
<1>1. PICK g : Orderless(g, f, S) /\ \A s \in SUBSET S : SumOf(f, s) = g[s]
  BY SubsetSums
<1>2. S \in SUBSET S /\ R \in SUBSET S
  OBVIOUS
<1>3. SumOf(f, S) = g[S] /\ SumOf(f, R) = g[R]
  BY <1>1, <1>2
<1>4. g[S] = f[x] + g[R] /\ g[R] \in Nat
  BY <1>1, <1>2 DEF Orderless
<1> QED  BY <1>3, <1>4

\* A sum of naturals none of which exceeds b.
LEMMA SumBounded ==
  ASSUME NEW f, NEW S, IsFiniteSet(S), NEW b \in Nat,
         \A x \in S : f[x] \in Nat /\ f[x] <= b
  PROVE  SumOf(f, S) \in Nat /\ SumOf(f, S) <= b * Cardinality(S)
<1>1. PICK g : SumsOf(g, f, S) /\ SumOf(f, S) = g[S]
  BY SumIsSums
<1>2. Orderless(g, f, S)
  BY <1>1, AnyOrder DEF Counted
<1>3. \A s \in SUBSET S :
        IsFiniteSet(s) /\ Cardinality(s) \in Nat /\ Cardinality(s) <= Cardinality(S)
  BY FS_Subset, FS_CardinalityType
<1> DEFINE G == {n \in Nat : \A s \in SUBSET S : Cardinality(s) = n => g[s] <= b * n}
<1>4. 0 \in G
  <2>1. ASSUME NEW s \in SUBSET S, Cardinality(s) = 0 PROVE g[s] <= b * 0
    <3>1. s = {}
      BY <1>3, <2>1, FS_EmptySet
    <3>2. g[{}] = 0
      BY <1>1 DEF SumsOf, Sums
    <3> QED  BY <3>1, <3>2
  <2> QED  BY <2>1
<1>5. ASSUME NEW n \in Nat, n \in G PROVE n + 1 \in G
  <2>1. ASSUME NEW s \in SUBSET S, Cardinality(s) = n + 1 PROVE g[s] <= b * (n + 1)
    <3>1. PICK x \in s : TRUE
      <4>1. s # {}
        BY <2>1, FS_EmptySet
      <4> QED  BY <4>1
    <3>2. s \ {x} \in SUBSET S /\ Cardinality(s \ {x}) = n
      <4>1. s \ {x} \in SUBSET S /\ IsFiniteSet(s)
        BY <1>3
      <4>2. Cardinality(s \ {x}) = Cardinality(s) - 1
        BY <3>1, <4>1, FS_RemoveElement
      <4> QED  BY <2>1, <4>1, <4>2
    <3>3. g[s \ {x}] <= b * n /\ g[s \ {x}] \in Nat
      BY <1>2, <1>5, <3>2 DEF Orderless
    <3>4. g[s] = f[x] + g[s \ {x}] /\ f[x] \in Nat /\ f[x] <= b
      BY <1>2, <3>1 DEF Orderless
    <3>5. b * (n + 1) = b * n + b
      OBVIOUS
    <3> DEFINE rest == g[s \ {x}]
               part == b * n
    <3>6. part \in Nat /\ rest \in Nat /\ rest <= part
      BY <3>3
    <3>7. g[s] = f[x] + rest /\ b * (n + 1) = part + b
      BY <3>4, <3>5
    <3> HIDE DEF rest, part
    <3> QED  BY <3>4, <3>6, <3>7
  <2> QED  BY <2>1
<1>6. Cardinality(S) \in G
  <2> HIDE DEF G
  <2> QED  BY <1>3, <1>4, <1>5, AllNaturals
<1> QED  BY <1>1, <1>2, <1>6 DEF Orderless

\* Whatever holds of no element, and survives one more, holds of every subset.
LEMMA AllSubsets ==
  ASSUME NEW B, IsFiniteSet(B), NEW Good, {} \in Good,
         \A C \in SUBSET B : C # {} /\ (\A x \in C : C \ {x} \in Good) => C \in Good
  PROVE  SUBSET B \subseteq Good
<1> DEFINE G == {n \in Nat : \A s \in SUBSET B : Cardinality(s) = n => s \in Good}
<1>1. \A s \in SUBSET B : IsFiniteSet(s) /\ Cardinality(s) \in Nat
  BY FS_Subset, FS_CardinalityType
<1>2. 0 \in G
  <2>1. \A s \in SUBSET B : Cardinality(s) = 0 => s = {}
    BY <1>1, FS_EmptySet
  <2> QED  BY <2>1
<1>3. ASSUME NEW n \in Nat, n \in G PROVE n + 1 \in G
  <2>1. ASSUME NEW s \in SUBSET B, Cardinality(s) = n + 1 PROVE s \in Good
    <3>1. Cardinality(s) # 0
      BY <2>1
    <3>2. s # {}
      BY <3>1, FS_EmptySet
    <3>3. ASSUME NEW x \in s PROVE s \ {x} \in Good
      <4>1. Cardinality(s \ {x}) = Cardinality(s) - 1 /\ s \ {x} \in SUBSET B
        BY <1>1, FS_RemoveElement
      <4>2. Cardinality(s \ {x}) = n
        BY <2>1, <4>1
      <4> QED  BY <1>3, <4>1, <4>2
    <3> QED  BY <3>2, <3>3
  <2> QED  BY <2>1
<1>4. Nat \subseteq G
  <2> HIDE DEF G
  <2> QED  BY <1>2, <1>3, AllNaturals
<1> QED  BY <1>1, <1>4

\* A sum of naturals over two sets apart is the sum of the two.
LEMMA SumOfUnion ==
  ASSUME NEW f, NEW A, IsFiniteSet(A), NEW B, IsFiniteSet(B), A \cap B = {},
         Counted(f, A \cup B)
  PROVE  /\ SumOf(f, A) \in Nat /\ SumOf(f, B) \in Nat
         /\ SumOf(f, A \cup B) = SumOf(f, A) + SumOf(f, B)
<1> DEFINE T == A \cup B
<1>1. IsFiniteSet(T)
  BY FS_Union
<1>2. PICK g : Orderless(g, f, T) /\ \A s \in SUBSET T : SumOf(f, s) = g[s]
  BY <1>1, SubsetSums
<1>3. \A s \in SUBSET T : g[s] \in Nat /\ \A x \in s : g[s] = f[x] + g[s \ {x}]
  BY <1>2 DEF Orderless
<1>4. \A x \in T : f[x] \in Nat
  BY DEF Counted
<1>5. g[{}] = 0
  BY <1>2, SumOfNone
<1> DEFINE Good == {C \in SUBSET B : g[A \cup C] = g[A] + g[C]}
<1>6. {} \in Good
  <2>1. A \cup {} = A /\ A \in SUBSET T
    OBVIOUS
  <2>2. g[A \cup {}] = g[A] /\ g[A] \in Nat
    BY <1>3, <2>1
  <2> QED  BY <1>5, <2>2
<1>7. ASSUME NEW C \in SUBSET B, C # {}, \A x \in C : C \ {x} \in Good PROVE C \in Good
  <2>0. PICK x \in C : C \ {x} \in Good
    BY <1>7
  <2>1. /\ A \cup C \in SUBSET T /\ C \in SUBSET T /\ A \in SUBSET T /\ C \ {x} \in SUBSET T
        /\ (A \cup C) \ {x} = A \cup (C \ {x})
    OBVIOUS
  <2>2. g[A \cup C] = f[x] + g[A \cup (C \ {x})] /\ g[C] = f[x] + g[C \ {x}]
    BY <1>3, <2>1
  <2>3. g[A \cup (C \ {x})] = g[A] + g[C \ {x}] /\ f[x] \in Nat
    BY <1>4, <2>0
  <2>4. g[A] \in Nat /\ g[C \ {x}] \in Nat
    BY <1>3, <2>1
  <2>5. g[A \cup C] = g[A] + g[C]
    BY <2>2, <2>3, <2>4
  <2> QED  BY <2>5
<1>8. B \in Good
  <2> HIDE DEF Good
  <2> QED  BY <1>6, <1>7, AllSubsets
<1>9. A \in SUBSET T /\ B \in SUBSET T /\ A \cup B \in SUBSET T
  OBVIOUS
<1> QED  BY <1>2, <1>3, <1>8, <1>9

\* If every value grows by c, the sum grows by c for each element.
LEMMA SumOfShifted ==
  ASSUME NEW f, NEW S, IsFiniteSet(S), Counted(f, S), NEW c \in Nat,
         NEW h, \A x \in S : h[x] = f[x] + c
  PROVE  SumOf(h, S) = SumOf(f, S) + Cardinality(S) * c
<1>0. \A x \in S : f[x] \in Nat /\ h[x] \in Nat
  BY DEF Counted
<1>1. PICK g : Orderless(g, f, S) /\ \A s \in SUBSET S : SumOf(f, s) = g[s]
  BY SubsetSums
<1>2. Counted(h, S)
  BY <1>0 DEF Counted
<1>3. PICK k : Orderless(k, h, S) /\ \A s \in SUBSET S : SumOf(h, s) = k[s]
  BY <1>2, SubsetSums
<1>4. g[{}] = 0 /\ k[{}] = 0
  BY <1>1, <1>3, SumOfNone
<1>5. \A s \in SUBSET S : IsFiniteSet(s) /\ Cardinality(s) \in Nat
  BY FS_Subset, FS_CardinalityType
<1> DEFINE Good == {C \in SUBSET S : k[C] = g[C] + Cardinality(C) * c}
<1>6. {} \in Good
  BY <1>4, FS_EmptySet
<1>7. ASSUME NEW C \in SUBSET S, C # {}, \A x \in C : C \ {x} \in Good PROVE C \in Good
  <2>0. PICK x \in C : C \ {x} \in Good
    BY <1>7
  <2>1. Cardinality(C \ {x}) = Cardinality(C) - 1 /\ C \ {x} \in SUBSET S
    BY <1>5, <2>0, FS_RemoveElement
  <2>2. g[C] = f[x] + g[C \ {x}] /\ g[C \ {x}] \in Nat /\ k[C] = h[x] + k[C \ {x}]
    BY <1>1, <1>3, <2>1 DEF Orderless
  <2>3. k[C \ {x}] = g[C \ {x}] + Cardinality(C \ {x}) * c
    BY <2>0
  <2>4. f[x] \in Nat /\ h[x] = f[x] + c
    BY <1>0
  <2>5. Cardinality(C) * c = Cardinality(C \ {x}) * c + c
    <3>1. ASSUME NEW n \in Int PROVE n * c = (n - 1) * c + c
      OBVIOUS
    <3> QED  BY <1>5, <2>1, <3>1
  <2>6. Cardinality(C \ {x}) * c \in Nat
    <3>1. \A n \in Nat : n * c \in Nat
      OBVIOUS
    <3> QED  BY <1>5, <2>1, <3>1
  <2>7. k[C] = g[C] + Cardinality(C) * c
    <3> DEFINE less == Cardinality(C \ {x}) * c
               all == Cardinality(C) * c
    <3>1. less \in Nat /\ all = less + c /\ k[C \ {x}] = g[C \ {x}] + less
      BY <2>3, <2>5, <2>6
    <3> HIDE DEF less, all
    <3>2. k[C] = g[C] + all
      BY <2>2, <2>4, <3>1
    <3> QED  BY <3>2 DEF all
  <2> QED  BY <2>7
<1>8. S \in Good
  <2> HIDE DEF Good
  <2> QED  BY <1>6, <1>7, AllSubsets
<1> QED  BY <1>1, <1>3, <1>8

-------------------------------------------------------------------------------
(* Products, samples and trials                                            *)

(* h is the product of the first values of c, up to n of them.             *)
ProductsUpTo(h, c, n) == h = [k \in 0..n |-> IF k = 0 THEN 1 ELSE c[k] * h[k - 1]]

LEMMA PartialProducts ==
  ASSUME NEW c
  PROVE  \A n \in Nat : \E h : ProductsUpTo(h, c, n)
<1> DEFINE G == {n \in Nat : \E h : ProductsUpTo(h, c, n)}
<1>1. 0 \in G
  <2> DEFINE h == [k \in 0..0 |-> 1]
  <2>1. ProductsUpTo(h, c, 0)
    BY DEF ProductsUpTo
  <2> QED  BY <2>1
<1>2. ASSUME NEW n \in Nat, n \in G PROVE n + 1 \in G
  <2>1. PICK h : ProductsUpTo(h, c, n)
    BY <1>2
  <2> DEFINE g == [k \in 0..(n + 1) |-> IF k = 0 THEN 1 ELSE c[k] * h[k - 1]]
  <2>2. \A k \in 0..n : g[k] = h[k]
    BY <2>1 DEF ProductsUpTo
  <2>3. \A k \in 0..(n + 1) : k # 0 => k - 1 \in 0..n
    OBVIOUS
  <2>4. \A k \in 0..(n + 1) : g[k] = IF k = 0 THEN 1 ELSE c[k] * g[k - 1]
    BY <2>2, <2>3
  <2>5. ProductsUpTo(g, c, n + 1)
    BY <2>4 DEF ProductsUpTo
  <2> HIDE DEF g
  <2> QED  BY <2>5
<1>3. Nat \subseteq G
  <2> HIDE DEF G
  <2> QED  BY <1>1, <1>2, AllNaturals
<1> QED  BY <1>3

(* What two of them say of a number both give.                             *)
LEMMA ProductsAgree ==
  ASSUME NEW c, NEW n \in Nat, NEW m \in Nat,
         NEW g, ProductsUpTo(g, c, n), NEW h, ProductsUpTo(h, c, m)
  PROVE  \A k \in Nat : k <= n /\ k <= m => g[k] = h[k]
<1> DEFINE G == {k \in Nat : k <= n /\ k <= m => g[k] = h[k]}
<1>1. 0 \in G
  BY DEF ProductsUpTo
<1>2. ASSUME NEW k \in Nat, k \in G PROVE k + 1 \in G
  <2> SUFFICES ASSUME k + 1 <= n, k + 1 <= m PROVE g[k + 1] = h[k + 1]
    OBVIOUS
  <2>1. g[k] = h[k]
    BY <1>2
  <2>2. k + 1 \in 0..n /\ k + 1 \in 0..m /\ k + 1 # 0 /\ (k + 1) - 1 = k
    OBVIOUS
  <2>3. g[k + 1] = c[k + 1] * g[k]
    BY <2>2 DEF ProductsUpTo
  <2>4. h[k + 1] = c[k + 1] * h[k]
    BY <2>2 DEF ProductsUpTo
  <2> QED  BY <2>1, <2>3, <2>4
<1>3. Nat \subseteq G
  <2> HIDE DEF G
  <2> QED  BY <1>1, <1>2, AllNaturals
<1> QED  BY <1>3

(* The recursion of the products has a solution on all naturals.           *)
LEMMA ProductsExist ==
  ASSUME NEW c
  PROVE  \E f : f = [n \in Nat |-> IF n = 0 THEN 1 ELSE c[n] * f[n - 1]]
<1> DEFINE Solution(n) == CHOOSE h : ProductsUpTo(h, c, n)
           g == [n \in Nat |-> Solution(n)[n]]
<1>1. \A n \in Nat : ProductsUpTo(Solution(n), c, n)
  BY PartialProducts
<1>2. \A n \in Nat : g[n] = IF n = 0 THEN 1 ELSE c[n] * g[n - 1]
  <2> SUFFICES ASSUME NEW n \in Nat PROVE g[n] = IF n = 0 THEN 1 ELSE c[n] * g[n - 1]
    OBVIOUS
  <2>1. CASE n = 0
    <3>1. ProductsUpTo(Solution(0), c, 0)
      BY <1>1
    <3> HIDE DEF Solution
    <3>2. Solution(0)[0] = 1
      BY <3>1 DEF ProductsUpTo
    <3> QED  BY <2>1, <3>2
  <2>2. CASE n # 0
    <3>1. n - 1 \in Nat /\ n - 1 <= n /\ n - 1 <= n - 1 /\ n \in 0..n
      BY <2>2
    <3>2. ProductsUpTo(Solution(n), c, n) /\ ProductsUpTo(Solution(n - 1), c, n - 1)
      BY <1>1, <3>1
    <3>3. Solution(n)[n - 1] = Solution(n - 1)[n - 1]
      <4> HIDE DEF Solution
      <4> QED  BY <3>1, <3>2, ProductsAgree
    <3>4. Solution(n)[n] = c[n] * Solution(n)[n - 1]
      <4> HIDE DEF Solution
      <4> QED  BY <2>2, <3>1, <3>2 DEF ProductsUpTo
    <3> HIDE DEF Solution
    <3> QED  BY <2>2, <3>1, <3>3, <3>4
  <2> QED  BY <2>1, <2>2
<1>3. g = [n \in Nat |-> IF n = 0 THEN 1 ELSE c[n] * g[n - 1]]
  <2>1. g = [n \in Nat |-> g[n]]
    OBVIOUS
  <2> HIDE DEF g
  <2> QED  BY <1>2, <2>1
<1> HIDE DEF g
<1> QED  BY <1>3

(* What they are: naturals, if what is multiplied are.                     *)
LEMMA ProductsAre ==
  ASSUME NEW c, \A n \in Nat : c[n] \in Nat,
         NEW f, f = [n \in Nat |-> IF n = 0 THEN 1 ELSE c[n] * f[n - 1]]
  PROVE  /\ f[0] = 1
         /\ \A n \in Nat : f[n + 1] = c[n + 1] * f[n]
         /\ \A n \in Nat : f[n] \in Nat
<1>1. f[0] = 1 /\ \A n \in Nat : f[n + 1] = c[n + 1] * f[n]
  <2>1. \A n \in Nat : n + 1 \in Nat /\ n + 1 # 0 /\ (n + 1) - 1 = n
    OBVIOUS
  <2>2. \A n \in Nat : f[n] = IF n = 0 THEN 1 ELSE c[n] * f[n - 1]
    OBVIOUS
  <2> QED  BY <2>1, <2>2
<1> DEFINE G == {n \in Nat : f[n] \in Nat}
<1>2. 0 \in G
  BY <1>1
<1>3. ASSUME NEW n \in Nat, n \in G PROVE n + 1 \in G
  <2>1. f[n + 1] = c[n + 1] * f[n] /\ f[n] \in Nat /\ c[n + 1] \in Nat
    BY <1>1, <1>3
  <2>2. \A a, b \in Nat : a * b \in Nat
    OBVIOUS
  <2> QED  BY <2>1, <2>2
<1>4. Nat \subseteq G
  <2> HIDE DEF G
  <2> QED  BY <1>2, <1>3, AllNaturals
<1> QED  BY <1>1, <1>4

(* The library's factorial is a product.                                   *)
LEMMA Factorials ==
  /\ factorial[0] = 1
  /\ \A n \in Nat : factorial[n + 1] = (n + 1) * factorial[n]
  /\ \A n \in Nat : factorial[n] \in Nat \ {0}
<1> DEFINE c == [n \in Nat |-> n]
<1>1. \E f : f = [n \in Nat |-> IF n = 0 THEN 1 ELSE n * f[n - 1]]
  <2>1. PICK f : f = [n \in Nat |-> IF n = 0 THEN 1 ELSE c[n] * f[n - 1]]
    <3> HIDE DEF c
    <3> QED  BY ProductsExist
  <2>2. f = [n \in Nat |-> IF n = 0 THEN 1 ELSE n * f[n - 1]]
    BY <2>1
  <2> QED  BY <2>2
<1>2. factorial = [n \in Nat |-> IF n = 0 THEN 1 ELSE n * factorial[n - 1]]
  BY <1>1 DEF factorial
<1>3. factorial = [n \in Nat |-> IF n = 0 THEN 1 ELSE c[n] * factorial[n - 1]]
  <2>1. \A n \in Nat : c[n] = n
    OBVIOUS
  <2> HIDE DEF c
  <2> QED  BY <1>2, <2>1
<1>4. /\ factorial[0] = 1
      /\ \A n \in Nat : factorial[n + 1] = c[n + 1] * factorial[n]
      /\ \A n \in Nat : factorial[n] \in Nat
  <2>1. \A n \in Nat : c[n] \in Nat
    OBVIOUS
  <2> HIDE DEF c
  <2> QED  BY <1>3, <2>1, ProductsAre
<1>5. \A n \in Nat : factorial[n + 1] = (n + 1) * factorial[n]
  <2>1. \A n \in Nat : c[n + 1] = n + 1
    OBVIOUS
  <2> QED  BY <1>4, <2>1
<1> DEFINE G == {n \in Nat : factorial[n] # 0}
<1>6. 0 \in G
  BY <1>4
<1>7. ASSUME NEW n \in Nat, n \in G PROVE n + 1 \in G
  <2>1. factorial[n + 1] = (n + 1) * factorial[n] /\ factorial[n] \in Nat \ {0}
    BY <1>4, <1>5, <1>7
  <2>2. \A a, b \in Nat \ {0} : a * b # 0
    OBVIOUS
  <2> QED  BY <2>1, <2>2
<1>8. Nat \subseteq G
  <2> HIDE DEF G
  <2> QED  BY <1>6, <1>7, AllNaturals
<1> QED  BY <1>4, <1>5, <1>8

(* Of the samples of k a set without x has fewer: those x is added to are  *)
(* samples of k - 1.                                                       *)
LEMMA SamplesOfOneMore ==
  ASSUME NEW S, IsFiniteSet(S), NEW x \in S, NEW R, R = S \ {x}, NEW k \in Nat \ {0}
  PROVE  /\ IsFiniteSet(kSubset(k, R)) /\ IsFiniteSet(kSubset(k - 1, R))
         /\ Cardinality(kSubset(k, S)) = Cardinality(kSubset(k, R)) + Cardinality(kSubset(k - 1, R))
<1> DEFINE A == kSubset(k, R)
           K == kSubset(k - 1, R)
           B == {t \cup {x} : t \in K}
           f == [t \in K |-> t \cup {x}]
<1>1. IsFiniteSet(SUBSET R) /\ IsFiniteSet(R) /\ \A t \in SUBSET R : IsFiniteSet(t) /\ Cardinality(t) \in Nat
  BY FS_Subset, FS_SUBSET, FS_RemoveElement, FS_CardinalityType
<1>2. A \in SUBSET (SUBSET R) /\ K \in SUBSET (SUBSET R)
  BY DEF kSubset
<1>3. IsFiniteSet(A) /\ IsFiniteSet(K)
  <2> HIDE DEF A, K
  <2> QED  BY <1>1, <1>2, FS_Subset
<1>4. f \in Bijection(K, B)
  <2>1. \A t \in K : t \in SUBSET R
    BY <1>2
  <2>2. ASSUME NEW t \in K, NEW u \in K, t \cup {x} = u \cup {x} PROVE t = u
    <3>1. x \notin t /\ x \notin u
      BY <2>1
    <3> HIDE DEF K
    <3> QED  BY <2>2, <3>1
  <2> HIDE DEF K
  <2> QED  BY <2>2 DEF Bijection, Injection, Surjection, IsInjective
<1>5. IsFiniteSet(B) /\ Cardinality(B) = Cardinality(K)
  <2> HIDE DEF f, K, B
  <2> QED  BY <1>3, <1>4, FS_Bijection DEF ExistsBijection
<1>6. kSubset(k, S) = A \cup B
  <2>1. ASSUME NEW s \in kSubset(k, S) PROVE s \in A \cup B
    <3>1. s \in SUBSET S /\ Cardinality(s) = k
      BY <2>1 DEF kSubset
    <3>2. CASE x \in s
      <4>1. s \ {x} \in SUBSET R /\ (s \ {x}) \cup {x} = s
        BY <3>1, <3>2
      <4>2. Cardinality(s \ {x}) = k - 1
        <5>1. IsFiniteSet(s)
          BY <3>1, FS_Subset
        <5> QED  BY <3>1, <3>2, <5>1, FS_RemoveElement
      <4>3. s \ {x} \in K
        BY <4>1, <4>2 DEF kSubset
      <4> HIDE DEF K
      <4> QED  BY <4>1, <4>3
    <3>3. CASE x \notin s
      BY <3>1, <3>3 DEF kSubset
    <3> QED  BY <3>2, <3>3
  <2>2. ASSUME NEW s \in A PROVE s \in kSubset(k, S)
    BY <2>2 DEF kSubset
  <2>3. ASSUME NEW t \in K PROVE t \cup {x} \in kSubset(k, S)
    <3>1. t \in SUBSET R /\ Cardinality(t) = k - 1 /\ x \notin t
      BY <2>3 DEF kSubset
    <3>2. Cardinality(t \cup {x}) = k
      BY <1>1, <3>1, FS_AddElement
    <3> QED  BY <3>1, <3>2 DEF kSubset
  <2>4. \A s \in B : s \in kSubset(k, S)
    <3> HIDE DEF K
    <3> QED  BY <2>3
  <2> HIDE DEF A, B, K
  <2> QED  BY <2>1, <2>2, <2>4
<1>7. A \cap B = {}
  <2>1. \A t \in A : x \notin t
    BY <1>2
  <2> HIDE DEF A, K
  <2> QED  BY <2>1
<1> HIDE DEF A, B, K, f
<1>8. Cardinality(A \cup B) = Cardinality(A) + Cardinality(B) - Cardinality({})
  BY <1>3, <1>5, <1>7, FS_Union
<1>9. Cardinality(A) \in Nat /\ Cardinality(K) \in Nat /\ Cardinality({}) = 0
  BY <1>3, FS_CardinalityType, FS_EmptySet
<1>10. Cardinality(A \cup B) = Cardinality(A) + Cardinality(K)
  BY <1>5, <1>8, <1>9
<1> QED  BY <1>3, <1>6, <1>10 DEF A, K

(* Pascal's rule in factorials.                                            *)
LEMMA Pascal ==
  ASSUME NEW a \in Nat, NEW b \in Nat, NEW p \in Nat, NEW q \in Nat, NEW k \in Nat, NEW d \in Nat,
         NEW F \in Nat, a * ((k * p) * q) = F, b * (p * (d * q)) = F
  PROVE  (a + b) * ((k * p) * (d * q)) = (k + d) * F
<1>1. (a + b) * ((k * p) * (d * q)) = d * (a * ((k * p) * q)) + k * (b * (p * (d * q)))
  OBVIOUS
<1>2. d * F + k * F = (k + d) * F
  OBVIOUS
<1> QED  BY <1>1, <1>2

(* How many samples of k there are, times the orders of what is in one and *)
(* of what is not, are the orders of all.                                  *)
LEMMA SamplesCounted ==
  ASSUME NEW S, IsFiniteSet(S)
  PROVE  \A k \in 0..Cardinality(S) :
           Cardinality(kSubset(k, S)) * (factorial[k] * factorial[Cardinality(S) - k])
             = factorial[Cardinality(S)]
<1> DEFINE Right(s) == \A k \in 0..Cardinality(s) :
                         Cardinality(kSubset(k, s)) * (factorial[k] * factorial[Cardinality(s) - k])
                           = factorial[Cardinality(s)]
           Good == {s \in SUBSET S : Right(s)}
<1>0. \A s \in SUBSET S : IsFiniteSet(s) /\ Cardinality(s) \in Nat
  BY FS_Subset, FS_CardinalityType
<1>1. ASSUME NEW s \in SUBSET S
      PROVE  /\ Cardinality(kSubset(0, s)) = 1
             /\ Cardinality(kSubset(Cardinality(s), s)) = 1
  <2>1. \A t \in SUBSET s : IsFiniteSet(t) /\ (Cardinality(s) = Cardinality(t) => s = t)
    BY <1>0, FS_Subset
  <2>2. kSubset(0, s) = {{}}
    BY <2>1, FS_EmptySet DEF kSubset
  <2>3. kSubset(Cardinality(s), s) = {s}
    BY <2>1 DEF kSubset
  <2> QED  BY <2>2, <2>3, FS_Singleton
<1>2. ASSUME NEW n \in Nat
      PROVE  /\ 1 * (factorial[0] * factorial[n - 0]) = factorial[n]
             /\ 1 * (factorial[n] * factorial[n - n]) = factorial[n]
  BY Factorials
<1>3. {} \in Good
  <2>1. Cardinality({}) = 0
    BY FS_EmptySet
  <2>2. \A k \in 0..0 : k = 0
    OBVIOUS
  <2>3. Cardinality(kSubset(0, {})) = 1 /\ factorial[0] = 1
    BY <1>1, Factorials
  <2>4. Right({})
    BY <2>1, <2>2, <2>3
  <2> QED  BY <2>4
<1>4. ASSUME NEW s \in SUBSET S, s # {}, \A x \in s : s \ {x} \in Good
      PROVE  s \in Good
  <2>1. PICK x \in s : TRUE
    BY <1>4
  <2> DEFINE R == s \ {x}
             n == Cardinality(s)
  <2>2. n \in Nat \ {0} /\ Cardinality(R) = n - 1 /\ IsFiniteSet(s)
    BY <1>0, <1>4, <2>1, FS_EmptySet, FS_RemoveElement
  <2>3. \A k \in 0..(n - 1) :
          Cardinality(kSubset(k, R)) * (factorial[k] * factorial[(n - 1) - k]) = factorial[n - 1]
    BY <1>4, <2>1, <2>2
  <2> SUFFICES ASSUME NEW k \in 0..n
               PROVE  Cardinality(kSubset(k, s)) * (factorial[k] * factorial[n - k]) = factorial[n]
    OBVIOUS
  <2>4. CASE k = 0
    BY <1>1, <1>2, <2>2, <2>4
  <2>5. CASE k = n
    BY <1>1, <1>2, <2>2, <2>5
  <2>6. CASE k # 0 /\ k # n
    <3> DEFINE a == Cardinality(kSubset(k, R))
               b == Cardinality(kSubset(k - 1, R))
               p == factorial[k - 1]
               q == factorial[(n - 1) - k]
               d == n - k
               F == factorial[n - 1]
    <3>1. /\ k - 1 \in Nat /\ (n - 1) - k \in Nat /\ n - 1 \in Nat /\ n - k \in Nat /\ k \in Nat
          /\ k \in 0..(n - 1) /\ k - 1 \in 0..(n - 1)
          /\ (k - 1) + 1 = k /\ ((n - 1) - k) + 1 = n - k /\ (n - 1) + 1 = n
          /\ (n - 1) - (k - 1) = n - k /\ k + (n - k) = n
      BY <2>2, <2>6
    <3>2. factorial[k] = k * p /\ factorial[n - k] = d * q /\ factorial[n] = n * F
      BY <3>1, Factorials
    <3>3. p \in Nat /\ q \in Nat /\ F \in Nat
      BY <3>1, Factorials
    <3>4. Cardinality(kSubset(k, s)) = a + b /\ a \in Nat /\ b \in Nat
      <4>1. /\ IsFiniteSet(kSubset(k, R)) /\ IsFiniteSet(kSubset(k - 1, R))
            /\ Cardinality(kSubset(k, s)) = a + b
        BY <2>1, <2>2, <2>6, SamplesOfOneMore
      <4> QED  BY <4>1, FS_CardinalityType
    <3>5. a * (factorial[k] * q) = F
      BY <2>3, <3>1
    <3>6. b * (p * factorial[n - k]) = F
      BY <2>3, <3>1
    <3>7. a * ((k * p) * q) = F /\ b * (p * (d * q)) = F /\ d \in Nat /\ k \in Nat
      BY <3>1, <3>2, <3>5, <3>6
    <3>8. k + d = n
      BY <3>1
    <3> HIDE DEF a, b, p, q, d, F, n
    <3>9. (a + b) * ((k * p) * (d * q)) = (k + d) * F
      BY <3>3, <3>4, <3>7, Pascal
    <3>10. Cardinality(kSubset(k, s)) * (factorial[k] * factorial[n - k]) = n * F
      BY <3>2, <3>4, <3>8, <3>9
    <3> QED  BY <3>2, <3>10
  <2> QED  BY <2>4, <2>5, <2>6
<1>5. S \in Good
  <2> HIDE DEF Good
  <2> QED  BY <1>3, <1>4, AllSubsets
<1> QED  BY <1>5

(* So choose is how many samples there are.                                *)
LEMMA ChooseCounts ==
  ASSUME NEW S, IsFiniteSet(S), NEW k \in 0..Cardinality(S)
  PROVE  /\ Cardinality(kSubset(k, S)) = choose(Cardinality(S), k)
         /\ IsFiniteSet(kSubset(k, S)) /\ Cardinality(kSubset(k, S)) \in Nat
<1> DEFINE n == Cardinality(S)
           c == Cardinality(kSubset(k, S))
           D == factorial[k] * factorial[n - k]
           F == factorial[n]
<1>1. n \in Nat /\ k \in Nat /\ n - k \in Nat
  BY FS_CardinalityType
<1>2. IsFiniteSet(kSubset(k, S)) /\ c \in Nat
  <2>1. IsFiniteSet(SUBSET S) /\ kSubset(k, S) \in SUBSET (SUBSET S)
    BY FS_SUBSET DEF kSubset
  <2> QED  BY <2>1, FS_Subset, FS_CardinalityType
<1>3. factorial[k] \in Nat \ {0} /\ factorial[n - k] \in Nat \ {0}
  BY <1>1, Factorials
<1>4. D \in Nat \ {0}
  <2>1. \A a, b \in Nat \ {0} : a * b \in Nat \ {0}
    OBVIOUS
  <2> QED  BY <1>3, <2>1
<1>5. c * D = F
  BY SamplesCounted
<1>6. (c * D) \div D = c
  <2> HIDE DEF c, D
  <2> QED  BY <1>2, <1>4
<1> HIDE DEF c, D, F, n
<1>7. c = F \div D
  BY <1>5, <1>6
<1> QED  BY <1>2, <1>7 DEF c, D, F, n, choose

(* Powers are products too.                                                *)
LEMMA PowersExist ==
  ASSUME NEW b \in Nat
  PROVE  /\ \E f : f = [n \in Nat |-> IF n = 0 THEN 1 ELSE b * f[n - 1]]
         /\ \A f : f = [n \in Nat |-> IF n = 0 THEN 1 ELSE b * f[n - 1]] =>
              /\ f[0] = 1
              /\ \A n \in Nat : f[n + 1] = b * f[n]
              /\ \A n \in Nat : f[n] \in Nat
<1> DEFINE c == [n \in Nat |-> b]
<1>1. \A f : f = [n \in Nat |-> IF n = 0 THEN 1 ELSE b * f[n - 1]]
               <=> f = [n \in Nat |-> IF n = 0 THEN 1 ELSE c[n] * f[n - 1]]
  <2>1. \A n \in Nat : c[n] = b
    OBVIOUS
  <2> HIDE DEF c
  <2> SUFFICES ASSUME NEW f
               PROVE  [n \in Nat |-> IF n = 0 THEN 1 ELSE b * f[n - 1]]
                        = [n \in Nat |-> IF n = 0 THEN 1 ELSE c[n] * f[n - 1]]
    OBVIOUS
  <2> QED  BY <2>1
<1>2. \A n \in Nat : c[n] \in Nat /\ c[n + 1] = b
  OBVIOUS
<1> HIDE DEF c
<1>3. \E f : f = [n \in Nat |-> IF n = 0 THEN 1 ELSE b * f[n - 1]]
  <2>1. PICK f : f = [n \in Nat |-> IF n = 0 THEN 1 ELSE c[n] * f[n - 1]]
    BY ProductsExist
  <2> QED  BY <1>1, <2>1
<1>4. ASSUME NEW f, f = [n \in Nat |-> IF n = 0 THEN 1 ELSE b * f[n - 1]]
      PROVE  /\ f[0] = 1
             /\ \A n \in Nat : f[n + 1] = b * f[n]
             /\ \A n \in Nat : f[n] \in Nat
  <2>1. f = [n \in Nat |-> IF n = 0 THEN 1 ELSE c[n] * f[n - 1]]
    BY <1>1, <1>4
  <2>2. /\ f[0] = 1
        /\ \A n \in Nat : f[n + 1] = c[n + 1] * f[n]
        /\ \A n \in Nat : f[n] \in Nat
    BY <1>2, <2>1, ProductsAre
  <2> QED  BY <1>2, <2>2
<1> QED  BY <1>3, <1>4

(* The triangle of the numbers of samples.                                 *)
LEMMA ChoiceTriangle ==
  /\ \A n \in Nat : choose(n, 0) = 1 /\ choose(n, n) = 1
  /\ \A n \in Nat : \A k \in 1..n : choose(n + 1, k) = choose(n, k) + choose(n, k - 1)
  /\ \A n \in Nat : \A k \in 0..n : choose(n, k) \in Nat
<1>1. \A n \in Nat : IsFiniteSet(1..n) /\ Cardinality(1..n) = n
  BY FS_Interval
<1>2. \A n \in Nat : \A k \in 0..n :
        choose(n, k) = Cardinality(kSubset(k, 1..n)) /\ choose(n, k) \in Nat
  BY <1>1, ChooseCounts
<1>3. ASSUME NEW n \in Nat PROVE choose(n, 0) = 1 /\ choose(n, n) = 1
  <2> DEFINE F == factorial[n]
  <2>1. F \in Nat \ {0} /\ factorial[0] = 1 /\ n - 0 = n /\ n - n = 0
    BY Factorials
  <2>2. choose(n, 0) = F \div (1 * F) /\ choose(n, n) = F \div (F * 1)
    BY <2>1 DEF choose
  <2>3. 1 * F = F /\ F * 1 = F /\ F \div F = 1
    <3> HIDE DEF F
    <3> QED  BY <2>1
  <2> QED  BY <2>2, <2>3
<1>4. ASSUME NEW n \in Nat, NEW k \in 1..n
      PROVE  choose(n + 1, k) = choose(n, k) + choose(n, k - 1)
  <2>1. IsFiniteSet(1..(n + 1)) /\ n + 1 \in 1..(n + 1) /\ 1..n = (1..(n + 1)) \ {n + 1}
        /\ k \in Nat \ {0} /\ k \in 0..n /\ k - 1 \in 0..n /\ k \in 0..(n + 1) /\ n + 1 \in Nat
    BY <1>1
  <2>2. Cardinality(kSubset(k, 1..(n + 1)))
          = Cardinality(kSubset(k, 1..n)) + Cardinality(kSubset(k - 1, 1..n))
    BY <2>1, SamplesOfOneMore
  <2> QED  BY <1>2, <2>1, <2>2
<1>5. \A n \in Nat : choose(n, 0) = 1 /\ choose(n, n) = 1
  BY <1>3
<1>6. \A n \in Nat : \A k \in 1..n : choose(n + 1, k) = choose(n, k) + choose(n, k - 1)
  BY <1>4
<1>7. \A n \in Nat : \A k \in 0..n : choose(n, k) \in Nat
  BY <1>2
<1> QED  BY <1>5, <1>6, <1>7

(* The sum from k on, and the sum of what is left without k.               *)
LEMMA SumFromFirst ==
  ASSUME NEW n \in Nat, NEW w, \A x \in 0..n : w[x] \in Nat
  PROVE  /\ \A k \in 0..(n + 1) : SumOf(w, k..n) \in Nat
         /\ \A k \in 0..n : SumOf(w, k..n) = w[k] + SumOf(w, (k + 1)..n)
         /\ SumOf(w, (n + 1)..n) = 0
<1>1. ASSUME NEW k \in 0..n
      PROVE  SumOf(w, (k + 1)..n) \in Nat /\ SumOf(w, k..n) = w[k] + SumOf(w, (k + 1)..n)
  <2>1. IsFiniteSet(k..n) /\ k \in k..n /\ (k + 1)..n = (k..n) \ {k}
    BY FS_Interval
  <2>2. Counted(w, k..n)
    BY DEF Counted
  <2> QED  BY <2>1, <2>2, SumOfOneMore
<1>2. SumOf(w, (n + 1)..n) = 0
  <2>1. (n + 1)..n = {}
    OBVIOUS
  <2> QED  BY <2>1, SumOfNone
<1>3. ASSUME NEW k \in 0..(n + 1) PROVE SumOf(w, k..n) \in Nat
  <2>1. CASE k = n + 1
    BY <2>1, <1>2
  <2>2. CASE k # n + 1
    <3>1. k \in 0..n
      BY <2>2
    <3>2. w[k] \in Nat
      BY <3>1
    <3> QED  BY <1>1, <3>1, <3>2
  <2> QED  BY <2>1, <2>2
<1> QED  BY <1>1, <1>2, <1>3

(* One more trial: v is what w becomes by it, when it succeeds p ways and  *)
(* fails q ways.                                                           *)
Trial(w, n, p, q, v) ==
  /\ v[0] = q * w[0] /\ v[n + 1] = p * w[n]
  /\ \A x \in 1..n : v[x] = p * w[x - 1] + q * w[x]

LEMMA OneMoreTrial ==
  ASSUME NEW n \in Nat, NEW p \in Nat, NEW q \in Nat,
         NEW w, \A x \in 0..n : w[x] \in Nat,
         NEW v, Trial(w, n, p, q, v)
  PROVE  /\ \A k \in 1..(n + 1) :
              SumOf(v, k..(n + 1)) = p * SumOf(w, (k - 1)..n) + q * SumOf(w, k..n)
         /\ SumOf(v, 0..(n + 1)) = (p + q) * SumOf(w, 0..n)
<1> DEFINE V(k) == SumOf(v, k..(n + 1))
           W(k) == SumOf(w, k..n)
<1>1. /\ \A k \in 0..(n + 1) : W(k) \in Nat
      /\ \A k \in 0..n : W(k) = w[k] + W(k + 1)
      /\ W(n + 1) = 0
  BY SumFromFirst
<1>2. \A x \in 0..(n + 1) : v[x] \in Nat
  <2> SUFFICES ASSUME NEW x \in 0..(n + 1) PROVE v[x] \in Nat
    OBVIOUS
  <2>0. \A a, b \in Nat : a * b \in Nat /\ a + b \in Nat
    OBVIOUS
  <2>1. CASE x = 0
    BY <2>0, <2>1 DEF Trial
  <2>2. CASE x = n + 1
    BY <2>0, <2>2 DEF Trial
  <2>3. CASE x \in 1..n
    <3>1. w[x] \in Nat /\ w[x - 1] \in Nat
      BY <2>3
    <3>2. v[x] = p * w[x - 1] + q * w[x]
      BY <2>3 DEF Trial
    <3> QED  BY <2>0, <3>1, <3>2
  <2> QED  BY <2>1, <2>2, <2>3
<1>3. /\ \A k \in 0..(n + 2) : V(k) \in Nat
      /\ \A k \in 0..(n + 1) : V(k) = v[k] + V(k + 1)
      /\ V(n + 2) = 0
  <2>1. n + 1 \in Nat /\ (n + 1) + 1 = n + 2
    OBVIOUS
  <2>2. /\ \A k \in 0..((n + 1) + 1) : V(k) \in Nat
        /\ \A k \in 0..(n + 1) : V(k) = v[k] + V(k + 1)
        /\ V((n + 1) + 1) = 0
    <3> HIDE DEF W
    <3> QED  BY <1>2, <2>1, SumFromFirst
  <2> HIDE DEF V
  <2> QED  BY <2>1, <2>2
<1> HIDE DEF V, W
<1> DEFINE Right(k) == V(k) = p * W(k - 1) + q * W(k)
           G == {d \in Nat : d <= n => Right(n + 1 - d)}
<1>4. 0 \in G
  <2>1. V(n + 1) = v[n + 1] + V((n + 1) + 1) /\ (n + 1) + 1 = n + 2 /\ (n + 1) - 1 = n
    BY <1>3
  <2>2. W(n) = w[n] + W(n + 1) /\ w[n] \in Nat
    BY <1>1
  <2>3. v[n + 1] = p * w[n] /\ p * w[n] \in Nat /\ q * 0 = 0
    BY <2>2 DEF Trial
  <2>4. V(n + 1) = p * W(n) + q * W(n + 1)
    BY <1>1, <1>3, <2>1, <2>2, <2>3
  <2> QED  BY <2>1, <2>4
<1>5. ASSUME NEW d \in Nat, d \in G PROVE d + 1 \in G
  <2> SUFFICES ASSUME d + 1 <= n PROVE Right(n + 1 - (d + 1))
    OBVIOUS
  <2> DEFINE k == n - d
  <2>1. k \in 1..n /\ k \in 0..n /\ k - 1 \in 0..n /\ n + 1 - (d + 1) = k /\ n + 1 - d = k + 1
        /\ k \in 0..(n + 1) /\ k + 1 \in 0..(n + 1) /\ (k - 1) + 1 = k /\ (k + 1) - 1 = k
    OBVIOUS
  <2> HIDE DEF k
  <2>2. V(k + 1) = p * W(k) + q * W(k + 1)
    BY <1>5, <2>1
  <2>3. V(k) = v[k] + V(k + 1) /\ v[k] = p * w[k - 1] + q * w[k]
    BY <1>3, <2>1 DEF Trial
  <2>4. W(k) = w[k] + W(k + 1) /\ W(k - 1) = w[k - 1] + W(k)
    BY <1>1, <2>1
  <2>5. w[k] \in Nat /\ w[k - 1] \in Nat /\ W(k) \in Nat /\ W(k + 1) \in Nat
    BY <1>1, <2>1
  <2>6. \A a, b, c, e \in Nat : (p * a + q * b) + (p * c + q * e) = p * (a + c) + q * (b + e)
    OBVIOUS
  <2>7. V(k) = p * (w[k - 1] + W(k)) + q * (w[k] + W(k + 1))
    BY <2>2, <2>3, <2>5, <2>6
  <2>8. Right(k)
    BY <2>4, <2>7
  <2> QED  BY <2>1, <2>8
<1>6. Nat \subseteq G
  <2> HIDE DEF G
  <2> QED  BY <1>4, <1>5, AllNaturals
<1>7. ASSUME NEW k \in 1..(n + 1) PROVE V(k) = p * W(k - 1) + q * W(k)
  <2>1. n + 1 - k \in Nat /\ n + 1 - k <= n /\ n + 1 - (n + 1 - k) = k
    OBVIOUS
  <2> QED  BY <1>6, <2>1
<1>8. V(0) = (p + q) * W(0)
  <2>1. V(0) = v[0] + V(1) /\ V(1) = p * W(0) + q * W(1)
    <3>1. 0 + 1 = 1 /\ 1 - 1 = 0 /\ 1 \in 1..(n + 1) /\ 0 \in 0..(n + 1)
      OBVIOUS
    <3> QED  BY <1>3, <1>7, <3>1
  <2>2. W(0) = w[0] + W(1) /\ w[0] \in Nat /\ W(1) \in Nat /\ v[0] = q * w[0]
    <3>1. 0 + 1 = 1 /\ 0 \in 0..n /\ 1 \in 0..(n + 1)
      OBVIOUS
    <3> QED  BY <1>1, <3>1 DEF Trial
  <2>3. \A a, b \in Nat : q * a + (p * (a + b) + q * b) = (p + q) * (a + b)
    OBVIOUS
  <2> QED  BY <2>1, <2>2, <2>3
<1> QED  BY <1>7, <1>8 DEF V, W
================================================================================
