-------------------------------- MODULE Sums --------------------------------
(***************************************************************************)
(* Theorems about SumFunction of the community modules, the sum of a       *)
(* function over its finite domain: what the shares of an expense and the  *)
(* counts of a window are added up with.  The definition folds the domain  *)
(* in an order that CHOOSE fixes; none of the facts depends on it.         *)
(***************************************************************************)
EXTENDS Integers, FiniteSets, Functions, FiniteSetTheorems, WellFoundedInduction, TLAPS

(* The fold, as the recursive function it is. *)
Chosen(s) == CHOOSE x \in s : TRUE
Fold(f, g, s) == IF s = {} THEN 0 ELSE f[Chosen(s)] + g[s \ {Chosen(s)}]
Folding(f) == CHOOSE g : g = [s \in SUBSET DOMAIN f |-> Fold(f, g, s)]

LEMMA SumIsFolding ==
  ASSUME NEW f
  PROVE  SumFunction(f) = Folding(f)[DOMAIN f]
BY DEF SumFunction, SumFunctionOnSet, FoldFunctionOnSet, MapThenFoldSet, Folding, Fold, Chosen

-----------------------------------------------------------------------------
(* Induction on the size of a set: a property of natural numbers that      *)
(* fails somewhere fails first somewhere.                                  *)
LEMMA FirstFailure ==
  ASSUME NEW B \in SUBSET Nat, B # {}
  PROVE  \E n \in B : \A m \in B : n =< m
<1>. DEFINE R == {ss \in Nat \X Nat : ss[1] < ss[2]}
<1>1. IsWellFoundedOn(R, Nat)
  BY NatLessThanWellFounded DEF OpToRel
<1>2. PICK n \in B : \A m \in B : ~ (<<m, n>> \in R)
  <2>. HIDE DEF R
  <2>. QED
    BY <1>1, WFMin
<1>3. ASSUME NEW m \in B
      PROVE  n =< m
  <2>1. ~ (m < n) /\ m \in Nat /\ n \in Nat
    BY <1>2
  <2>. QED
    BY <2>1
<1>. QED
  BY <1>3

LEMMA ChosenIn ==
  ASSUME NEW s, s # {}
  PROVE  Chosen(s) \in s
BY DEF Chosen

LEMMA Smaller ==
  ASSUME NEW s, IsFiniteSet(s), NEW x \in s
  PROVE  /\ IsFiniteSet(s \ {x}) /\ Cardinality(s) \in Nat /\ Cardinality(s \ {x}) \in Nat
         /\ Cardinality(s \ {x}) = Cardinality(s) - 1 /\ Cardinality(s \ {x}) < Cardinality(s)
<1>1. /\ IsFiniteSet(s \ {x})
      /\ Cardinality(s \ {x}) = IF x \in s THEN Cardinality(s) - 1 ELSE Cardinality(s)
  BY FS_RemoveElement, Zenon
<1>2. Cardinality(s) \in Nat /\ Cardinality(s \ {x}) \in Nat
  BY <1>1, FS_CardinalityType, Zenon
<1>. QED
  BY <1>1, <1>2

-----------------------------------------------------------------------------
(* The recursion defines the fold: on the subsets of up to n elements, and *)
(* so on all.                                                              *)
UpTo(f, n) == {s \in SUBSET DOMAIN f : Cardinality(s) =< n}

LEMMA FoldingExists ==
  ASSUME NEW f, IsFiniteSet(DOMAIN f)
  PROVE  Folding(f) = [s \in SUBSET DOMAIN f |-> Fold(f, Folding(f), s)]
<1>. DEFINE Defined(n) == \E g : g = [s \in UpTo(f, n) |-> Fold(f, g, s)]
            B == {n \in Nat : ~ Defined(n)}
<1>1. \A s \in SUBSET DOMAIN f : IsFiniteSet(s) /\ Cardinality(s) \in Nat
  BY FS_Subset, FS_CardinalityType
<1>2. Defined(0)
  <2>. DEFINE g == [s \in UpTo(f, 0) |-> 0]
  <2>1. \A s \in UpTo(f, 0) : s = {}
    BY <1>1, FS_EmptySet DEF UpTo
  <2>2. g = [s \in UpTo(f, 0) |-> Fold(f, g, s)]
    BY <2>1 DEF Fold
  <2>. QED
    BY <2>2
<1>3. ASSUME NEW n \in Nat, Defined(n)
      PROVE  Defined(n + 1)
  <2>1. PICK g : g = [s \in UpTo(f, n) |-> Fold(f, g, s)]
    BY <1>3
  <2>. DEFINE h == [s \in UpTo(f, n + 1) |-> Fold(f, g, s)]
  <2>2. ASSUME NEW s \in UpTo(f, n + 1)
        PROVE  Fold(f, g, s) = Fold(f, h, s)
    <3>1. CASE s = {}
      BY <3>1 DEF Fold
    <3>2. CASE s # {}
      <4>. DEFINE t == s \ {Chosen(s)}
      <4>1. Chosen(s) \in s /\ IsFiniteSet(s) /\ t \in SUBSET DOMAIN f
        BY <1>1, <3>2, ChosenIn DEF UpTo
      <4>2. Cardinality(s) \in Nat /\ Cardinality(t) \in Nat /\ Cardinality(t) = Cardinality(s) - 1
        BY <4>1, Smaller
      <4>3. t \in UpTo(f, n) /\ t \in UpTo(f, n + 1)
        BY <4>1, <4>2 DEF UpTo
      <4>4. g[t] = Fold(f, g, t) /\ h[t] = Fold(f, g, t)
        BY <2>1, <4>3
      <4>. QED
        BY <3>2, <4>4 DEF Fold
    <3>. QED
      BY <3>1, <3>2
  <2>3. h = [s \in UpTo(f, n + 1) |-> Fold(f, h, s)]
    BY <2>2
  <2>. QED
    BY <2>3
<1>4. \A n \in Nat : Defined(n)
  <2>. SUFFICES ASSUME B # {}
                PROVE  FALSE
    OBVIOUS
  <2>1. PICK n \in B : \A m \in B : n =< m
    <3>. HIDE DEF Defined
    <3>. QED
      BY FirstFailure
  <2>. HIDE DEF Defined
  <2>2. n # 0 /\ n - 1 \in Nat /\ n - 1 \notin B
    BY <1>2, <2>1
  <2>. QED
    BY <1>3, <2>2
<1>5. UpTo(f, Cardinality(DOMAIN f)) = SUBSET DOMAIN f
  BY <1>1, FS_Subset DEF UpTo
<1>6. \E g : g = [s \in SUBSET DOMAIN f |-> Fold(f, g, s)]
  <2>. DEFINE n == Cardinality(DOMAIN f)
  <2>1. PICK g : g = [s \in UpTo(f, n) |-> Fold(f, g, s)]
    BY <1>1, <1>4
  <2>2. DOMAIN g = SUBSET DOMAIN f /\ \A s \in SUBSET DOMAIN f : g[s] = Fold(f, g, s)
    BY <2>1, <1>5
  <2>3. g = [s \in DOMAIN g |-> g[s]]
    BY <2>1
  <2>4. g = [s \in SUBSET DOMAIN f |-> Fold(f, g, s)]
    BY <2>2, <2>3
  <2>. QED
    BY <2>4
<1>. QED
  BY <1>6 DEF Folding

(* Part of a sum. *)
Part(f, s) == Folding(f)[s]

LEMMA PartStep ==
  ASSUME NEW f, IsFiniteSet(DOMAIN f), NEW s \in SUBSET DOMAIN f
  PROVE  /\ s = {} => Part(f, s) = 0
         /\ s # {} => Part(f, s) = f[Chosen(s)] + Part(f, s \ {Chosen(s)})
<1>1. Folding(f)[s] = Fold(f, Folding(f), s)
  BY FoldingExists
<1>. QED
  BY <1>1 DEF Part, Fold

(* An induction on subsets: of those where a fact fails, take a smallest.  *)
LEMMA SmallestSet ==
  ASSUME NEW D, IsFiniteSet(D), NEW B \in SUBSET (SUBSET D), B # {}
  PROVE  \E s \in B : \A t \in SUBSET D : Cardinality(t) < Cardinality(s) => t \notin B
<1>1. \A s \in SUBSET D : IsFiniteSet(s) /\ Cardinality(s) \in Nat
  BY FS_Subset, FS_CardinalityType
<1>. DEFINE N == {Cardinality(s) : s \in B}
<1>2. N \in SUBSET Nat /\ N # {}
  BY <1>1
<1>3. PICK n \in N : \A m \in N : n =< m
  <2>. HIDE DEF N
  <2>. QED
    BY <1>2, FirstFailure
<1>4. PICK s \in B : Cardinality(s) = n
  OBVIOUS
<1>5. ASSUME NEW t \in B
      PROVE  ~ (Cardinality(t) < Cardinality(s))
  <2>1. n =< Cardinality(t) /\ n \in Nat /\ Cardinality(t) \in Nat
    BY <1>1, <1>3
  <2>. QED
    BY <1>4, <2>1
<1>. QED
  BY <1>5

LEMMA PartType ==
  ASSUME NEW f, IsFiniteSet(DOMAIN f), \A x \in DOMAIN f : f[x] \in Int
  PROVE  \A s \in SUBSET DOMAIN f : Part(f, s) \in Int
<1>. DEFINE B == {s \in SUBSET DOMAIN f : Part(f, s) \notin Int}
<1>. SUFFICES ASSUME B # {}
              PROVE  FALSE
  OBVIOUS
<1>1. PICK s \in B : \A t \in SUBSET DOMAIN f : Cardinality(t) < Cardinality(s) => t \notin B
  <2>. HIDE DEF B
  <2>1. B \in SUBSET (SUBSET DOMAIN f)
    BY DEF B
  <2>. QED
    BY <2>1, SmallestSet
<1>2. s # {}
  BY PartStep
<1>3. Chosen(s) \in s /\ IsFiniteSet(s)
  BY <1>2, ChosenIn, FS_Subset
<1>4. Part(f, s \ {Chosen(s)}) \in Int
  BY <1>1, <1>3, Smaller
<1>. QED
  BY <1>2, <1>3, <1>4, PartStep

(* The order does not matter: any element may be added last.               *)
LEMMA PartAny ==
  ASSUME NEW f, IsFiniteSet(DOMAIN f), \A x \in DOMAIN f : f[x] \in Int
  PROVE  \A s \in SUBSET DOMAIN f, x \in DOMAIN f :
           x \in s => Part(f, s) = f[x] + Part(f, s \ {x})
<1>. DEFINE B == {s \in SUBSET DOMAIN f : \E x \in s : Part(f, s) # f[x] + Part(f, s \ {x})}
<1>. SUFFICES ASSUME B # {}
              PROVE  FALSE
  OBVIOUS
<1>1. PICK s \in B : \A t \in SUBSET DOMAIN f : Cardinality(t) < Cardinality(s) => t \notin B
  <2>. HIDE DEF B
  <2>1. B \in SUBSET (SUBSET DOMAIN f)
    BY DEF B
  <2>. QED
    BY <2>1, SmallestSet
<1>2. PICK x \in s : Part(f, s) # f[x] + Part(f, s \ {x})
  OBVIOUS
<1>. DEFINE y == Chosen(s)
<1>3. y \in s /\ IsFiniteSet(s)
  BY <1>2, ChosenIn, FS_Subset
<1>4. Part(f, s) = f[y] + Part(f, s \ {y})
  BY <1>3, PartStep
<1>5. x # y
  BY <1>2, <1>4
<1>6. s \ {x} \notin B /\ s \ {y} \notin B
  BY <1>1, <1>3, Smaller
<1>7. Part(f, s \ {y}) = f[x] + Part(f, (s \ {y}) \ {x})
  BY <1>3, <1>5, <1>6
<1>8. Part(f, s \ {x}) = f[y] + Part(f, (s \ {x}) \ {y})
  BY <1>3, <1>5, <1>6
<1>9. (s \ {y}) \ {x} = (s \ {x}) \ {y}
  OBVIOUS
<1>10. f[x] \in Int /\ f[y] \in Int /\ Part(f, (s \ {x}) \ {y}) \in Int
  BY <1>3, PartType
<1>11. /\ Part(f, s) = f[y] + (f[x] + Part(f, (s \ {x}) \ {y}))
       /\ f[x] + Part(f, s \ {x}) = f[x] + (f[y] + Part(f, (s \ {x}) \ {y}))
  <2>. HIDE DEF y, B
  <2>. QED
    BY <1>4, <1>7, <1>8, <1>9
<1>12. \A a, b, c \in Int : a + (b + c) = b + (a + c)
  OBVIOUS
<1>. QED
  BY <1>2, <1>10, <1>11, <1>12

(* Functions that agree on a set add up to the same there.                 *)
LEMMA PartAgree ==
  ASSUME NEW f, NEW g, IsFiniteSet(DOMAIN f), IsFiniteSet(DOMAIN g),
         NEW S, S \subseteq DOMAIN f, S \subseteq DOMAIN g, \A x \in S : f[x] = g[x]
  PROVE  Part(f, S) = Part(g, S)
<1>. DEFINE B == {s \in SUBSET S : Part(f, s) # Part(g, s)}
<1>. SUFFICES ASSUME B # {}
              PROVE  FALSE
  OBVIOUS
<1>1. PICK s \in B : \A t \in SUBSET S : Cardinality(t) < Cardinality(s) => t \notin B
  <2>. HIDE DEF B
  <2>1. B \in SUBSET (SUBSET S) /\ IsFiniteSet(S)
    BY FS_Subset DEF B
  <2>. QED
    BY <2>1, SmallestSet
<1>2. s \in SUBSET DOMAIN f /\ s \in SUBSET DOMAIN g
  OBVIOUS
<1>3. s # {}
  BY <1>2, PartStep
<1>4. Chosen(s) \in s /\ IsFiniteSet(s)
  BY <1>2, <1>3, ChosenIn, FS_Subset
<1>5. Part(f, s \ {Chosen(s)}) = Part(g, s \ {Chosen(s)})
  BY <1>1, <1>4, Smaller
<1>6. f[Chosen(s)] = g[Chosen(s)]
  BY <1>4
<1>. QED
  BY <1>2, <1>3, <1>5, <1>6, PartStep

-----------------------------------------------------------------------------
(* What is used of sums.                                                   *)

Without(f, x) == [u \in DOMAIN f \ {x} |-> f[u]]

LEMMA SumIsPart ==
  ASSUME NEW f
  PROVE  SumFunction(f) = Part(f, DOMAIN f)
BY SumIsFolding DEF Part

LEMMA SumType ==
  ASSUME NEW f, IsFiniteSet(DOMAIN f), \A x \in DOMAIN f : f[x] \in Int
  PROVE  SumFunction(f) \in Int
BY PartType, SumIsPart

LEMMA SumEmpty ==
  ASSUME NEW f, DOMAIN f = {}
  PROVE  SumFunction(f) = 0
BY PartStep, SumIsPart, FS_EmptySet

(* A term taken out of a sum. *)
LEMMA SumWithout ==
  ASSUME NEW f, IsFiniteSet(DOMAIN f), \A x \in DOMAIN f : f[x] \in Int, NEW x \in DOMAIN f
  PROVE  SumFunction(f) = f[x] + SumFunction(Without(f, x))
<1>. DEFINE g == Without(f, x)
            S == DOMAIN f \ {x}
<1>1. DOMAIN g = S /\ \A u \in S : g[u] = f[u]
  BY DEF Without
<1>2. IsFiniteSet(S)
  BY FS_Subset
<1>. HIDE DEF g
<1>3. Part(f, S) = Part(g, S)
  BY <1>1, <1>2, PartAgree
<1>4. Part(f, DOMAIN f) = f[x] + Part(f, S)
  BY PartAny
<1>5. SumFunction(f) = f[x] + SumFunction(g)
  BY <1>1, <1>3, <1>4, SumIsPart
<1>. QED
  BY <1>5 DEF g

LEMMA SumNat ==
  ASSUME NEW f, IsFiniteSet(DOMAIN f), \A x \in DOMAIN f : f[x] \in Nat
  PROVE  SumFunction(f) \in Nat /\ \A x \in DOMAIN f : f[x] =< SumFunction(f)
<1>. DEFINE B == {s \in SUBSET DOMAIN f : Part(f, s) \notin Nat}
<1>1. \A s \in SUBSET DOMAIN f : Part(f, s) \in Nat
  <2>. SUFFICES ASSUME B # {}
                PROVE  FALSE
    OBVIOUS
  <2>1. PICK s \in B : \A t \in SUBSET DOMAIN f : Cardinality(t) < Cardinality(s) => t \notin B
    <3>. HIDE DEF B
    <3>1. B \in SUBSET (SUBSET DOMAIN f)
      BY DEF B
    <3>. QED
      BY <3>1, SmallestSet
  <2>2. s # {}
    <3>1. Part(f, {}) = 0
      BY PartStep
    <3>2. Part(f, s) # 0
      BY <2>1
    <3>. QED
      BY <3>1, <3>2
  <2>3. Chosen(s) \in s /\ IsFiniteSet(s)
    BY <2>2, ChosenIn, FS_Subset
  <2>4. Part(f, s \ {Chosen(s)}) \in Nat
    BY <2>1, <2>3, Smaller
  <2>. QED
    BY <2>2, <2>3, <2>4, PartStep
<1>2. ASSUME NEW x \in DOMAIN f
      PROVE  f[x] =< Part(f, DOMAIN f)
  <2>1. Part(f, DOMAIN f) = f[x] + Part(f, DOMAIN f \ {x})
    BY PartAny
  <2>2. Part(f, DOMAIN f \ {x}) \in Nat /\ f[x] \in Nat
    BY <1>1
  <2>. QED
    BY <2>1, <2>2
<1>. QED
  BY <1>1, <1>2, SumIsPart

(* Equal terms. *)
LEMMA SumConstant ==
  ASSUME NEW f, IsFiniteSet(DOMAIN f), NEW b \in Int, \A u \in DOMAIN f : f[u] = b
  PROVE  SumFunction(f) = b * Cardinality(DOMAIN f)
<1>. DEFINE D == DOMAIN f
            B == {s \in SUBSET D : Part(f, s) # b * Cardinality(s)}
<1>1. DOMAIN f = D /\ \A u \in D : f[u] = b
  OBVIOUS
<1>2. B = {}
  <2>. SUFFICES ASSUME B # {}
                PROVE  FALSE
    OBVIOUS
  <2>1. PICK s \in B : \A t \in SUBSET D : Cardinality(t) < Cardinality(s) => t \notin B
    <3>. HIDE DEF B
    <3>1. B \in SUBSET (SUBSET D)
      BY DEF B
    <3>. QED
      BY <3>1, SmallestSet
  <2>2. s # {}
    <3>1. Part(f, {}) = 0 /\ Cardinality({}) = 0
      BY <1>1, PartStep, FS_EmptySet
    <3>2. b * 0 = 0
      OBVIOUS
    <3>3. Part(f, {}) = b * Cardinality({})
      BY <3>1, <3>2
    <3>4. s \in B
      BY <2>1
    <3>. QED
      BY <3>3, <3>4
  <2>. DEFINE y == Chosen(s)
              n == Cardinality(s \ {y})
  <2>3. y \in s /\ IsFiniteSet(s)
    BY <2>2, ChosenIn, FS_Subset
  <2>4. n \in Nat /\ Cardinality(s) = n + 1 /\ n < Cardinality(s)
    <3>. HIDE DEF B, y
    <3>1. n \in Nat /\ Cardinality(s) \in Nat /\ n = Cardinality(s) - 1
      BY <2>3, Smaller
    <3>. QED
      BY <3>1
  <2>5. Part(f, s \ {y}) = b * n
    BY <2>1, <2>3, <2>4
  <2>6. Part(f, s) = b + b * n
    BY <1>1, <2>2, <2>3, <2>5, PartStep
  <2>7. b * (n + 1) = b + b * n
    <3>. HIDE DEF n
    <3>. QED
      BY <2>4
  <2>8. Part(f, s) # b * Cardinality(s)
    BY <2>1
  <2>. QED
    BY <2>4, <2>6, <2>7, <2>8
<1>3. Part(f, D) = b * Cardinality(D)
  BY <1>2
<1>. QED
  BY <1>3, SumIsPart


(* Sums with the same terms. *)
LEMMA SumAgree ==
  ASSUME NEW f, NEW g, IsFiniteSet(DOMAIN f), DOMAIN g = DOMAIN f,
         \A x \in DOMAIN f : f[x] = g[x]
  PROVE  SumFunction(f) = SumFunction(g)
<1>1. Part(f, DOMAIN f) = Part(g, DOMAIN f)
  BY PartAgree
<1>. QED
  BY <1>1, SumIsPart

LEMMA SumZero ==
  ASSUME NEW f, IsFiniteSet(DOMAIN f), \A x \in DOMAIN f : f[x] = 0
  PROVE  SumFunction(f) = 0
<1>1. SumFunction(f) = 0 * Cardinality(DOMAIN f)
  BY SumConstant
<1>2. Cardinality(DOMAIN f) \in Nat
  BY FS_CardinalityType
<1>. QED
  BY <1>1, <1>2

(* A sum of one term. *)
LEMMA SumSingle ==
  ASSUME NEW f, IsFiniteSet(DOMAIN f), NEW x \in DOMAIN f, f[x] \in Int,
         \A y \in DOMAIN f : y # x => f[y] = 0
  PROVE  SumFunction(f) = f[x]
<1>. DEFINE g == Without(f, x)
<1>1. DOMAIN g = DOMAIN f \ {x} /\ \A y \in DOMAIN g : g[y] = 0
  BY DEF Without
<1>2. IsFiniteSet(DOMAIN f \ {x})
  BY FS_Subset
<1>3. SumFunction(f) = f[x] + SumFunction(g)
  <2>1. \A y \in DOMAIN f : f[y] \in Int
    OBVIOUS
  <2>. QED
    BY <2>1, SumWithout
<1>. HIDE DEF g
<1>4. SumFunction(g) = 0
  BY <1>1, <1>2, SumZero
<1>. QED
  BY <1>3, <1>4

(* Sums add up term by term. *)
LEMMA SumAdd ==
  ASSUME NEW f, NEW g, NEW h, NEW D, IsFiniteSet(D),
         DOMAIN f = D, DOMAIN g = D, DOMAIN h = D,
         \A x \in D : f[x] \in Int /\ g[x] \in Int /\ h[x] = f[x] + g[x]
  PROVE  SumFunction(h) = SumFunction(f) + SumFunction(g)
<1>. DEFINE B == {s \in SUBSET D : Part(h, s) # Part(f, s) + Part(g, s)}
<1>1. B = {}
  <2>. SUFFICES ASSUME B # {}
                PROVE  FALSE
    OBVIOUS
  <2>1. PICK s \in B : \A t \in SUBSET D : Cardinality(t) < Cardinality(s) => t \notin B
    <3>. HIDE DEF B
    <3>1. B \in SUBSET (SUBSET D)
      BY DEF B
    <3>. QED
      BY <3>1, SmallestSet
  <2>. DEFINE y == Chosen(s)
              r == s \ {y}
  <2>2. s # {}
    <3>1. Part(f, {}) = 0 /\ Part(g, {}) = 0 /\ Part(h, {}) = 0
      BY PartStep
    <3>2. Part(h, s) # Part(f, s) + Part(g, s)
      BY <2>1
    <3>3. Part(h, {}) = Part(f, {}) + Part(g, {})
      BY <3>1
    <3>. QED
      BY <3>2, <3>3
  <2>3. y \in s /\ IsFiniteSet(s)
    BY <2>2, ChosenIn, FS_Subset
  <2>4. Part(h, r) = Part(f, r) + Part(g, r)
    <3>1. r \in SUBSET D /\ Cardinality(r) < Cardinality(s)
      BY <2>3, Smaller
    <3>. QED
      BY <2>1, <3>1
  <2>5. /\ Part(f, s) = f[y] + Part(f, r) /\ Part(g, s) = g[y] + Part(g, r)
        /\ Part(h, s) = h[y] + Part(h, r)
    BY <2>2, PartStep
  <2>6. Part(f, r) \in Int /\ Part(g, r) \in Int
    <3>1. r \in SUBSET D
      OBVIOUS
    <3>. HIDE DEF r
    <3>. QED
      BY <3>1, PartType
  <2>7. f[y] \in Int /\ g[y] \in Int /\ h[y] = f[y] + g[y]
    BY <2>3
  <2>8. \A a, b, c, d \in Int : (a + b) + (c + d) = (a + c) + (b + d)
    OBVIOUS
  <2>9. Part(h, s) = Part(f, s) + Part(g, s)
    <3>. HIDE DEF y, r
    <3>. QED
      BY <2>4, <2>5, <2>6, <2>7, <2>8
  <2>. QED
    BY <2>1, <2>9
<1>2. Part(h, D) = Part(f, D) + Part(g, D)
  BY <1>1
<1>. QED
  BY <1>2, SumIsPart

-----------------------------------------------------------------------------
(* Sums of rows and sums of columns                                        *)

Row(m, Y, x)    == [y \in Y |-> m[<<x, y>>]]
Column(m, X, y) == [x \in X |-> m[<<x, y>>]]
Rows(m, X, Y)    == [x \in X |-> SumFunction(Row(m, Y, x))]
Columns(m, X, Y) == [y \in Y |-> SumFunction(Column(m, X, y))]

(* The columns, up to the rows of s. *)
Partial(m, X, Y, s) == [y \in Y |-> Part(Column(m, X, y), s)]

LEMMA SumExchange ==
  ASSUME NEW X, NEW Y, IsFiniteSet(X), IsFiniteSet(Y), NEW m,
         \A x \in X, y \in Y : m[<<x, y>>] \in Int
  PROVE  SumFunction(Rows(m, X, Y)) = SumFunction(Columns(m, X, Y))
<1>. DEFINE R == Rows(m, X, Y)
            C(y) == Column(m, X, y)
            P(s) == Partial(m, X, Y, s)
            B == {s \in SUBSET X : Part(R, s) # SumFunction(P(s))}
<1>1. \A y \in Y : DOMAIN C(y) = X /\ \A x \in X : C(y)[x] = m[<<x, y>>] /\ C(y)[x] \in Int
  BY DEF Column
<1>2. \A x \in X : /\ DOMAIN Row(m, Y, x) = Y
                   /\ \A y \in Y : Row(m, Y, x)[y] = m[<<x, y>>] /\ Row(m, Y, x)[y] \in Int
  BY DEF Row
<1>3. /\ DOMAIN R = X /\ \A x \in X : R[x] = SumFunction(Row(m, Y, x))
      /\ \A s : DOMAIN P(s) = Y /\ \A y \in Y : P(s)[y] = Part(C(y), s)
  BY DEF Rows, Partial
<1>. HIDE DEF C, R, P
<1>4. ASSUME NEW s \in SUBSET X, NEW y \in Y
      PROVE  Part(C(y), s) \in Int
  <2>. DEFINE c == C(y)
  <2>1. DOMAIN c = X /\ \A x \in X : c[x] \in Int
    BY <1>1
  <2>. HIDE DEF c
  <2>2. Part(c, s) \in Int
    BY <2>1, PartType
  <2>. QED
    BY <2>2 DEF c
<1>5. B = {}
  <2>. SUFFICES ASSUME B # {}
                PROVE  FALSE
    OBVIOUS
  <2>1. PICK s \in B : \A t \in SUBSET X : Cardinality(t) < Cardinality(s) => t \notin B
    <3>. HIDE DEF B
    <3>1. B \in SUBSET (SUBSET X)
      BY DEF B
    <3>. QED
      BY <3>1, SmallestSet
  <2>2. s # {}
    <3>1. Part(R, {}) = 0
      BY <1>3, PartStep
    <3>2. \A y \in Y : P({})[y] = 0
      <4>. SUFFICES ASSUME NEW y \in Y
                    PROVE  Part(C(y), {}) = 0
        BY <1>3
      <4>. DEFINE c == C(y)
      <4>1. DOMAIN c = X
        BY <1>1
      <4>. HIDE DEF c
      <4>2. Part(c, {}) = 0
        BY <4>1, PartStep
      <4>. QED
        BY <4>2 DEF c
    <3>3. SumFunction(P({})) = 0
      BY <1>3, <3>2, SumZero
    <3>4. Part(R, s) # SumFunction(P(s))
      BY <2>1
    <3>. QED
      BY <3>1, <3>3, <3>4
  <2>. DEFINE x == Chosen(s)
              r == s \ {x}
  <2>3. x \in s /\ x \in X /\ IsFiniteSet(s) /\ r \in SUBSET X
    BY <2>2, ChosenIn, FS_Subset
  <2>4. Part(R, r) = SumFunction(P(r))
    <3>1. Cardinality(r) < Cardinality(s)
      BY <2>3, Smaller
    <3>. QED
      BY <2>1, <2>3, <3>1
  <2>5. Part(R, s) = R[x] + Part(R, r)
    BY <1>3, <2>2, PartStep
  <2>6. ASSUME NEW y \in Y
        PROVE  P(s)[y] = Row(m, Y, x)[y] + P(r)[y]
    <3>. DEFINE c == C(y)
    <3>1. DOMAIN c = X /\ c[x] = m[<<x, y>>]
      BY <1>1, <2>3
    <3>. HIDE DEF c
    <3>2. Part(c, s) = c[x] + Part(c, r)
      BY <2>2, <3>1, PartStep
    <3>3. Part(C(y), s) = c[x] + Part(C(y), r)
      BY <3>2 DEF c
    <3>. QED
      BY <1>2, <1>3, <2>3, <3>1, <3>3
  <2>. HIDE DEF x, r, B
  <2>7. \A y \in Y : Row(m, Y, x)[y] \in Int /\ P(r)[y] \in Int
    <3>1. \A y \in Y : Row(m, Y, x)[y] \in Int
      BY <1>2, <2>3
    <3>2. \A y \in Y : P(r)[y] = Part(C(y), r)
      BY <1>3
    <3>3. \A y \in Y : Part(C(y), r) \in Int
      BY <1>4, <2>3
    <3>. QED
      BY <3>1, <3>2, <3>3
  <2>8. SumFunction(P(s)) = SumFunction(Row(m, Y, x)) + SumFunction(P(r))
    <3>. DEFINE f == Row(m, Y, x)
                g == P(r)
                h == P(s)
    <3>1. /\ DOMAIN f = Y /\ DOMAIN g = Y /\ DOMAIN h = Y
          /\ \A y \in Y : f[y] \in Int /\ g[y] \in Int /\ h[y] = f[y] + g[y]
      BY <1>2, <1>3, <2>3, <2>6, <2>7
    <3>. HIDE DEF f, g, h
    <3>2. SumFunction(h) = SumFunction(f) + SumFunction(g)
      BY <3>1, SumAdd
    <3>. QED
      BY <3>2 DEF f, g, h
  <2>9. Part(R, s) # SumFunction(P(s))
    BY <2>1 DEF B
  <2>. QED
    BY <1>3, <2>3, <2>4, <2>5, <2>8, <2>9
<1>6. Part(R, X) = SumFunction(P(X))
  BY <1>5
<1>7. \A y \in Y : Columns(m, X, Y)[y] = P(X)[y]
  <2>. SUFFICES ASSUME NEW y \in Y
                PROVE  SumFunction(C(y)) = Part(C(y), X)
    BY <1>3 DEF Columns, C
  <2>. QED
    BY <1>1, SumIsPart
<1>8. SumFunction(Columns(m, X, Y)) = SumFunction(P(X))
  <2>. DEFINE f == Columns(m, X, Y)
              g == P(X)
  <2>1. DOMAIN f = Y
    BY DEF Columns
  <2>2. DOMAIN g = Y /\ \A y \in Y : f[y] = g[y]
    BY <1>3, <1>7
  <2>. HIDE DEF f, g
  <2>3. SumFunction(f) = SumFunction(g)
    BY <2>1, <2>2, SumAgree
  <2>. QED
    BY <2>3 DEF f, g
<1>9. SumFunction(R) = Part(R, X)
  BY <1>3, SumIsPart
<1>. QED
  BY <1>6, <1>8, <1>9 DEF R

(* Terms under other names: those of f are those of g, but for zeros.      *)
LEMMA SumImage ==
  ASSUME NEW f, NEW g, NEW h, IsFiniteSet(DOMAIN f), IsFiniteSet(DOMAIN g),
         \A x \in DOMAIN f : f[x] \in Int /\ h[x] \in DOMAIN g /\ g[h[x]] = f[x],
         \A x, y \in DOMAIN f : h[x] = h[y] => x = y,
         \A z \in DOMAIN g : g[z] = 0 \/ \E x \in DOMAIN f : h[x] = z
  PROVE  SumFunction(f) = SumFunction(g)
<1>. DEFINE X == DOMAIN f
            Y == DOMAIN g
            m == [p \in X \X Y |-> IF h[p[1]] = p[2] THEN f[p[1]] ELSE 0]
<1>1. \A x \in X, y \in Y : m[<<x, y>>] = (IF h[x] = y THEN f[x] ELSE 0) /\ m[<<x, y>>] \in Int
  OBVIOUS
<1>. HIDE DEF m
<1>2. ASSUME NEW x \in X
      PROVE  SumFunction(Row(m, Y, x)) = f[x]
  <2>. DEFINE r == Row(m, Y, x)
  <2>1. DOMAIN r = Y /\ \A y \in Y : r[y] = IF h[x] = y THEN f[x] ELSE 0
    BY <1>1 DEF Row
  <2>. HIDE DEF r
  <2>2. SumFunction(r) = r[h[x]]
    BY <2>1, SumSingle
  <2>. QED
    BY <2>1, <2>2 DEF r
<1>3. ASSUME NEW y \in Y
      PROVE  SumFunction(Column(m, X, y)) = g[y]
  <2>. DEFINE c == Column(m, X, y)
  <2>1. DOMAIN c = X /\ \A x \in X : c[x] = IF h[x] = y THEN f[x] ELSE 0
    BY <1>1 DEF Column
  <2>. HIDE DEF c
  <2>2. CASE \E x \in X : h[x] = y
    <3>1. PICK x \in X : h[x] = y
      BY <2>2
    <3>2. \A z \in X : z # x => c[z] = 0
      BY <2>1, <3>1
    <3>3. SumFunction(c) = c[x]
      BY <2>1, <3>1, <3>2, SumSingle
    <3>. QED
      BY <2>1, <3>1, <3>3 DEF c
  <2>3. CASE ~ \E x \in X : h[x] = y
    <3>1. SumFunction(c) = 0
      BY <2>1, <2>3, SumZero
    <3>. QED
      BY <2>3, <3>1 DEF c
  <2>. QED
    BY <2>2, <2>3
<1>4. SumFunction(Rows(m, X, Y)) = SumFunction(Columns(m, X, Y))
  BY <1>1, SumExchange
<1>5. SumFunction(f) = SumFunction(Rows(m, X, Y))
  <2>. DEFINE r == Rows(m, X, Y)
  <2>1. DOMAIN r = X /\ \A x \in X : f[x] = r[x]
    BY <1>2 DEF Rows
  <2>. HIDE DEF r
  <2>2. SumFunction(f) = SumFunction(r)
    BY <2>1, SumAgree
  <2>. QED
    BY <2>2 DEF r
<1>6. SumFunction(g) = SumFunction(Columns(m, X, Y))
  <2>. DEFINE r == Columns(m, X, Y)
  <2>1. DOMAIN r = Y /\ \A y \in Y : g[y] = r[y]
    BY <1>3 DEF Columns
  <2>. HIDE DEF r
  <2>2. SumFunction(g) = SumFunction(r)
    BY <2>1, SumAgree
  <2>. QED
    BY <2>2 DEF r
<1>. QED
  BY <1>4, <1>5, <1>6


(* One term changed. *)
LEMMA SumChanged ==
  ASSUME NEW f, NEW g, IsFiniteSet(DOMAIN f), DOMAIN g = DOMAIN f, NEW x \in DOMAIN f,
         \A y \in DOMAIN f : f[y] \in Int /\ g[y] \in Int /\ (y # x => g[y] = f[y])
  PROVE  SumFunction(g) = SumFunction(f) + (g[x] - f[x])
<1>. DEFINE h == [y \in DOMAIN f |-> IF y = x THEN g[x] - f[x] ELSE 0]
<1>1. /\ DOMAIN h = DOMAIN f /\ h[x] = g[x] - f[x] /\ h[x] \in Int
      /\ \A y \in DOMAIN f : h[y] \in Int /\ (y # x => h[y] = 0)
  OBVIOUS
<1>. HIDE DEF h
<1>2. SumFunction(h) = h[x]
  BY <1>1, SumSingle
<1>3. \A y \in DOMAIN f : g[y] = f[y] + h[y]
  BY <1>1
<1>4. SumFunction(g) = SumFunction(f) + SumFunction(h)
  BY <1>1, <1>3, SumAdd
<1>. QED
  BY <1>1, <1>2, <1>4

(* What is left of a total, given to one. *)
LEMMA SumRemainder ==
  ASSUME NEW f, IsFiniteSet(DOMAIN f), \A u \in DOMAIN f : f[u] \in Int,
         NEW r \in DOMAIN f, NEW total \in Int
  PROVE  LET g == [f EXCEPT ![r] = @ + total - SumFunction(f)]
         IN  /\ DOMAIN g = DOMAIN f /\ \A u \in DOMAIN g : g[u] \in Int
             /\ SumFunction(g) = total
<1>. DEFINE s == SumFunction(f)
            g == [f EXCEPT ![r] = f[r] + total - s]
<1>1. s \in Int
  BY SumType
<1>. HIDE DEF s
<1>2. /\ DOMAIN g = DOMAIN f /\ g[r] = f[r] + total - s
      /\ \A u \in DOMAIN f : u # r => g[u] = f[u]
  OBVIOUS
<1>. HIDE DEF g
<1>3. f[r] \in Int /\ g[r] \in Int
  BY <1>1, <1>2
<1>4. \A u \in DOMAIN f : f[u] \in Int /\ g[u] \in Int /\ (u # r => g[u] = f[u])
  BY <1>2, <1>3
<1>5. SumFunction(g) = SumFunction(f) + (g[r] - f[r])
  BY <1>2, <1>4, SumChanged
<1>6. \A a, b, c \in Int : a + ((c + b - a) - c) = b
  OBVIOUS
<1>7. SumFunction(g) = total
  BY <1>1, <1>2, <1>3, <1>5, <1>6 DEF s
<1>. QED
  BY <1>2, <1>4, <1>7 DEF g, s

(* A term of one counts. *)
LEMMA SumOnes ==
  ASSUME NEW n \in Nat, NEW k \in 0..n
  PROVE  SumFunction([i \in 1..n |-> IF i =< k THEN 1 ELSE 0]) = k
<1>. DEFINE f == [i \in 1..k |-> 1]
            g == [i \in 1..n |-> IF i =< k THEN 1 ELSE 0]
            h == [i \in 1..k |-> i]
<1>1. /\ DOMAIN f = 1..k /\ DOMAIN g = 1..n
      /\ \A i \in 1..k : f[i] = 1 /\ h[i] = i /\ i \in 1..n /\ g[i] = 1
      /\ \A i \in 1..n : g[i] = 0 \/ i \in 1..k
  OBVIOUS
<1>2. IsFiniteSet(1..k) /\ IsFiniteSet(1..n) /\ Cardinality(1..k) = k
  BY FS_Interval
<1>. HIDE DEF f, g, h
<1>3. SumFunction(f) = SumFunction(g)
  <2>1. \A x \in DOMAIN f : f[x] \in Int /\ h[x] \in DOMAIN g /\ g[h[x]] = f[x]
    BY <1>1
  <2>2. \A x, y \in DOMAIN f : h[x] = h[y] => x = y
    BY <1>1
  <2>3. \A z \in DOMAIN g : g[z] = 0 \/ \E x \in DOMAIN f : h[x] = z
    BY <1>1
  <2>4. IsFiniteSet(DOMAIN f) /\ IsFiniteSet(DOMAIN g)
    BY <1>1, <1>2
  <2>. QED
    BY <2>1, <2>2, <2>3, <2>4, SumImage
<1>4. SumFunction(f) = 1 * k
  BY <1>1, <1>2, SumConstant
<1>. QED
  BY <1>3, <1>4 DEF g
=============================================================================
