------------------------- MODULE HuffmanTableProofs -------------------------
(***************************************************************************)
(* Theorems about HuffmanTable: init_huff's tests cannot fail, it takes    *)
(* exactly the complete codes, writes no slot twice, and the lookup in     *)
(* what it built finds the codes of RFC 1951.                              *)
(*                                                                         *)
(* Every invariant is a layer on top of the one before: Inv (the loops     *)
(* and the code lengths), Verdict (what the statuses say of them), Fresh   *)
(* (which slots are unused) and Built (which slots hold what).             *)
(***************************************************************************)
EXTENDS HuffmanTable, FiniteSetTheorems, TLAPS

-----------------------------------------------------------------------------
(* A nonempty set of natural numbers has a least element: the initial      *)
(* segments 0..n are well founded by strict inclusion.  This stands for    *)
(* induction: the least counterexample of a claim is refuted.              *)
LEMMA LeastElement ==
  ASSUME NEW T, T \subseteq Nat, T # {}
  PROVE  \E x \in T : \A y \in T : x <= y
<1> DEFINE U == {0..n : n \in T}
<1>1. U \subseteq FiniteSubsetsOf(Nat)
  <2>1. \A n \in T : IsFiniteSet(0..n) /\ 0..n \subseteq Nat
    BY FS_Interval
  <2> QED BY <2>1 DEF FiniteSubsetsOf
<1>2. U # {}
  OBVIOUS
<1>3. IsWellFoundedOn(StrictSubsetOrdering(Nat), FiniteSubsetsOf(Nat))
  BY FS_StrictSubsetOrderingWellFounded
<1>4. PICK I \in U : \A J \in U : ~(<<J, I>> \in StrictSubsetOrdering(Nat))
  <2> HIDE DEF U
  <2> QED BY <1>1, <1>2, <1>3, WFMin
<1>5. PICK x \in T : I = 0..x
  OBVIOUS
<1>6. ASSUME NEW y \in T, y < x PROVE FALSE
  <2>1. 0..y \in SUBSET Nat /\ 0..x \in SUBSET Nat /\ 0..y \subseteq 0..x
    BY <1>6
  <2>2. x \in 0..x /\ ~(x \in 0..y)
    BY <1>6
  <2>3. <<0..y, 0..x>> \in StrictSubsetOrdering(Nat)
    BY <2>1, <2>2 DEF StrictSubsetOrdering
  <2>4. 0..y \in U
    OBVIOUS
  <2> QED BY <1>4, <1>5, <2>3, <2>4
<1> QED BY <1>6

(* A nonempty set of naturals with an upper bound has a greatest element.  *)
LEMMA GreatestElement ==
  ASSUME NEW n \in Nat, NEW T, T \subseteq 0..n, T # {}
  PROVE  \E x \in T : \A y \in T : y <= x
<1> DEFINE U == {n - t : t \in T}
<1>1. U \subseteq Nat /\ U # {}
  <2>1. \A t \in T : n - t \in Nat
    OBVIOUS
  <2>2. U \subseteq Nat
    BY <2>1
  <2>3. PICK t \in T : TRUE
    OBVIOUS
  <2>4. n - t \in U
    OBVIOUS
  <2> QED BY <2>2, <2>4
<1>2. PICK u \in U : \A v \in U : u <= v
  <2> HIDE DEF U
  <2> QED BY <1>1, LeastElement
<1>3. PICK x \in T : u = n - x
  OBVIOUS
<1>4. ASSUME NEW y \in T PROVE y <= x
  <2>1. n - y \in U /\ x \in Nat /\ y \in Nat
    OBVIOUS
  <2>2. n - x <= n - y
    BY <1>2, <1>3, <2>1
  <2> QED BY <2>1, <2>2
<1> QED BY <1>4

(* Induction along an interval, the claim given as the set T of numbers    *)
(* for which it holds.                                                     *)
LEMMA IntervalInduction ==
  ASSUME NEW a \in Int, NEW b \in Int, NEW T, a \in T,
         \A n \in a..b - 1 : n \in T => n + 1 \in T
  PROVE  a..b \subseteq T
<1> DEFINE U == {k \in Nat : a + k \in a..b /\ ~(a + k \in T)}
<1>1. ASSUME U # {} PROVE FALSE
  <2>1. PICK k \in U : \A y \in U : k <= y
    <3>1. U \subseteq Nat
      OBVIOUS
    <3> HIDE DEF U
    <3> QED BY <1>1, <3>1, LeastElement
  <2>2. k \in Nat /\ a + k \in a..b /\ ~(a + k \in T)
    OBVIOUS
  <2>3. k # 0
    <3>1. ASSUME k = 0 PROVE a + k = a
      BY <3>1
    <3> QED BY <2>2, <3>1
  <2>4. k - 1 \in Nat /\ a + (k - 1) \in a..b - 1 /\ a + (k - 1) \in a..b
    BY <2>2, <2>3
  <2>5. ~(k - 1 \in U)
    BY <2>1, <2>2, <2>4
  <2>6. a + (k - 1) \in T
    BY <2>4, <2>5
  <2>7. (a + (k - 1)) + 1 \in T
    BY <2>4, <2>6
  <2>8. (a + (k - 1)) + 1 = a + k
    BY <2>2
  <2> QED BY <2>2, <2>7, <2>8
<1>2. ASSUME NEW n \in a..b PROVE n \in T
  <2>1. n - a \in Nat /\ a + (n - a) = n
    OBVIOUS
  <2>2. ~(n - a \in U)
    BY <1>1
  <2> QED BY <2>1, <2>2
<1> QED BY <1>2

(* Induction over the subsets of a finite set, likewise.                   *)
LEMMA SubsetInduction ==
  ASSUME NEW A, IsFiniteSet(A), NEW F, {} \in F,
         \A s \in SUBSET A : \A x \in A : s \in F /\ x \notin s => s \cup {x} \in F
  PROVE  A \in F
<1> DEFINE U == {s \in SUBSET A : A \ s \in F}
<1>1. U \subseteq FiniteSubsetsOf(A) /\ A \in U
  <2>1. \A s \in SUBSET A : IsFiniteSet(s)
    BY FS_Subset
  <2>2. A \ A = {}
    OBVIOUS
  <2> QED BY <2>1, <2>2 DEF FiniteSubsetsOf
<1>2. IsWellFoundedOn(StrictSubsetOrdering(A), FiniteSubsetsOf(A))
  BY FS_StrictSubsetOrderingWellFounded
<1>3. PICK s \in U : \A t \in U : ~(<<t, s>> \in StrictSubsetOrdering(A))
  <2>1. U # {}
    BY <1>1
  <2> HIDE DEF U
  <2> QED BY <1>1, <2>1, <1>2, WFMin
<1>4. s = {}
  <2> SUFFICES ASSUME s # {} PROVE FALSE
    OBVIOUS
  <2>1. PICK x \in s : TRUE
    OBVIOUS
  <2>2. x \in A /\ A \ s \in SUBSET A /\ A \ s \in F /\ x \notin A \ s
    OBVIOUS
  <2>3. (A \ s) \cup {x} \in F
    BY <2>2
  <2>4. (A \ s) \cup {x} = A \ (s \ {x})
    OBVIOUS
  <2>5. s \ {x} \in U
    BY <2>3, <2>4
  <2>6. <<s \ {x}, s>> \in StrictSubsetOrdering(A)
    BY <2>1 DEF StrictSubsetOrdering
  <2> QED BY <1>3, <2>5, <2>6
<1>5. A \ s = A
  BY <1>4
<1> QED BY <1>5

-----------------------------------------------------------------------------
(* Sums over finite sets, as the recursion of SumFunctionOnSet defines     *)
(* them: the element chosen from a set, and the rest of the set.           *)
Chosen(s) == CHOOSE x \in s : TRUE
SumOf(g, f, s) == IF s = {} THEN 0 ELSE f[Chosen(s)] + g[s \ {Chosen(s)}]
IsSum(g, f, A) == g = [s \in SUBSET A |-> SumOf(g, f, s)]

LEMMA SumDefinition ==
  ASSUME NEW f, NEW A
  PROVE  SumFunctionOnSet(f, A) = (CHOOSE g : IsSum(g, f, A))[A]
BY DEF SumFunctionOnSet, FoldFunctionOnSet, MapThenFoldSet, IsSum, SumOf, Chosen

LEMMA ChosenIn == \A s : s # {} => Chosen(s) \in s
BY DEF Chosen

(* The chosen element taken away, a set has one element less.              *)
LEMMA WithoutChosen ==
  ASSUME NEW s, IsFiniteSet(s), s # {}
  PROVE  /\ IsFiniteSet(s \ {Chosen(s)})
         /\ Cardinality(s) \in Nat
         /\ Cardinality(s \ {Chosen(s)}) \in Nat
         /\ Cardinality(s \ {Chosen(s)}) < Cardinality(s)
         /\ Cardinality(s \ {Chosen(s)}) = Cardinality(s) - 1
<1> DEFINE x == Chosen(s)
<1>1. x \in s BY ChosenIn
<1> HIDE DEF x
<1>2. IsFiniteSet(s \ {x}) /\ Cardinality(s \ {x}) = IF x \in s THEN Cardinality(s) - 1 ELSE Cardinality(s)
  BY FS_RemoveElement
<1>3. Cardinality(s) \in Nat /\ Cardinality(s \ {x}) \in Nat
  BY <1>2, FS_CardinalityType
<1>4. /\ IsFiniteSet(s \ {x})
      /\ Cardinality(s) \in Nat
      /\ Cardinality(s \ {x}) \in Nat
      /\ Cardinality(s \ {x}) < Cardinality(s)
      /\ Cardinality(s \ {x}) = Cardinality(s) - 1
  BY <1>1, <1>2, <1>3
<1> QED BY <1>4 DEF x

(* The recursion has a solution on the sets of at most n elements.         *)
Small(A, n) == {s \in SUBSET A : Cardinality(s) <= n}
SmallSum(f, A, n) == \E g : g = [s \in Small(A, n) |-> SumOf(g, f, s)]

LEMMA SmallSumExists ==
  ASSUME NEW f, NEW A, IsFiniteSet(A), NEW n \in Nat
  PROVE  SmallSum(f, A, n)
<1>f. \A s \in SUBSET A : IsFiniteSet(s) /\ Cardinality(s) \in Nat
  BY FS_Subset, FS_CardinalityType
<1>1. SmallSum(f, A, 0)
  <2> DEFINE g == [s \in Small(A, 0) |-> 0]
  <2>1. \A s \in Small(A, 0) : s = {}
    BY <1>f, FS_EmptySet DEF Small
  <2>2. g = [s \in Small(A, 0) |-> SumOf(g, f, s)]
    BY <2>1 DEF SumOf
  <2> HIDE DEF g
  <2> QED BY <2>2 DEF SmallSum
<1>2. ASSUME NEW m \in Nat, SmallSum(f, A, m) PROVE SmallSum(f, A, m + 1)
  <2>1. PICK g : g = [s \in Small(A, m) |-> SumOf(g, f, s)]
    BY <1>2 DEF SmallSum
  <2> DEFINE h == [s \in Small(A, m + 1) |-> SumOf(g, f, s)]
  <2>2. \A s \in Small(A, m) : s \in Small(A, m + 1) /\ h[s] = g[s]
    BY <1>f, <2>1 DEF Small
  <2>3. ASSUME NEW s \in Small(A, m + 1) PROVE SumOf(h, f, s) = SumOf(g, f, s)
    <3>1. CASE s = {} BY <3>1 DEF SumOf
    <3>2. CASE s # {}
      <4>1. s \in SUBSET A /\ Cardinality(s) <= m + 1 /\ IsFiniteSet(s)
        BY <1>f DEF Small
      <4>2. s \ {Chosen(s)} \in SUBSET A /\ Cardinality(s \ {Chosen(s)}) <= m
        BY <3>2, <4>1, WithoutChosen
      <4>3. h[s \ {Chosen(s)}] = g[s \ {Chosen(s)}]
        BY <2>2, <4>2 DEF Small
      <4> QED BY <3>2, <4>3 DEF SumOf
    <3> QED BY <3>1, <3>2
  <2>4. h = [s \in Small(A, m + 1) |-> SumOf(h, f, s)]
    BY <2>3
  <2> HIDE DEF h
  <2> QED BY <2>4 DEF SmallSum
<1> DEFINE T == {k \in Nat : SmallSum(f, A, k)}
<1>3. 0 \in T /\ \A m \in 0..n - 1 : m \in T => m + 1 \in T
  BY <1>1, <1>2
<1>4. 0..n \subseteq T
  <2> HIDE DEF T
  <2> QED BY <1>3, IntervalInduction
<1> QED BY <1>4

LEMMA SumExists ==
  ASSUME NEW f, NEW A, IsFiniteSet(A)
  PROVE  \E g : IsSum(g, f, A)
<1>1. Cardinality(A) \in Nat BY FS_CardinalityType
<1>2. \A s \in SUBSET A : Cardinality(s) <= Cardinality(A) BY FS_Subset
<1>3. Small(A, Cardinality(A)) = SUBSET A BY <1>2 DEF Small
<1>4. SmallSum(f, A, Cardinality(A)) BY <1>1, SmallSumExists
<1> QED BY <1>3, <1>4 DEF SmallSum, IsSum

(* Two solutions agree where both are defined.                             *)
LEMMA SumUnique ==
  ASSUME NEW f, NEW A, NEW B, IsFiniteSet(B), A \subseteq B,
         NEW g, IsSum(g, f, A), NEW h, IsSum(h, f, B)
  PROVE  \A s \in SUBSET A : g[s] = h[s]
<1>f. \A s \in SUBSET A : s \in SUBSET B /\ IsFiniteSet(s) /\ Cardinality(s) \in Nat
  BY FS_Subset, FS_CardinalityType
<1> DEFINE T == {Cardinality(s) : s \in {t \in SUBSET A : g[t] # h[t]}}
<1>1. ASSUME T # {} PROVE FALSE
  <2>1. T \subseteq Nat BY <1>f
  <2>2. PICK k \in T : \A y \in T : k <= y
    <3> HIDE DEF T
    <3> QED BY <1>1, <2>1, LeastElement
  <2>3. PICK s \in SUBSET A : g[s] # h[s] /\ k = Cardinality(s)
    BY <2>2
  <2>4. g[s] = SumOf(g, f, s) /\ h[s] = SumOf(h, f, s)
    BY <1>f DEF IsSum
  <2>5. s # {} BY <2>3, <2>4 DEF SumOf
  <2> DEFINE r == s \ {Chosen(s)}
  <2>6. r \in SUBSET A /\ Cardinality(r) \in Nat /\ Cardinality(r) < k
    BY <1>f, <2>3, <2>5, WithoutChosen
  <2>7. ~(Cardinality(r) \in T) BY <2>2, <2>6, <2>1
  <2>8. g[r] = h[r] BY <2>6, <2>7
  <2> QED BY <2>3, <2>4, <2>8, <2>5 DEF SumOf
<1> QED BY <1>1

(* The sum over the empty set is 0; the sum over another one is the value  *)
(* of the chosen element and the sum over the rest.                        *)
LEMMA SumStep ==
  ASSUME NEW f, NEW A, IsFiniteSet(A)
  PROVE  /\ A = {} => SumFunctionOnSet(f, A) = 0
         /\ A # {} => SumFunctionOnSet(f, A)
                        = f[Chosen(A)] + SumFunctionOnSet(f, A \ {Chosen(A)})
<1> DEFINE g == CHOOSE g : IsSum(g, f, A)
           B == A \ {Chosen(A)}
           h == CHOOSE h : IsSum(h, f, B)
<1>1. IsSum(g, f, A) BY SumExists
<1>2. IsFiniteSet(B) /\ B \subseteq A BY FS_Subset
<1>3. IsSum(h, f, B) BY <1>2, SumExists
<1>4. SumFunctionOnSet(f, A) = g[A] BY SumDefinition
<1>5. SumFunctionOnSet(f, B) = h[B] BY SumDefinition
<1> HIDE DEF g, h
<1>6. g[A] = SumOf(g, f, A) BY <1>1 DEF IsSum
<1>7. h[B] = g[B] BY <1>1, <1>2, <1>3, SumUnique
<1> QED BY <1>4, <1>5, <1>6, <1>7 DEF SumOf

(* A sum of naturals is a natural, and any element can be taken out first. *)
LEMMA SumRemoveAll ==
  ASSUME NEW D, NEW f \in [D -> Nat], NEW A, IsFiniteSet(A), A \subseteq D
  PROVE  /\ SumFunctionOnSet(f, A) \in Nat
         /\ \A x \in A : SumFunctionOnSet(f, A) = f[x] + SumFunctionOnSet(f, A \ {x})
<1> DEFINE Sum(s) == SumFunctionOnSet(f, s)
           Ok(s) == Sum(s) \in Nat /\ \A x \in s : Sum(s) = f[x] + Sum(s \ {x})
           T == {n \in Nat : \A s \in SUBSET A : Cardinality(s) <= n => Ok(s)}
<1>f. \A s \in SUBSET A : IsFiniteSet(s) /\ Cardinality(s) \in Nat
  BY FS_Subset, FS_CardinalityType
<1>0. 0 \in T
  <2>1. \A s \in SUBSET A : Cardinality(s) <= 0 => s = {}
    BY <1>f, FS_EmptySet
  <2>2. Sum({}) = 0
    BY SumStep, FS_EmptySet
  <2>3. Ok({})
    BY <2>2
  <2> HIDE DEF Ok
  <2> QED BY <2>1, <2>3
<1>1. ASSUME NEW n \in Nat, n \in T PROVE n + 1 \in T
  <2>0. \A s \in SUBSET A : Cardinality(s) <= n => Ok(s)
    BY <1>1
  <2>1. ASSUME NEW s \in SUBSET A, Cardinality(s) <= n + 1, s # {} PROVE Ok(s)
    <3> DEFINE c == Chosen(s)
    <3>1. c \in s /\ c \in D
      BY <2>1, ChosenIn
    <3>2. Sum(s) = f[c] + Sum(s \ {c})
      BY <1>f, <2>1, SumStep
    <3> HIDE DEF c
    <3>3. ASSUME NEW x \in s PROVE Ok(s \ {x}) /\ s \ {x} \in SUBSET A
      <4>1. Cardinality(s \ {x}) = Cardinality(s) - 1
        BY <1>f, FS_RemoveElement
      <4>2. Cardinality(s \ {x}) <= n /\ s \ {x} \in SUBSET A
        BY <1>f, <2>1, <4>1
      <4> HIDE DEF Ok
      <4> QED BY <2>0, <4>2
    <3>4. Sum(s) \in Nat
      <4>1. Sum(s \ {c}) \in Nat
        BY <3>1, <3>3
      <4>2. f[c] \in Nat
        BY <3>1
      <4> HIDE DEF Sum
      <4> QED BY <3>2, <4>1, <4>2
    <3>5. ASSUME NEW x \in s, x # c PROVE Sum(s) = f[x] + Sum(s \ {x})
      <4>1. Sum(s \ {c}) = f[x] + Sum((s \ {c}) \ {x})
        BY <3>1, <3>3, <3>5
      <4>2. Sum(s \ {x}) = f[c] + Sum((s \ {x}) \ {c})
        BY <3>1, <3>3, <3>5
      <4>3. (s \ {c}) \ {x} = (s \ {x}) \ {c}
        OBVIOUS
      <4>4. (s \ {x}) \ {c} \in SUBSET A /\ Sum((s \ {x}) \ {c}) \in Nat
        <5>1. (s \ {x}) \ {c} \in SUBSET A /\ s \ {x} \in SUBSET A
          OBVIOUS
        <5>2. Cardinality(s \ {x}) = Cardinality(s) - 1
          BY <1>f, FS_RemoveElement
        <5>3. Cardinality((s \ {x}) \ {c}) <= Cardinality(s \ {x})
          BY <1>f, <5>1, FS_Subset
        <5>4. Cardinality((s \ {x}) \ {c}) <= n
          BY <1>f, <2>1, <5>1, <5>2, <5>3
        <5>5. Ok((s \ {x}) \ {c})
          <6> HIDE DEF Ok
          <6> QED BY <2>0, <5>1, <5>4
        <5> QED BY <5>1, <5>5
      <4>5. f[c] \in Nat /\ f[x] \in Nat
        BY <3>1
      <4>6. Sum((s \ {c}) \ {x}) = Sum((s \ {x}) \ {c})
        BY <4>3
      <4> HIDE DEF Sum
      <4> QED BY <3>2, <4>1, <4>2, <4>4, <4>5, <4>6
    <3> QED BY <3>2, <3>4, <3>5
  <2>2. Ok({})
    <3>1. Sum({}) = 0
      BY SumStep, FS_EmptySet
    <3> QED BY <3>1
  <2> HIDE DEF Ok
  <2> QED BY <2>1, <2>2
<1>2. A \in SUBSET A /\ Cardinality(A) \in Nat
  BY <1>f
<1>3. Cardinality(A) \in T
  <2>1. \A n \in 0..Cardinality(A) - 1 : n \in T => n + 1 \in T
    BY <1>1
  <2> HIDE DEF T
  <2>2. 0..Cardinality(A) \subseteq T
    BY <1>0, <1>2, <2>1, IntervalInduction
  <2> QED BY <1>2, <2>2
<1>4. Ok(A)
  <2> HIDE DEF Ok
  <2> QED BY <1>2, <1>3
<1> QED BY <1>4

LEMMA SumEmpty == \A f : SumFunctionOnSet(f, {}) = 0
BY SumStep, FS_EmptySet

LEMMA SumType ==
  ASSUME NEW D, NEW f \in [D -> Nat], NEW A, IsFiniteSet(A), A \subseteq D
  PROVE  SumFunctionOnSet(f, A) \in Nat
BY SumRemoveAll

LEMMA SumRemove ==
  ASSUME NEW D, NEW f \in [D -> Nat], NEW A, IsFiniteSet(A), A \subseteq D, NEW x \in A
  PROVE  SumFunctionOnSet(f, A) = f[x] + SumFunctionOnSet(f, A \ {x})
BY SumRemoveAll

(* An element more adds its value.                                         *)
LEMMA SumAdd ==
  ASSUME NEW D, NEW f \in [D -> Nat], NEW A, IsFiniteSet(A), A \subseteq D,
         NEW x \in D, x \notin A
  PROVE  SumFunctionOnSet(f, A \cup {x}) = SumFunctionOnSet(f, A) + f[x]
<1>1. IsFiniteSet(A \cup {x}) /\ A \cup {x} \subseteq D /\ x \in A \cup {x}
  BY FS_AddElement
<1>2. (A \cup {x}) \ {x} = A
  OBVIOUS
<1>3. SumFunctionOnSet(f, A \cup {x}) = f[x] + SumFunctionOnSet(f, (A \cup {x}) \ {x})
  BY <1>1, SumRemove
<1>4. SumFunctionOnSet(f, A) \in Nat /\ f[x] \in Nat
  BY SumType
<1>5. SumFunctionOnSet(f, (A \cup {x}) \ {x}) = SumFunctionOnSet(f, A)
  BY <1>2
<1> QED BY <1>3, <1>4, <1>5

-----------------------------------------------------------------------------
(* Powers of two, from PowerAssumption.                                    *)
LEMMA Sizes ==
  /\ Primary \in Nat /\ MaxLen \in Nat /\ NCodes \in Nat /\ TableSize \in Nat
  /\ 0 < Primary /\ Primary <= MaxLen /\ MaxLen <= 2 * Primary
  /\ 2^Primary <= TableSize
  /\ MaxCodes0 \in 0..NCodes
BY HuffmanTableAssumption

LEMMA PowType ==
  ASSUME NEW n \in 0..MaxLen + 1
  PROVE  2^n \in Nat /\ 1 <= 2^n
<1> DEFINE T == {k \in Nat : 2^k \in Nat /\ 1 <= 2^k}
<1>1. 0 \in T
  <2>1. 2^0 = 1
    OBVIOUS
  <2> QED BY <2>1
<1>2. ASSUME NEW k \in 0..(MaxLen + 1) - 1, k \in T PROVE k + 1 \in T
  <2>1. k \in 0..MaxLen /\ 2^k \in Nat /\ 1 <= 2^k
    BY <1>2, Sizes
  <2>2. 2^(k + 1) = 2 * 2^k
    BY <2>1, PowerAssumption
  <2> QED BY <2>1, <2>2
<1>3. 0..MaxLen + 1 \subseteq T
  <2> HIDE DEF T
  <2>1. 0 \in Int /\ MaxLen + 1 \in Int
    BY Sizes
  <2> QED BY <1>1, <1>2, <2>1, IntervalInduction
<1> QED BY <1>3

LEMMA PowDouble ==
  ASSUME NEW n \in 0..MaxLen
  PROVE  2^(n + 1) = 2 * 2^n
BY PowerAssumption

(* 2 * (x * y) = x * (2 * y).                                              *)
LEMMA DoubleProduct ==
  ASSUME NEW x \in Int, NEW y \in Int
  PROVE  2 * (x * y) = x * (2 * y)
OBVIOUS

LEMMA PowAdd ==
  ASSUME NEW a \in Nat, NEW b \in Nat, a + b <= MaxLen + 1
  PROVE  2^(a + b) = 2^a * 2^b
<1> DEFINE T == {k \in Nat : 2^(a + k) = 2^a * 2^k}
<1>a. a \in 0..MaxLen + 1 /\ 2^a \in Nat
  BY PowType, Sizes
<1>1. 0 \in T
  <2>1. 2^0 = 1 /\ a + 0 = a
    OBVIOUS
  <2>2. 2^(a + 0) = 2^a
    BY <2>1
  <2>3. 2^a * 2^0 = 2^a
    BY <1>a, <2>1
  <2> QED BY <2>2, <2>3
<1>2. ASSUME NEW k \in 0..b - 1, k \in T PROVE k + 1 \in T
  <2>1. k \in 0..MaxLen /\ a + k \in 0..MaxLen /\ 2^k \in Nat
    BY PowType, Sizes
  <2>2. 2^(k + 1) = 2 * 2^k
    BY <2>1, PowDouble
  <2>3. 2^((a + k) + 1) = 2 * 2^(a + k)
    BY <2>1, PowDouble
  <2>4. 2^(a + k) = 2^a * 2^k
    BY <1>2
  <2>5. 2 * (2^a * 2^k) = 2^a * (2 * 2^k)
    BY <1>a, <2>1, DoubleProduct
  <2>6. (a + k) + 1 = a + (k + 1)
    BY <2>1
  <2>7. 2^(a + (k + 1)) = 2 * (2^a * 2^k)
    BY <2>3, <2>4, <2>6
  <2>8. 2^(a + (k + 1)) = 2^a * 2^(k + 1)
    BY <2>2, <2>5, <2>7
  <2> QED BY <2>8
<1>3. 0..b \subseteq T
  <2> HIDE DEF T
  <2> QED BY <1>1, <1>2, IntervalInduction
<1> QED BY <1>3

(* x <= x * y for a positive y.                                            *)
LEMMA ProductGrows ==
  ASSUME NEW x \in Nat, NEW y \in Nat, 1 <= y
  PROVE  x * y \in Nat /\ x <= x * y
OBVIOUS

LEMMA PowMono ==
  ASSUME NEW a \in Nat, NEW b \in 0..MaxLen + 1, a <= b
  PROVE  2^a <= 2^b
<1>1. a \in 0..MaxLen + 1 /\ b - a \in 0..MaxLen + 1 /\ a + (b - a) = b
  BY Sizes
<1>2. 2^a \in Nat /\ 2^(b - a) \in Nat /\ 1 <= 2^(b - a)
  BY <1>1, PowType
<1>3. 2^b = 2^a * 2^(b - a)
  <2>1. 2^(a + (b - a)) = 2^a * 2^(b - a)
    BY <1>1, PowAdd
  <2> QED BY <1>1, <2>1
<1> QED BY <1>2, <1>3, ProductGrows

(* The two factors of a power.                                             *)
LEMMA PowSplit ==
  ASSUME NEW a \in Nat, NEW b \in 0..MaxLen + 1, a <= b
  PROVE  /\ 2^b = 2^a * 2^(b - a)
         /\ 2^a \in Nat /\ 1 <= 2^a /\ 2^b \in Nat /\ 1 <= 2^b
         /\ 2^(b - a) \in Nat /\ 1 <= 2^(b - a)
<1>1. a \in 0..MaxLen + 1 /\ b - a \in 0..MaxLen + 1 /\ a + (b - a) = b
  BY Sizes
<1>2. 2^(a + (b - a)) = 2^a * 2^(b - a)
  BY <1>1, PowAdd
<1>3. 2^b = 2^a * 2^(b - a)
  BY <1>1, <1>2
<1> QED BY <1>1, <1>3, PowType

LEMMA PowStrict ==
  ASSUME NEW a \in Nat, NEW b \in 0..MaxLen + 1, a < b
  PROVE  2 * 2^a <= 2^b
<1>1. a \in 0..MaxLen /\ a + 1 \in Nat /\ a + 1 <= b
  BY Sizes
<1> QED BY <1>1, PowDouble, PowMono

-----------------------------------------------------------------------------
(* How many codes there are of each length, and of at most each length.    *)
SetupOK == /\ code_lengths \in [0..NCodes - 1 -> Lengths]
           /\ n_codes0 \in 0..MaxCodes0

CodesOf(l) == {k \in Codes0 : code_lengths[k] = l}
CountOf(l) == Cardinality(CodesOf(l))
CodesUpTo(l) == {k \in Codes0 : code_lengths[k] \in 1..l}
Total(l) == Cardinality(CodesUpTo(l))

LEMMA CodesFinite ==
  ASSUME SetupOK
  PROVE  /\ n_codes0 \in Nat /\ n_codes0 <= NCodes
         /\ Codes0 \subseteq 0..NCodes - 1
         /\ IsFiniteSet(Codes0) /\ Cardinality(Codes0) = NCodes - n_codes0
<1>1. n_codes0 \in Nat /\ n_codes0 <= NCodes
  BY Sizes DEF SetupOK
<1>2. IsFiniteSet(n_codes0..NCodes - 1)
      /\ Cardinality(n_codes0..NCodes - 1) = IF n_codes0 > NCodes - 1 THEN 0 ELSE (NCodes - 1) - n_codes0 + 1
  <2>1. n_codes0 \in Int /\ NCodes - 1 \in Int
    BY <1>1, Sizes
  <2> QED BY <2>1, FS_Interval
<1>3. n_codes0..NCodes - 1 \subseteq 0..NCodes - 1
  BY <1>1, Sizes
<1>4. Cardinality(n_codes0..NCodes - 1) = NCodes - n_codes0
  BY <1>1, <1>2, Sizes
<1> QED BY <1>1, <1>2, <1>3, <1>4 DEF Codes0

LEMMA CountType ==
  ASSUME SetupOK, NEW l
  PROVE  /\ IsFiniteSet(CodesOf(l)) /\ IsFiniteSet(CodesUpTo(l))
         /\ CountOf(l) \in Nat /\ Total(l) \in Nat
         /\ Total(l) <= NCodes - n_codes0
<1>1. CodesOf(l) \in SUBSET Codes0 /\ CodesUpTo(l) \in SUBSET Codes0
  BY DEF CodesOf, CodesUpTo
<1>2. IsFiniteSet(CodesOf(l)) /\ IsFiniteSet(CodesUpTo(l))
      /\ Cardinality(CodesUpTo(l)) <= Cardinality(Codes0)
  BY <1>1, CodesFinite, FS_Subset
<1>3. Cardinality(CodesOf(l)) \in Nat /\ Cardinality(CodesUpTo(l)) \in Nat
  BY <1>2, FS_CardinalityType
<1> QED BY <1>2, <1>3, CodesFinite DEF CountOf, Total

LEMMA TotalZero == SetupOK => Total(0) = 0
<1>1. CodesUpTo(0) = {}
  BY DEF CodesUpTo
<1> QED BY <1>1, FS_EmptySet DEF Total

LEMMA TotalStep ==
  ASSUME SetupOK, NEW l \in Nat, 1 <= l
  PROVE  Total(l) = Total(l - 1) + CountOf(l)
<1> DEFINE A == CodesUpTo(l - 1)
           B == CodesOf(l)
<1>1. CodesUpTo(l) = A \cup B /\ A \cap B = {}
  <2>1. \A k \in Codes0 : code_lengths[k] \in Int
    BY CodesFinite, Sizes DEF SetupOK, Lengths
  <2>2. \A x \in Int : x \in 1..l <=> x \in 1..l - 1 \/ x = l
    OBVIOUS
  <2>3. \A x \in 1..l - 1 : x # l
    OBVIOUS
  <2> QED BY <2>1, <2>2, <2>3 DEF CodesUpTo, CodesOf
<1>2. IsFiniteSet(A) /\ IsFiniteSet(B) /\ Cardinality(A) \in Nat /\ Cardinality(B) \in Nat
  BY CountType DEF Total, CountOf
<1> HIDE DEF A, B
<1>3. Cardinality(A \cup B) = Cardinality(A) + Cardinality(B) - Cardinality(A \cap B)
  BY <1>2, FS_Union
<1>4. Cardinality(A \cap B) = 0
  BY <1>1, FS_EmptySet
<1>5. Cardinality(CodesUpTo(l)) = Cardinality(A) + Cardinality(B)
  BY <1>1, <1>2, <1>3, <1>4
<1> QED BY <1>5 DEF A, B, Total, CountOf

LEMMA TotalMono ==
  ASSUME SetupOK, NEW a \in Nat, NEW b \in Nat, a <= b
  PROVE  Total(a) <= Total(b)
<1>1. CodesUpTo(a) \in SUBSET CodesUpTo(b)
  BY DEF CodesUpTo
<1> QED BY <1>1, CountType, FS_Subset DEF Total

(* Where the total does not grow there is no code.                         *)
LEMMA TotalFlat ==
  ASSUME SetupOK, NEW a \in Nat, NEW b \in Nat, Total(a) = Total(b), NEW l \in a + 1..b
  PROVE  CountOf(l) = 0
<1>1. Total(l) = Total(l - 1) + CountOf(l)
  BY TotalStep
<1>2. Total(a) <= Total(l - 1) /\ Total(l) <= Total(b)
  BY TotalMono
<1> QED BY <1>1, <1>2, CountType

(* Where there is no code the total does not grow.                         *)
LEMMA TotalNone ==
  ASSUME SetupOK, NEW a \in Nat, NEW b \in Nat, a <= b, \A l \in a + 1..b : CountOf(l) = 0
  PROVE  Total(b) = Total(a)
<1> DEFINE T == {k \in Nat : Total(k) = Total(a)}
<1>1. ASSUME NEW k \in a..b - 1, k \in T PROVE k + 1 \in T
  <2>1. Total(k + 1) = Total((k + 1) - 1) + CountOf(k + 1)
    BY TotalStep
  <2>2. (k + 1) - 1 = k /\ CountOf(k + 1) = 0
    OBVIOUS
  <2>3. Total(k) = Total(a) /\ Total(k) \in Nat
    BY <1>1, CountType
  <2>4. Total((k + 1) - 1) = Total(k)
    BY <2>2
  <2>5. Total(k + 1) = Total(a)
    BY <2>1, <2>2, <2>3, <2>4
  <2> QED BY <2>5
<1>2. a \in T
  OBVIOUS
<1>3. a..b \subseteq T
  <2> HIDE DEF T
  <2> QED BY <1>1, <1>2, IntervalInduction
<1> QED BY <1>3

(* The sum over a prefix of the lengths, one longer.                       *)
LEMMA SumPrefix ==
  ASSUME NEW f \in [Lengths -> Nat], NEW k \in Lengths, 1 <= k
  PROVE  SumFunctionOnSet(f, 1..(k + 1) - 1) = SumFunctionOnSet(f, 1..k - 1) + f[k]
<1> DEFINE S == 1..k - 1
<1>1. k \in Nat
  BY Sizes DEF Lengths
<1>2. IsFiniteSet(S)
  BY <1>1, FS_Interval
<1>3. S \subseteq Lengths /\ k \notin S
  BY <1>1, Sizes DEF Lengths
<1>4. S \cup {k} = 1..(k + 1) - 1
  BY <1>1
<1> HIDE DEF S
<1>5. SumFunctionOnSet(f, S \cup {k}) = SumFunctionOnSet(f, S) + f[k]
  BY <1>2, <1>3, SumAdd
<1> QED BY <1>4, <1>5 DEF S

(* The sums of the loop over offsets are these totals.                     *)
LEMMA CountBelowTotal ==
  ASSUME SetupOK, counts = [l \in Lengths |-> CountOf(l)], NEW l \in 1..MaxLen + 1
  PROVE  CountBelow(l) = Total(l - 1)
<1> DEFINE T == {k \in Nat : CountBelow(k) = Total(k - 1)}
<1>f. counts \in [Lengths -> Nat]
  BY CountType
<1>1. 1 \in T
  <2>1. 1..1 - 1 = {} /\ 1 - 1 = 0
    OBVIOUS
  <2>2. CountBelow(1) = 0
    BY <2>1, SumEmpty DEF CountBelow
  <2>3. Total(1 - 1) = 0
    BY <2>1, TotalZero
  <2> QED BY <2>2, <2>3
<1>2. ASSUME NEW k \in 1..(MaxLen + 1) - 1, k \in T PROVE k + 1 \in T
  <2>1. k \in Lengths /\ k \in Nat /\ 1 <= k
    BY Sizes DEF Lengths
  <2>3. SumFunctionOnSet(counts, 1..(k + 1) - 1) = SumFunctionOnSet(counts, 1..k - 1) + counts[k]
    BY <1>f, <2>1, SumPrefix
  <2>5. CountBelow(k + 1) = CountBelow(k) + CountOf(k)
    BY <2>1, <2>3 DEF CountBelow
  <2>6. CountBelow(k) = Total(k - 1)
    BY <1>2
  <2>7. Total(k) = Total(k - 1) + CountOf(k)
    BY <2>1, TotalStep
  <2>8. (k + 1) - 1 = k
    BY <2>1
  <2>9. Total((k + 1) - 1) = Total(k)
    BY <2>8
  <2>10. CountBelow(k + 1) = Total((k + 1) - 1)
    BY <2>5, <2>6, <2>7, <2>9
  <2> QED BY <2>1, <2>10
<1>3. 1..MaxLen + 1 \subseteq T
  <2> HIDE DEF T
  <2>1. 1 \in Int /\ MaxLen + 1 \in Int
    BY Sizes
  <2> QED BY <1>1, <1>2, <2>1, IntervalInduction
<1> QED BY <1>3

-----------------------------------------------------------------------------
(* What remains: the recursions of the two loops over remaining codes have *)
(* solutions.                                                              *)
Doubles(g, a, b, base, d) ==
  /\ g \in [a..b -> Int] /\ g[a] = base
  /\ \A j \in a + 1..b : g[j] = 2 * g[j - 1] + d[j]

LEMMA Doubling ==
  ASSUME NEW a \in Int, NEW b \in Int, a <= b, NEW base \in Int, NEW d \in [a..b -> Int]
  PROVE  \E g : Doubles(g, a, b, base, d)
<1> DEFINE Ok(n, g) == /\ g \in [a..b -> Int] /\ g[a] = base
                       /\ \A j \in a + 1..n : g[j] = 2 * g[j - 1] + d[j]
           T == {n \in Int : \E g : Ok(n, g)}
<1>1. a \in T
  <2> DEFINE g == [j \in a..b |-> base]
  <2>1. Ok(a, g)
    OBVIOUS
  <2> HIDE DEF Ok, g
  <2> QED BY <2>1
<1>2. ASSUME NEW n \in a..b - 1, n \in T PROVE n + 1 \in T
  <2>1. PICK g : Ok(n, g)
    BY <1>2
  <2> DEFINE h == [g EXCEPT ![n + 1] = 2 * g[n] + d[n + 1]]
  <2>2. h \in [a..b -> Int]
    BY <2>1, SMTT(30)
  <2>3. h[a] = base
    BY <2>1
  <2>4. ASSUME NEW j \in a + 1..n + 1 PROVE h[j] = 2 * h[j - 1] + d[j]
    <3>1. CASE j = n + 1
      <4>1. j - 1 = n /\ n # n + 1
        BY <3>1
      <4>2. h[j - 1] = g[n]
        BY <2>1, <4>1
      <4>3. h[j] = 2 * g[n] + d[j]
        BY <2>1, <3>1
      <4> QED BY <4>2, <4>3
    <3>2. CASE j # n + 1
      <4>1. j \in a + 1..n /\ j \in a..b /\ j - 1 \in a..b /\ j - 1 # n + 1
        BY <3>2
      <4>2. h[j] = g[j] /\ h[j - 1] = g[j - 1]
        BY <2>1, <3>2, <4>1
      <4>3. g[j] = 2 * g[j - 1] + d[j]
        BY <2>1, <4>1
      <4> QED BY <4>2, <4>3
    <3> QED BY <3>1, <3>2
  <2>5. Ok(n + 1, h)
    BY <2>2, <2>3, <2>4
  <2> HIDE DEF Ok, h
  <2> QED BY <2>5
<1>3. a..b \subseteq T
  <2> HIDE DEF T
  <2> QED BY <1>1, <1>2, IntervalInduction
<1>4. PICK g : Ok(b, g)
  <2> HIDE DEF Ok
  <2> QED BY <1>3
<1> QED BY <1>4 DEF Doubles

RemainingOf(r, c) == r = [l \in Lengths |-> IF l = 0 THEN 1 ELSE 2 * r[l - 1] - c[l]]

LEMMA RemainingExists ==
  ASSUME NEW c \in [Lengths -> Int]
  PROVE  \E r \in [Lengths -> Int] : RemainingOf(r, c)
<1> DEFINE d == [l \in 0..MaxLen |-> 0 - c[l]]
<1>1. d \in [0..MaxLen -> Int] /\ 0 \in Int /\ MaxLen \in Int /\ 0 <= MaxLen /\ 1 \in Int
  BY Sizes DEF Lengths
<1>2. PICK g : Doubles(g, 0, MaxLen, 1, d)
  <2> HIDE DEF d
  <2> QED BY <1>1, Doubling
<1>2a. /\ g \in [0..MaxLen -> Int] /\ g[0] = 1
       /\ \A j \in 0 + 1..MaxLen : g[j] = 2 * g[j - 1] + d[j]
  BY <1>2 DEF Doubles
<1>3. ASSUME NEW l \in 0..MaxLen, l # 0 PROVE g[l] = 2 * g[l - 1] - c[l]
  <2>1. l \in 0 + 1..MaxLen /\ l - 1 \in 0..MaxLen
    BY <1>3, Sizes
  <2>2. g[l] = 2 * g[l - 1] + (0 - c[l])
    BY <1>2a, <2>1
  <2>3. c[l] \in Int /\ g[l - 1] \in Int
    BY <1>2a, <2>1 DEF Lengths
  <2> QED BY <2>2, <2>3
<1>4. g = [l \in 0..MaxLen |-> IF l = 0 THEN 1 ELSE 2 * g[l - 1] - c[l]]
  BY <1>2a, <1>3
<1> QED BY <1>2a, <1>4 DEF Lengths, RemainingOf

LEMMA RemainingStep ==
  ASSUME counts \in [Lengths -> Int]
  PROVE  /\ Remaining \in [Lengths -> Int]
         /\ Remaining[0] = 1
         /\ \A l \in 1..MaxLen : Remaining[l] = 2 * Remaining[l - 1] - counts[l]
<1>1. Remaining = CHOOSE r : RemainingOf(r, counts)
  BY DEF Remaining, RemainingOf
<1>2. PICK s \in [Lengths -> Int] : RemainingOf(s, counts)
  BY RemainingExists
<1> DEFINE r == Remaining
<1>3. RemainingOf(r, counts)
  BY <1>1, <1>2
<1> HIDE DEF r
<1>4. /\ 0 \in Lengths /\ 1..MaxLen \subseteq Lengths
      /\ \A l \in 1..MaxLen : l - 1 \in Lengths /\ l # 0
  BY Sizes DEF Lengths
<1>5. r[0] = 1 /\ \A l \in 1..MaxLen : r[l] = 2 * r[l - 1] - counts[l]
  BY <1>3, <1>4 DEF RemainingOf
<1>6. DOMAIN r = Lengths /\ r = [l \in Lengths |-> r[l]]
  BY <1>3 DEF RemainingOf
<1> DEFINE T == {l \in Lengths : r[l] \in Int}
<1>7. 0 \in T
  BY <1>4, <1>5
<1>8. ASSUME NEW l \in 0..MaxLen - 1, l \in T PROVE l + 1 \in T
  <2>1. l + 1 \in 1..MaxLen /\ (l + 1) - 1 = l /\ l + 1 \in Lengths
    BY <1>4, Sizes
  <2>2. r[l + 1] = 2 * r[l] - counts[l + 1]
    BY <1>5, <2>1
  <2>3. r[l] \in Int /\ counts[l + 1] \in Int
    BY <1>8, <2>1
  <2> QED BY <2>1, <2>2, <2>3
<1>9. 0..MaxLen \subseteq T
  <2> HIDE DEF T
  <2>1. 0 \in Int /\ MaxLen \in Int
    BY Sizes
  <2> QED BY <1>7, <1>8, <2>1, IntervalInduction
<1>10. r \in [Lengths -> Int]
  BY <1>6, <1>9 DEF Lengths
<1> QED BY <1>5, <1>10 DEF r

(* The same for the second level tables.                                   *)
LeftOf(r, l, c) ==
  r = [j \in l..MaxLen + 1 |-> IF j = l THEN 2^(l - Primary) ELSE 2 * (r[j - 1] - c[j - 1])]

LEMMA LeftExists ==
  ASSUME NEW c \in [Lengths -> Int], NEW l \in Primary + 1..MaxLen
  PROVE  \E r : LeftOf(r, l, c)
<1> DEFINE d == [j \in l..MaxLen + 1 |-> IF j = l THEN 0 ELSE 0 - 2 * c[j - 1]]
           base == 2^(l - Primary)
<1>0. l \in Int /\ MaxLen + 1 \in Int /\ l <= MaxLen + 1
  BY Sizes
<1>1. base \in Int
  <2>1. l - Primary \in 0..MaxLen + 1
    BY Sizes
  <2> QED BY <2>1, PowType
<1>2. \A j \in l..MaxLen + 1 : j # l => j - 1 \in l..MaxLen + 1 /\ c[j - 1] \in Int
  BY Sizes DEF Lengths
<1>3. d \in [l..MaxLen + 1 -> Int]
  BY <1>2
<1>4a. PICK g : Doubles(g, l, MaxLen + 1, base, d)
  <2> HIDE DEF d, base
  <2> QED BY <1>0, <1>1, <1>3, Doubling
<1>4. /\ g \in [l..MaxLen + 1 -> Int] /\ g[l] = base
      /\ \A j \in l + 1..MaxLen + 1 : g[j] = 2 * g[j - 1] + d[j]
  BY <1>4a DEF Doubles
<1>5. ASSUME NEW j \in l..MaxLen + 1, j # l PROVE g[j] = 2 * (g[j - 1] - c[j - 1])
  <2>1. j \in l + 1..MaxLen + 1
    BY <1>5, Sizes
  <2>2. d[j] = 0 - 2 * c[j - 1]
    BY <1>5
  <2>3. g[j] = 2 * g[j - 1] + (0 - 2 * c[j - 1])
    BY <1>4, <2>1, <2>2
  <2>4. c[j - 1] \in Int /\ g[j - 1] \in Int
    BY <1>2, <1>4, <1>5
  <2> QED BY <2>3, <2>4
<1>6. g = [j \in l..MaxLen + 1 |-> IF j = l THEN base ELSE 2 * (g[j - 1] - c[j - 1])]
  BY <1>4, <1>5
<1> QED BY <1>6 DEF LeftOf

LEMMA LeftStep ==
  ASSUME counts \in [Lengths -> Int], NEW l \in Primary + 1..MaxLen
  PROVE  /\ Left(l)[l] = 2^(l - Primary)
         /\ \A j \in l + 1..MaxLen + 1 : Left(l)[j] = 2 * (Left(l)[j - 1] - counts[j - 1])
<1>1. Left(l) = CHOOSE r : LeftOf(r, l, counts)
  BY DEF Left, LeftOf
<1>2. PICK s : LeftOf(s, l, counts)
  BY LeftExists
<1> DEFINE r == Left(l)
<1>3. LeftOf(r, l, counts)
  BY <1>1, <1>2
<1> HIDE DEF r
<1>4. /\ l \in l..MaxLen + 1
      /\ \A j \in l + 1..MaxLen + 1 : j # l /\ j \in l..MaxLen + 1
  BY Sizes
<1>5. r[l] = 2^(l - Primary) /\ \A j \in l + 1..MaxLen + 1 : r[j] = 2 * (r[j - 1] - counts[j - 1])
  BY <1>3, <1>4 DEF LeftOf
<1> QED BY <1>5 DEF r

-----------------------------------------------------------------------------
(* The numbers of unused codes of each length, for a complete code.        *)
Kraft(r) == /\ r \in [Lengths -> Nat] /\ r[0] = 1 /\ r[MaxLen] = 0
            /\ \A l \in 1..MaxLen : r[l] = 2 * r[l - 1] - CountOf(l)
Unused == CHOOSE r : Kraft(r)

LEMMA CoverKraft ==
  ASSUME SetupOK, counts = [l \in Lengths |-> CountOf(l)],
         \A l \in Lengths : ~(Remaining[l] < 0), Remaining[MaxLen] = 0
  PROVE  Kraft(Unused)
<1>1. counts \in [Lengths -> Int]
  BY CountType
<1> DEFINE r == Remaining
<1>2. /\ r \in [Lengths -> Int] /\ r[0] = 1
      /\ \A l \in 1..MaxLen : r[l] = 2 * r[l - 1] - counts[l]
  BY <1>1, RemainingStep
<1>3. /\ \A l \in Lengths : ~(r[l] < 0)
      /\ r[MaxLen] = 0
  OBVIOUS
<1> HIDE DEF r
<1>4. r \in [Lengths -> Nat]
  BY <1>2, <1>3
<1>5. \A l \in 1..MaxLen : counts[l] = CountOf(l)
  BY Sizes DEF Lengths
<1>6. Kraft(r)
  BY <1>2, <1>3, <1>4, <1>5 DEF Kraft
<1> QED BY <1>6 DEF Unused

LEMMA KraftType ==
  ASSUME NEW r, Kraft(r), NEW l \in Lengths
  PROVE  r[l] \in Nat
BY DEF Kraft

(* From one length to a longer one the unused codes double each time, if   *)
(* there is no code in between.                                            *)
LEMMA KraftFlat ==
  ASSUME NEW r, Kraft(r), NEW a \in Lengths, NEW b \in Lengths, a <= b,
         \A l \in a + 1..b : CountOf(l) = 0
  PROVE  r[b] = 2^(b - a) * r[a]
<1> DEFINE T == {k \in Nat : r[k] = 2^(k - a) * r[a]}
<1>0. a \in Nat /\ b \in Nat /\ b <= MaxLen /\ r[a] \in Nat
  BY KraftType, Sizes DEF Lengths
<1>1. a \in T
  <2>1. a - a = 0 /\ 2^0 = 1
    BY <1>0
  <2>2. 2^(a - a) = 1
    BY <2>1
  <2>3. 2^(a - a) * r[a] = r[a]
    BY <1>0, <2>2
  <2> QED BY <1>0, <2>3
<1>2. ASSUME NEW k \in a..b - 1, k \in T PROVE k + 1 \in T
  <2>1. k + 1 \in 1..MaxLen /\ (k + 1) - 1 = k /\ k + 1 \in a + 1..b /\ k - a \in 0..MaxLen
    BY <1>0, Sizes
  <2>2. r[k + 1] = 2 * r[k] - CountOf(k + 1)
    BY <2>1 DEF Kraft
  <2>3. CountOf(k + 1) = 0
    BY <2>1
  <2>4. r[k] = 2^(k - a) * r[a]
    BY <1>2
  <2>5. 2^((k - a) + 1) = 2 * 2^(k - a) /\ 2^(k - a) \in Nat
    <3>1. 2^((k - a) + 1) = 2 * 2^(k - a)
      BY <2>1, PowDouble
    <3>2. k - a \in 0..MaxLen + 1
      BY <2>1, Sizes
    <3>3. 2^(k - a) \in Nat
      BY <3>2, PowType
    <3> QED BY <3>1, <3>3
  <2>6. (k - a) + 1 = (k + 1) - a
    BY <1>0
  <2>7. 2 * (2^(k - a) * r[a]) = (2 * 2^(k - a)) * r[a]
    BY <1>0, <2>5
  <2>8. r[k + 1] = 2 * r[k]
    <3>1. r[k] \in Nat
      <4>1. k \in Lengths
        BY <1>0, Sizes DEF Lengths
      <4> QED BY <4>1, KraftType
    <3> QED BY <2>2, <2>3, <3>1
  <2>9. 2^((k + 1) - a) = 2 * 2^(k - a)
    BY <2>5, <2>6
  <2>10. r[k + 1] = 2^((k + 1) - a) * r[a]
    BY <2>4, <2>7, <2>8, <2>9
  <2> QED BY <2>1, <2>10
<1>3. a..b \subseteq T
  <2> HIDE DEF T
  <2> QED BY <1>0, <1>1, <1>2, IntervalInduction
<1> QED BY <1>0, <1>3

(* Each unused code is completed by at least one longer code.              *)
LEMMA KraftTotal ==
  ASSUME SetupOK, NEW r, Kraft(r), NEW a \in Lengths, NEW b \in Lengths, a <= b
  PROVE  r[a] + Total(a) <= r[b] + Total(b)
<1> DEFINE T == {k \in Nat : r[a] + Total(a) <= r[k] + Total(k)}
<1>0. a \in Nat /\ b \in Nat /\ b <= MaxLen /\ r[a] \in Nat /\ Total(a) \in Nat
  BY KraftType, CountType, Sizes DEF Lengths
<1>1. a \in T
  BY <1>0
<1>2. ASSUME NEW k \in a..b - 1, k \in T PROVE k + 1 \in T
  <2>1. k + 1 \in 1..MaxLen /\ (k + 1) - 1 = k /\ k \in Lengths /\ k + 1 \in Nat /\ 1 <= k + 1
    BY <1>0, Sizes DEF Lengths
  <2>2. r[k + 1] = 2 * r[k] - CountOf(k + 1)
    BY <2>1 DEF Kraft
  <2>3. Total(k + 1) = Total(k) + CountOf(k + 1)
    <3>1. Total(k + 1) = Total((k + 1) - 1) + CountOf(k + 1)
      BY <2>1, TotalStep
    <3>2. Total((k + 1) - 1) = Total(k)
      BY <2>1
    <3> QED BY <3>1, <3>2
  <2>4. r[k] \in Nat /\ Total(k) \in Nat /\ CountOf(k + 1) \in Nat
    BY <2>1, KraftType, CountType
  <2>5. r[a] + Total(a) <= r[k] + Total(k)
    BY <1>2
  <2>6. r[a] + Total(a) <= r[k + 1] + Total(k + 1)
    BY <1>0, <2>2, <2>3, <2>4, <2>5
  <2> QED BY <2>1, <2>6
<1>3. a..b \subseteq T
  <2> HIDE DEF T
  <2> QED BY <1>0, <1>1, <1>2, IntervalInduction
<1> QED BY <1>0, <1>3

(* A complete code has a code of at most Primary bits: there are too few   *)
(* symbols for the others.                                                 *)
LEMMA KraftShort ==
  ASSUME SetupOK, NEW r, Kraft(r)
  PROVE  \E l \in 1..Primary : CountOf(l) # 0
<1> SUFFICES ASSUME \A l \in 1..Primary : CountOf(l) = 0 PROVE FALSE
  OBVIOUS
<1>1. 0 \in Lengths /\ Primary \in Lengths /\ MaxLen \in Lengths
  BY Sizes DEF Lengths
<1>2. r[Primary] = 2^(Primary - 0) * r[0]
  <2>1. \A l \in 0 + 1..Primary : CountOf(l) = 0
    OBVIOUS
  <2> QED BY <1>1, <2>1, KraftFlat, Sizes
<1>3. r[0] = 1 /\ r[MaxLen] = 0 /\ Primary - 0 = Primary
  BY Sizes DEF Kraft
<1>4. 2^Primary \in Nat /\ 1 <= 2^Primary
  BY PowType, Sizes
<1>5. r[Primary] = 2^Primary
  BY <1>2, <1>3, <1>4
<1>6. Primary < MaxLen
  BY <1>3, <1>4, <1>5, Sizes
<1>7. Primary + 1 \in Lengths /\ Primary + 1 \in 1..MaxLen /\ (Primary + 1) - 1 = Primary
  BY <1>6, Sizes DEF Lengths
<1>8. r[Primary + 1] = 2 * 2^Primary - CountOf(Primary + 1)
  BY <1>5, <1>7 DEF Kraft
<1>9. r[Primary + 1] + Total(Primary + 1) <= r[MaxLen] + Total(MaxLen)
  BY <1>1, <1>6, <1>7, KraftTotal, Sizes
<1>10. Total(Primary + 1) = Total(Primary) + CountOf(Primary + 1)
  <2>1. Total(Primary + 1) = Total((Primary + 1) - 1) + CountOf(Primary + 1)
    BY <1>7, TotalStep, Sizes
  <2>2. Total((Primary + 1) - 1) = Total(Primary)
    BY <1>7
  <2> QED BY <2>1, <2>2
<1>11. /\ Total(MaxLen) \in Nat /\ Total(MaxLen) <= NCodes - n_codes0
       /\ Total(Primary) \in Nat /\ CountOf(Primary + 1) \in Nat
  BY CountType
<1>12. n_codes0 \in Nat
  BY CodesFinite
<1>13. NCodes < 2^(Primary + 1) /\ 2^(Primary + 1) = 2 * 2^Primary
  BY PowDouble, Sizes, HuffmanTableAssumption
<1> QED BY <1>3, <1>4, <1>8, <1>9, <1>10, <1>11, <1>12, <1>13, Sizes

-----------------------------------------------------------------------------
(* The order of the symbols: how many symbols of length l there are before *)
(* m, and the place of a symbol.                                           *)
SeenOf(l, m) == {k \in n_codes0..m - 1 : code_lengths[k] = l}
Seen(l, m) == Cardinality(SeenOf(l, m))
Rank(s) == Total(LengthOf(s) - 1) + Seen(LengthOf(s), n_codes0 + s)
Sorted(j) == /\ symbols[j] \in 0..(NCodes - 1) - n_codes0
             /\ LengthOf(symbols[j]) \in 1..MaxLen
             /\ Rank(symbols[j]) = j

(* The inductive invariant, loop by loop.                                  *)
Counted == counts = [l \in Lengths |-> CountOf(l)]

Sorting ==
  /\ n_symbols = Total(MaxLen)
  /\ i \in n_codes0..NCodes
  /\ symbols \in [0..NCodes - 1 -> Nat]
  /\ offsets \in [Lengths -> Nat]
  /\ \A l \in 1..MaxLen : offsets[l] = Total(l - 1) + Seen(l, i)
  /\ \A l \in 1..MaxLen : \A j \in Total(l - 1)..offsets[l] - 1 : Sorted(j)

AllSorted ==
  /\ n_symbols = Total(MaxLen)
  /\ symbols \in [0..NCodes - 1 -> Nat]
  /\ \A j \in 0..n_symbols - 1 : Sorted(j)

(* prev_cl, i and code agree with what is left of counts.                  *)
InOrder ==
  /\ counts \in [Lengths -> Nat]
  /\ prev_cl \in 1..MaxLen
  /\ counts[prev_cl] <= CountOf(prev_cl)
  /\ \A l \in prev_cl + 1..MaxLen : counts[l] = CountOf(l)
  /\ i = Total(prev_cl) - counts[prev_cl]
  /\ i < n_symbols
  /\ code = (2^prev_cl - Unused[prev_cl]) - counts[prev_cl]

(* The current table is the first level, or ends at next_top.              *)
Room ==
  /\ top \in Nat /\ next_top \in Nat /\ initial_high_bits \in Nat
  /\ next_top <= TableSize
  /\ top = 0 \/ top + initial_high_bits = next_top

Aligned(c, l) == \E q \in Nat : c = q * 2^(l - Primary)

(* A new second level table starts with its first code.                    *)
Keyed ==
  /\ pc = "code" /\ prev_cl > Primary =>
       \/ Aligned(code, prev_cl)
       \/ code >= 1 /\ prev_redirect_key = SecondLevel(code - 1, prev_cl)
  /\ pc = "redirect" => prev_cl > Primary /\ Aligned(code, prev_cl)
  /\ pc = "put" /\ prev_cl > Primary => prev_redirect_key = SecondLevel(code, prev_cl)

Inserting ==
  /\ AllSorted /\ InOrder /\ Room /\ Keyed
  /\ pc # "code" => LengthOf(symbols[i]) = prev_cl

(* None of the tests failed that the code leaves to its own consistency.   *)
Consistent == status \notin {"internal", "bad_minimum"}

Inv ==
  /\ SetupOK
  /\ Consistent
  /\ pc \in {"count", "cover", "offsets", "symbols", "code", "redirect", "put", "done", "error"}
  /\ pc = "count" => symbols \in [0..NCodes - 1 -> Nat]
  /\ pc = "cover" => Counted /\ symbols \in [0..NCodes - 1 -> Nat]
  /\ pc = "offsets" => Counted /\ Kraft(Unused) /\ symbols \in [0..NCodes - 1 -> Nat]
  /\ pc = "symbols" => Counted /\ Kraft(Unused) /\ Sorting
  /\ pc \in {"code", "redirect", "put"} => Kraft(Unused) /\ Inserting

-----------------------------------------------------------------------------
LEMMA SeenType ==
  ASSUME SetupOK, NEW l, NEW m \in n_codes0..NCodes
  PROVE  /\ IsFiniteSet(SeenOf(l, m)) /\ Seen(l, m) \in Nat
         /\ SeenOf(l, m) \subseteq CodesOf(l) /\ Seen(l, m) <= CountOf(l)
<1>1. SeenOf(l, m) \in SUBSET CodesOf(l)
  BY CodesFinite, Sizes DEF SeenOf, CodesOf, Codes0
<1>2. IsFiniteSet(CodesOf(l))
  BY CountType
<1>3. IsFiniteSet(SeenOf(l, m)) /\ Cardinality(SeenOf(l, m)) <= Cardinality(CodesOf(l))
  BY <1>1, <1>2, FS_Subset
<1>4. Cardinality(SeenOf(l, m)) \in Nat
  BY <1>3, FS_CardinalityType
<1> QED BY <1>1, <1>3, <1>4 DEF Seen, CountOf

LEMMA SeenNone ==
  ASSUME SetupOK, NEW l
  PROVE  Seen(l, n_codes0) = 0
<1>1. SeenOf(l, n_codes0) = {}
  BY CodesFinite DEF SeenOf
<1> QED BY <1>1, FS_EmptySet DEF Seen

LEMMA SeenAll ==
  ASSUME SetupOK, NEW l
  PROVE  Seen(l, NCodes) = CountOf(l)
BY DEF Seen, SeenOf, CountOf, CodesOf, Codes0

LEMMA SeenNext ==
  ASSUME SetupOK, NEW l, NEW m \in n_codes0..NCodes - 1
  PROVE  /\ code_lengths[m] = l => Seen(l, m + 1) = Seen(l, m) + 1 /\ Seen(l, m) < CountOf(l)
         /\ code_lengths[m] # l => Seen(l, m + 1) = Seen(l, m)
<1>0. m \in Nat /\ n_codes0 \in Nat /\ m \in n_codes0..NCodes /\ m + 1 \in n_codes0..NCodes
  BY CodesFinite, Sizes
<1>1. n_codes0..(m + 1) - 1 = (n_codes0..m - 1) \cup {m}
  BY <1>0
<1>2. ASSUME code_lengths[m] # l PROVE Seen(l, m + 1) = Seen(l, m)
  <2>1. SeenOf(l, m + 1) = SeenOf(l, m)
    BY <1>1, <1>2 DEF SeenOf
  <2> QED BY <2>1 DEF Seen
<1>3. ASSUME code_lengths[m] = l PROVE Seen(l, m + 1) = Seen(l, m) + 1 /\ Seen(l, m) < CountOf(l)
  <2>1. SeenOf(l, m + 1) = SeenOf(l, m) \cup {m}
    BY <1>1, <1>3 DEF SeenOf
  <2>2. m \notin SeenOf(l, m)
    BY <1>0 DEF SeenOf
  <2>3. IsFiniteSet(SeenOf(l, m)) /\ Seen(l, m) \in Nat /\ Seen(l, m + 1) <= CountOf(l)
        /\ CountOf(l) \in Nat
    BY <1>0, SeenType, CountType
  <2>4. Cardinality(SeenOf(l, m) \cup {m}) = Cardinality(SeenOf(l, m)) + 1
    BY <2>2, <2>3, FS_AddElement
  <2>5. Seen(l, m + 1) = Seen(l, m) + 1
    BY <2>1, <2>4 DEF Seen
  <2> QED BY <2>3, <2>5
<1> QED BY <1>2, <1>3

(* The place of a symbol is among those of its length.                     *)
LEMMA RankBounds ==
  ASSUME SetupOK, NEW s \in 0..(NCodes - 1) - n_codes0, LengthOf(s) \in 1..MaxLen
  PROVE  /\ Rank(s) \in Nat
         /\ Total(LengthOf(s) - 1) <= Rank(s) /\ Rank(s) < Total(LengthOf(s))
<1> DEFINE l == LengthOf(s)
           m == n_codes0 + s
<1>1. m \in n_codes0..NCodes - 1 /\ m \in n_codes0..NCodes /\ code_lengths[m] = l
  BY CodesFinite, Sizes DEF LengthOf
<1>2. l \in Nat /\ 1 <= l
  BY Sizes
<1>3. Rank(s) = Total(l - 1) + Seen(l, m)
  BY DEF Rank
<1> HIDE DEF l, m
<1>4. Seen(l, m) < CountOf(l)
  BY <1>1, SeenNext
<1>5. Seen(l, m) \in Nat
  BY <1>1, SeenType
<1>6. Total(l) = Total(l - 1) + CountOf(l)
  BY <1>2, TotalStep
<1>7. Total(l) \in Nat /\ Total(l - 1) \in Nat /\ CountOf(l) \in Nat
  BY CountType
<1>8. Rank(s) \in Nat /\ Total(l - 1) <= Rank(s) /\ Rank(s) < Total(l)
  BY <1>3, <1>4, <1>5, <1>6, <1>7
<1> QED BY <1>8 DEF l

(* Every place below the total is among those of some length.              *)
LEMMA PlaceLength ==
  ASSUME SetupOK, NEW j \in Nat, j < Total(MaxLen)
  PROVE  \E l \in 1..MaxLen : Total(l - 1) <= j /\ j < Total(l)
<1> DEFINE T == {l \in Nat : l <= MaxLen /\ j < Total(l)}
<1>1. T \subseteq Nat /\ MaxLen \in T
  BY Sizes
<1>2. PICK l \in T : \A k \in T : l <= k
  <2> HIDE DEF T
  <2> QED BY <1>1, LeastElement
<1>3. l # 0
  BY TotalZero
<1>4. l \in 1..MaxLen /\ l - 1 \in Nat /\ l - 1 < l
  BY <1>3, Sizes
<1>5. ~(l - 1 \in T)
  BY <1>2, <1>4
<1>6. ~(j < Total(l - 1))
  BY <1>4, <1>5, Sizes
<1>7. Total(l - 1) \in Nat
  BY CountType
<1> QED BY <1>4, <1>6, <1>7

-----------------------------------------------------------------------------
(* What depends on the code lengths only stays as it is.                   *)
LEMMA SetupSame ==
  ASSUME UNCHANGED setup
  PROVE  /\ SetupOK <=> SetupOK'
         /\ Codes0' = Codes0
         /\ \A l : CountOf(l)' = CountOf(l) /\ Total(l)' = Total(l)
         /\ \A l, m : Seen(l, m)' = Seen(l, m)
         /\ \A s : LengthOf(s)' = LengthOf(s) /\ Rank(s)' = Rank(s)
<1>1. code_lengths' = code_lengths /\ n_codes0' = n_codes0
  BY DEF setup
<1>2. Codes0' = Codes0 /\ (SetupOK <=> SetupOK')
  BY <1>1 DEF Codes0, SetupOK
<1>3. \A l : CountOf(l)' = CountOf(l) /\ Total(l)' = Total(l)
  BY <1>1, <1>2 DEF CountOf, Total, CodesOf, CodesUpTo
<1>4. \A l, m : Seen(l, m)' = Seen(l, m)
  BY <1>1 DEF Seen, SeenOf
<1>5. \A s : LengthOf(s)' = LengthOf(s)
  BY <1>1 DEF LengthOf
<1>6. \A s : Rank(s)' = Rank(s)
  BY <1>1, <1>3, <1>4, <1>5 DEF Rank
<1> QED BY <1>2, <1>3, <1>4, <1>5, <1>6

LEMMA UnusedSame ==
  ASSUME UNCHANGED setup
  PROVE  Unused' = Unused /\ (Kraft(Unused) <=> Kraft(Unused)')
<1>1. \A r : Kraft(r) <=> Kraft(r)'
  BY SetupSame DEF Kraft
<1>2. Unused' = Unused
  BY <1>1 DEF Unused
<1> QED BY <1>1, <1>2

LEMMA SortedSame ==
  ASSUME UNCHANGED setup, symbols' = symbols
  PROVE  \A j : Sorted(j) <=> Sorted(j)'
<1>1. n_codes0' = n_codes0
  BY DEF setup
<1> QED BY <1>1, SetupSame DEF Sorted

LEMMA InitInv == Init => Inv
<1> SUFFICES ASSUME Init PROVE Inv
  OBVIOUS
<1>1. SetupOK
  BY DEF Init, SetupOK
<1>2. symbols \in [0..NCodes - 1 -> Nat]
  BY DEF Init
<1> QED BY <1>1, <1>2 DEF Init, Inv, Consistent

(* A step that fails for a good reason keeps the invariant.                *)
LEMMA FailInv ==
  ASSUME Inv, NEW what, Fail(what), what \notin {"internal", "bad_minimum"}
  PROVE  Inv'
<1>1. SetupOK'
  BY SetupSame DEF Inv, Fail
<1>2. pc' = "error" /\ status' = what
  BY DEF Fail
<1> QED BY <1>1, <1>2 DEF Inv, Consistent

LEMMA CountInv == Inv /\ Count => Inv'
<1> SUFFICES ASSUME Inv, Count PROVE Inv'
  OBVIOUS
<1> DEFINE cs == [l \in Lengths |-> Cardinality({k \in Codes0 : code_lengths[k] = l})]
<1>1. pc = "count" /\ symbols \in [0..NCodes - 1 -> Nat] /\ SetupOK /\ Consistent
  BY DEF Count, Inv
<1>2. CASE cs[0] + n_codes0 = NCodes
  <2>1. Fail("no_codes")
    BY <1>2 DEF Count
  <2> QED BY <2>1, FailInv
<1>3. CASE ~(cs[0] + n_codes0 = NCodes)
  <2>1. /\ counts' = cs /\ pc' = "cover" /\ UNCHANGED <<status, setup>> /\ symbols' = symbols
    BY <1>3 DEF Count, sorted
  <2>2. SetupOK' /\ \A l : CountOf(l)' = CountOf(l)
    BY <1>1, <2>1, SetupSame
  <2>3. cs = [l \in Lengths |-> CountOf(l)]
    BY DEF CountOf, CodesOf
  <2>4. Counted'
    BY <2>1, <2>2, <2>3 DEF Counted
  <2>5. Consistent'
    BY <1>1, <2>1 DEF Consistent
  <2>6. pc' = "cover" /\ symbols' \in [0..NCodes - 1 -> Nat]
    BY <1>1, <2>1
  <2> QED BY <2>2, <2>4, <2>5, <2>6 DEF Inv
<1> QED BY <1>2, <1>3

LEMMA CoverInv == Inv /\ Cover => Inv'
<1> SUFFICES ASSUME Inv, Cover PROVE Inv'
  OBVIOUS
<1>1. pc = "cover" /\ symbols \in [0..NCodes - 1 -> Nat] /\ SetupOK /\ Consistent /\ Counted
  BY DEF Cover, Inv
<1>2. CASE \E l \in Lengths : Remaining[l] < 0
  <2>1. Fail("over_subscribed")
    BY <1>2 DEF Cover
  <2> QED BY <2>1, FailInv
<1>3. CASE ~(\E l \in Lengths : Remaining[l] < 0) /\ Remaining[MaxLen] # 0
  <2>1. Fail("under_subscribed")
    BY <1>3 DEF Cover
  <2> QED BY <2>1, FailInv
<1>4. CASE ~(\E l \in Lengths : Remaining[l] < 0) /\ Remaining[MaxLen] = 0
  <2>1. pc' = "offsets" /\ UNCHANGED <<status, setup, counts>> /\ symbols' = symbols
    BY <1>4 DEF Cover, sorted
  <2>2. SetupOK' /\ \A l : CountOf(l)' = CountOf(l)
    BY <1>1, <2>1, SetupSame
  <2>3. Kraft(Unused)
    BY <1>1, <1>4, CoverKraft DEF Counted
  <2>4. Kraft(Unused)'
    BY <2>1, <2>3, UnusedSame
  <2>5. Counted'
    BY <1>1, <2>1, <2>2 DEF Counted
  <2>6. Consistent'
    BY <1>1, <2>1 DEF Consistent
  <2>7. pc' = "offsets" /\ symbols' \in [0..NCodes - 1 -> Nat]
    BY <1>1, <2>1
  <2> QED BY <2>2, <2>4, <2>5, <2>6, <2>7 DEF Inv
<1> QED BY <1>2, <1>3, <1>4

LEMMA OffsetsInv == Inv /\ Offsets => Inv'
<1> SUFFICES ASSUME Inv, Offsets PROVE Inv'
  OBVIOUS
<1>1. /\ pc = "offsets" /\ symbols \in [0..NCodes - 1 -> Nat] /\ SetupOK /\ Consistent
      /\ Counted /\ Kraft(Unused)
  BY DEF Offsets, Inv
<1>2. \A l \in 1..MaxLen + 1 : CountBelow(l) = Total(l - 1)
  BY <1>1, CountBelowTotal DEF Counted
<1>3. n_symbols' = Total(MaxLen)
  <2>1. MaxLen + 1 \in 1..MaxLen + 1 /\ (MaxLen + 1) - 1 = MaxLen
    BY Sizes
  <2>2. CountBelow(MaxLen + 1) = Total((MaxLen + 1) - 1)
    BY <1>2, <2>1
  <2>3. Total((MaxLen + 1) - 1) = Total(MaxLen)
    BY <2>1
  <2> QED BY <2>2, <2>3 DEF Offsets
<1>4. ~(n_symbols' > NCodes)
  BY <1>1, <1>3, CountType, CodesFinite, Sizes
<1>5. /\ pc' = "symbols" /\ i' = n_codes0 /\ UNCHANGED <<status, setup, counts, symbols>>
      /\ offsets' = [l \in Lengths |-> IF l = 0 THEN 0 ELSE CountBelow(l)]
  BY <1>4 DEF Offsets
<1>6. /\ SetupOK' /\ \A l : CountOf(l)' = CountOf(l) /\ Total(l)' = Total(l)
      /\ \A l, m : Seen(l, m)' = Seen(l, m)
  BY <1>1, <1>5, SetupSame
<1>7. \A l \in Lengths : l # 0 => l \in 1..MaxLen /\ l \in 1..MaxLen + 1
  BY Sizes DEF Lengths
<1>8. offsets' \in [Lengths -> Nat]
  <2>1. \A l \in Lengths : l # 0 => CountBelow(l) \in Nat
    BY <1>1, <1>2, <1>7, CountType
  <2> QED BY <1>5, <2>1
<1>9. \A l \in 1..MaxLen : offsets'[l] = Total(l - 1) /\ offsets'[l] \in Nat
  BY <1>2, <1>5, <1>8, Sizes DEF Lengths
<1>10. Sorting'
  <2>1. n_symbols' = Total(MaxLen)'
    BY <1>3, <1>6
  <2>2. i' \in n_codes0'..NCodes
    BY <1>1, <1>5, CodesFinite, Sizes DEF setup
  <2>3. symbols' \in [0..NCodes - 1 -> Nat]
    BY <1>1, <1>5
  <2>4. \A l \in 1..MaxLen : offsets'[l] = Total(l - 1)' + Seen(l, i)'
    <3>1. ASSUME NEW l \in 1..MaxLen PROVE offsets'[l] = Total(l - 1)' + Seen(l, i)'
      <4>1. Seen(l, i)' = 0
        <5>1. Seen(l, n_codes0) = 0
          BY <1>1, SeenNone
        <5>2. Seen(l, i)' = Seen(l, n_codes0)
          BY <1>5 DEF Seen, SeenOf, setup
        <5> QED BY <5>1, <5>2
      <4>2. Total(l - 1)' = Total(l - 1) /\ Total(l - 1) \in Nat
        BY <1>1, <1>6, CountType
      <4> QED BY <1>9, <4>1, <4>2
    <3> QED BY <3>1
  <2>5. \A l \in 1..MaxLen : \A j \in Total(l - 1)'..offsets'[l] - 1 : Sorted(j)'
    <3>1. ASSUME NEW l \in 1..MaxLen PROVE Total(l - 1)'..offsets'[l] - 1 = {}
      <4>1. Total(l - 1)' = offsets'[l] /\ offsets'[l] \in Nat
        BY <1>6, <1>9
      <4> QED BY <4>1
    <3> QED BY <3>1
  <2> QED BY <1>8, <2>1, <2>2, <2>3, <2>4, <2>5 DEF Sorting
<1>11. Kraft(Unused)' /\ Counted'
  BY <1>1, <1>5, <1>6, UnusedSame DEF Counted
<1>12. Consistent'
  BY <1>1, <1>5 DEF Consistent
<1> QED BY <1>5, <1>6, <1>10, <1>11, <1>12 DEF Inv

(* Placing one symbol: its place is free, and the next of its length is    *)
(* the one after it.                                                       *)
LEMMA SortSymbolInv == Inv /\ SortSymbol => Inv'
<1> SUFFICES ASSUME Inv, SortSymbol PROVE Inv'
  OBVIOUS
<1>1. /\ pc = "symbols" /\ i < NCodes /\ SetupOK /\ Consistent
      /\ Counted /\ Kraft(Unused) /\ Sorting
  BY DEF SortSymbol, Inv
<1> DEFINE m == code_lengths[i]
<1>2. i \in n_codes0..NCodes - 1 /\ i \in Nat /\ i \in 0..NCodes - 1 /\ m \in Lengths
      /\ i \in n_codes0..NCodes /\ i + 1 \in n_codes0..NCodes
  BY <1>1, CodesFinite, Sizes DEF Sorting, SetupOK
<1>s. UNCHANGED <<setup, counts, n_symbols>>
  BY DEF SortSymbol
<1>p. /\ SetupOK' /\ \A l : CountOf(l)' = CountOf(l) /\ Total(l)' = Total(l)
      /\ \A l, k : Seen(l, k)' = Seen(l, k)
      /\ \A s : LengthOf(s)' = LengthOf(s) /\ Rank(s)' = Rank(s)
  BY <1>1, <1>s, SetupSame
<1>k. Kraft(Unused)' /\ Counted'
  BY <1>1, <1>s, <1>p, UnusedSame DEF Counted
<1>t. \A l : Total(l) \in Nat /\ CountOf(l) \in Nat
  BY <1>1, CountType
<1>n. n_codes0' = n_codes0 /\ n_codes0 \in Nat
  BY <1>1, <1>s, CodesFinite DEF setup
<1>3. CASE m = 0
  <2>1. i' = i + 1 /\ UNCHANGED <<pc, status, symbols, offsets>>
    BY <1>3 DEF SortSymbol
  <2>2. ASSUME NEW l \in 1..MaxLen PROVE Seen(l, i)' = Seen(l, i)
    <3>1. Seen(l, i + 1) = Seen(l, i)
      <4>1. code_lengths[i] # l
        BY <1>3
      <4> QED BY <1>1, <1>2, <4>1, SeenNext
    <3>2. Seen(l, i)' = Seen(l, i + 1)
      BY <1>s, <2>1 DEF Seen, SeenOf, setup
    <3> QED BY <3>1, <3>2
  <2>3. \A j : Sorted(j)' <=> Sorted(j)
    BY <1>s, <2>1, SortedSame
  <2>4. Sorting'
    BY <1>1, <1>2, <1>s, <1>p, <1>n, <2>1, <2>2, <2>3 DEF Sorting
  <2>5. Consistent'
    BY <1>1, <2>1 DEF Consistent
  <2> QED BY <1>1, <1>p, <1>k, <2>1, <2>4, <2>5 DEF Inv
<1>4. CASE m # 0
  <2>0. m \in 1..MaxLen /\ m \in Nat /\ 1 <= m
    BY <1>2, <1>4, Sizes DEF Lengths
  <2>1. Seen(m, i) \in Nat /\ Seen(m, i + 1) = Seen(m, i) + 1 /\ Seen(m, i) < CountOf(m)
    BY <1>1, <1>2, SeenNext, SeenType
  <2>2. offsets[m] = Total(m - 1) + Seen(m, i) /\ offsets[m] \in Nat
    BY <1>1, <1>2, <2>0 DEF Sorting
  <2>3. Total(m) = Total(m - 1) + CountOf(m) /\ Total(m) <= NCodes - n_codes0
    BY <1>1, <2>0, TotalStep, CountType
  <2>4. offsets[m] < Total(m) /\ offsets[m] \in 0..NCodes - 1 /\ ~(offsets[m] >= NCodes)
    BY <1>t, <1>n, <2>1, <2>2, <2>3, Sizes
  <2>o. PICK o \in Nat : o = offsets[m]
    BY <2>2
  <2>5. /\ symbols' = [symbols EXCEPT ![o] = i - n_codes0]
        /\ offsets' = [offsets EXCEPT ![m] = @ + 1]
        /\ i' = i + 1
        /\ UNCHANGED <<pc, status>>
    BY <1>4, <2>4, <2>o DEF SortSymbol
  <2>6. symbols' \in [0..NCodes - 1 -> Nat] /\ symbols'[o] = i - n_codes0
    <3>1. i - n_codes0 \in Nat /\ symbols \in [0..NCodes - 1 -> Nat]
      BY <1>1, <1>2, <1>n DEF Sorting
    <3> QED BY <2>4, <2>5, <2>o, <3>1
  <2>7. offsets' \in [Lengths -> Nat] /\ offsets'[m] = o + 1
        /\ \A l \in Lengths : l # m => offsets'[l] = offsets[l]
    <3>1. offsets \in [Lengths -> Nat]
      BY <1>1 DEF Sorting
    <3> QED BY <1>2, <2>2, <2>5, <2>o, <3>1
  <2>8. Sorted(o)'
    <3>0. PICK s \in Nat : s = i - n_codes0
      BY <1>2, <1>n
    <3>1. s \in 0..(NCodes - 1) - n_codes0 /\ n_codes0 + s = i
      BY <1>2, <1>n, <3>0, Sizes
    <3>2. LengthOf(s) = m
      BY <3>1 DEF LengthOf
    <3>3. Rank(s) = o
      BY <2>2, <2>o, <3>1, <3>2 DEF Rank
    <3>4. LengthOf(s)' = m /\ Rank(s)' = o
      BY <1>p, <3>2, <3>3
    <3>5. symbols'[o] = s
      BY <2>6, <3>0
    <3>6. LengthOf(symbols[o])' = m /\ Rank(symbols[o])' = o
      BY <3>4, <3>5 DEF LengthOf, Rank
    <3> QED BY <1>n, <2>0, <3>1, <3>5, <3>6 DEF Sorted
  <2>9. ASSUME NEW l \in 1..MaxLen, NEW j \in Total(l - 1)..offsets'[l] - 1 PROVE Sorted(j)'
    <3>1. CASE l = m /\ j = o
      BY <2>8, <3>1
    <3>2. CASE ~(l = m /\ j = o)
      <4>0. l \in Lengths /\ l \in Nat /\ 1 <= l /\ Total(l - 1) \in Nat /\ Total(l) \in Nat
        BY <1>t, Sizes DEF Lengths
      <4>1. j \in Nat /\ j \in Total(l - 1)..offsets[l] - 1
        <5>1. offsets'[l] \in Nat /\ offsets[l] \in Nat
          BY <1>1, <2>7, <4>0 DEF Sorting
        <5>2. CASE l = m
          BY <2>2, <2>7, <2>o, <3>2, <4>0, <5>1, <5>2
        <5>3. CASE l # m
          BY <2>7, <4>0, <5>1, <5>3
        <5> QED BY <5>2, <5>3
      <4>2. Sorted(j)
        BY <1>1, <4>1 DEF Sorting
      <4>3. offsets[l] = Total(l - 1) + Seen(l, i) /\ Seen(l, i) \in Nat /\ Seen(l, i) <= CountOf(l)
        BY <1>1, <1>2, SeenType DEF Sorting
      <4>4. Total(l) = Total(l - 1) + CountOf(l)
        BY <1>1, <4>0, TotalStep
      <4>5. j < Total(l)
        BY <1>t, <4>0, <4>1, <4>3, <4>4
      <4>6. j # o
        <5>1. CASE l = m
          BY <3>2, <5>1
        <5>2. CASE l < m
          <6>1. Total(l) <= Total(m - 1)
            BY <1>1, <2>0, <4>0, <5>2, TotalMono
          <6> QED BY <1>t, <2>1, <2>2, <2>o, <4>0, <4>1, <4>5, <6>1
        <5>3. CASE m < l
          <6>1. Total(m) <= Total(l - 1)
            BY <1>1, <2>0, <4>0, <5>3, TotalMono
          <6> QED BY <1>t, <2>2, <2>4, <2>o, <4>0, <4>1, <6>1
        <5> QED BY <2>0, <4>0, <5>1, <5>2, <5>3
      <4>7. symbols'[j] = symbols[j]
        <5>1. j \in 0..NCodes - 1
          <6>1. Total(l) <= NCodes - n_codes0
            BY <1>1, CountType
          <6> QED BY <1>n, <4>0, <4>1, <4>5, <6>1, Sizes
        <5>2. symbols \in [0..NCodes - 1 -> Nat]
          BY <1>1 DEF Sorting
        <5> QED BY <2>5, <4>6, <5>1, <5>2
      <4>8. LengthOf(symbols[j])' = LengthOf(symbols[j]) /\ Rank(symbols[j])' = Rank(symbols[j])
        BY <1>p, <4>7, <1>s DEF LengthOf, Rank, Total, Seen, SeenOf, CodesUpTo, Codes0, setup
      <4> QED BY <1>n, <4>2, <4>7, <4>8 DEF Sorted
    <3> QED BY <3>1, <3>2
  <2>10. ASSUME NEW l \in 1..MaxLen PROVE offsets'[l] = Total(l - 1) + Seen(l, i')
    <3>1. l \in Lengths
      BY Sizes DEF Lengths
    <3>2. CASE l = m
      <4>1. offsets'[m] = Total(m - 1) + Seen(m, i + 1)
        BY <1>t, <2>1, <2>2, <2>7, <2>o
      <4> QED BY <2>5, <3>2, <4>1
    <3>3. CASE l # m
      <4>1. Seen(l, i + 1) = Seen(l, i)
        BY <1>1, <1>2, <3>3, SeenNext
      <4>2. offsets[l] = Total(l - 1) + Seen(l, i)
        BY <1>1 DEF Sorting
      <4> QED BY <2>5, <2>7, <3>1, <3>3, <4>1, <4>2
    <3> QED BY <3>2, <3>3
  <2>11. \A l \in 1..MaxLen : offsets'[l] = Total(l - 1)' + Seen(l, i)'
    <3>1. \A l : Seen(l, i)' = Seen(l, i')
      BY <1>s DEF Seen, SeenOf, setup
    <3> QED BY <1>p, <2>10, <3>1
  <2>12. Sorting'
    <3>1. n_symbols' = Total(MaxLen)' /\ i' \in n_codes0'..NCodes
      BY <1>1, <1>2, <1>s, <1>p, <1>n, <2>5 DEF Sorting
    <3>2. \A l \in 1..MaxLen : \A j \in Total(l - 1)'..offsets'[l] - 1 : Sorted(j)'
      BY <1>p, <2>9
    <3> QED BY <2>6, <2>7, <2>11, <3>1, <3>2 DEF Sorting
  <2>13. Consistent'
    BY <1>1, <2>5 DEF Consistent
  <2> QED BY <1>1, <1>p, <1>k, <2>5, <2>12, <2>13 DEF Inv
<1> QED BY <1>3, <1>4

(* After the loop over the symbols every place is filled.                  *)
LEMMA SortingDone ==
  ASSUME SetupOK, Sorting, i >= NCodes
  PROVE  /\ AllSorted
         /\ \A l \in 1..MaxLen : offsets[l] = Total(l)
<1>1. i = NCodes
  BY CodesFinite, Sizes DEF Sorting
<1>2. ASSUME NEW l \in 1..MaxLen PROVE offsets[l] = Total(l)
  <2>1. offsets[l] = Total(l - 1) + CountOf(l)
    BY <1>1, SeenAll DEF Sorting
  <2>2. Total(l) = Total(l - 1) + CountOf(l)
    BY TotalStep
  <2> QED BY <2>1, <2>2
<1>3. ASSUME NEW j \in 0..n_symbols - 1 PROVE Sorted(j)
  <2>1. j \in Nat /\ j < Total(MaxLen)
    BY CountType DEF Sorting
  <2>2. PICK l \in 1..MaxLen : Total(l - 1) <= j /\ j < Total(l)
    BY <2>1, PlaceLength
  <2>3. Total(l - 1) \in Nat /\ Total(l) \in Nat
    BY CountType
  <2>4. j \in Total(l - 1)..offsets[l] - 1
    BY <1>2, <2>1, <2>2, <2>3
  <2> QED BY <2>4 DEF Sorting
<1> QED BY <1>2, <1>3 DEF AllSorted, Sorting

(* The first symbol has the shortest length in use, and code 0.            *)
LEMMA FirstCode ==
  ASSUME SetupOK, NEW r, Kraft(r), NEW l \in 1..MaxLen, Total(l - 1) = 0
  PROVE  0 = (2^l - r[l]) - CountOf(l) /\ Total(l) = CountOf(l)
<1>1. l \in Nat /\ l - 1 \in Lengths /\ 0 \in Lengths /\ l - 1 \in Nat /\ 0 <= l - 1
      /\ l - 1 \in 0..MaxLen /\ (l - 1) + 1 = l
  BY Sizes DEF Lengths
<1>2. \A k \in 0 + 1..l - 1 : CountOf(k) = 0
  BY <1>1, TotalZero, TotalFlat
<1>3. r[l - 1] = 2^((l - 1) - 0) * r[0]
  BY <1>1, <1>2, KraftFlat
<1>4. r[0] = 1 /\ (l - 1) - 0 = l - 1 /\ r[l] = 2 * r[l - 1] - CountOf(l)
  BY <1>1 DEF Kraft
<1>5. 2^(l - 1) \in Nat /\ 2^l = 2 * 2^(l - 1)
  <2>1. l - 1 \in 0..MaxLen + 1
    BY <1>1, Sizes
  <2>2. 2^((l - 1) + 1) = 2 * 2^(l - 1)
    BY <1>1, PowDouble
  <2> QED BY <1>1, <2>1, <2>2, PowType
<1>6. r[l - 1] = 2^(l - 1)
  BY <1>3, <1>4, <1>5
<1>7. CountOf(l) \in Nat /\ Total(l) = Total(l - 1) + CountOf(l)
  BY CountType, TotalStep
<1>8. Total(l) = CountOf(l)
  BY <1>7
<1>9. 0 = (2^l - r[l]) - CountOf(l)
  BY <1>4, <1>5, <1>6, <1>7
<1> QED BY <1>8, <1>9

(* max_cl is the longest length in use.                                    *)
LEMMA LongestUsed ==
  ASSUME SetupOK, Counted, Kraft(Unused)
  PROVE  /\ Used = {l \in 1..MaxLen : CountOf(l) # 0}
         /\ Max(Used) \in Used /\ \A y \in Used : y <= Max(Used)
<1>3. Used = {l \in 1..MaxLen : CountOf(l) # 0}
  BY Sizes DEF Used, Counted, Lengths
<1>4. PICK short \in 1..Primary : CountOf(short) # 0
  BY KraftShort
<1>5. short \in Used /\ short \in 1..MaxLen
  BY <1>3, <1>4, Sizes
<1> DEFINE m == Max(Used)
<1>7. m \in Used /\ \A y \in Used : y <= m
  <2>1. Used \subseteq 0..MaxLen /\ Used # {}
    BY <1>3, <1>5
  <2>2. \E x \in Used : \A y \in Used : y <= x
    BY <2>1, GreatestElement, Sizes
  <2>3. \E x \in Used : \A y \in Used : x >= y
    BY <2>1, <2>2
  <2>4. m \in Used /\ \A y \in Used : m >= y
    BY <2>3 DEF Max
  <2> QED BY <2>1, <2>4
<1> QED BY <1>3, <1>7

LEMMA PrepareInv == Inv /\ Prepare => Inv'
<1> SUFFICES ASSUME Inv, Prepare PROVE Inv'
  OBVIOUS
<1>1. /\ pc = "symbols" /\ i >= NCodes /\ SetupOK /\ Consistent
      /\ Counted /\ Kraft(Unused) /\ Sorting
  BY DEF Prepare, Inv
<1>2. AllSorted /\ \A l \in 1..MaxLen : offsets[l] = Total(l)
  BY <1>1, SortingDone
<1>t. \A l : Total(l) \in Nat /\ CountOf(l) \in Nat
  BY <1>1, CountType
<1>3. Used = {l \in 1..MaxLen : CountOf(l) # 0}
  BY <1>1, Sizes DEF Used, Counted, Lengths
<1>4. PICK short \in 1..Primary : CountOf(short) # 0
  BY <1>1, KraftShort
<1>5. short \in Used /\ short \in 1..MaxLen
  BY <1>3, <1>4, Sizes
<1>6. ~(Used \cap 1..Primary = {})
  BY <1>4, <1>5
<1> DEFINE m == Max(Used)
<1>7. m \in Used /\ \A y \in Used : y <= m
  BY <1>1, LongestUsed
<1> HIDE DEF m
<1>8. m \in 1..MaxLen /\ m \in Nat
  BY <1>3, <1>7
<1>9. n_symbols = Total(MaxLen) /\ n_symbols = offsets[m] /\ n_symbols = offsets[MaxLen]
  <2>1. \A l \in m + 1..MaxLen : CountOf(l) = 0
    <3>1. ASSUME NEW l \in m + 1..MaxLen, CountOf(l) # 0 PROVE FALSE
      <4>1. l \in 1..MaxLen /\ ~(l <= m)
        BY <1>8, Sizes
      <4> QED BY <1>3, <1>7, <3>1, <4>1
    <3> QED BY <3>1
  <2>2. Total(MaxLen) = Total(m)
    BY <1>1, <1>8, <2>1, TotalNone, Sizes
  <2>3. MaxLen \in 1..MaxLen
    BY Sizes
  <2> QED BY <1>1, <1>2, <1>8, <2>2, <2>3 DEF Sorting
<1>10. 0 < n_symbols /\ n_symbols \in Nat
  <2>1. Total(short) = Total(short - 1) + CountOf(short)
    BY <1>1, TotalStep
  <2>2. Total(short) <= Total(MaxLen)
    BY <1>1, <1>5, TotalMono, Sizes
  <2>3. Total(short) \in Nat /\ Total(short - 1) \in Nat /\ CountOf(short) \in Nat
        /\ Total(MaxLen) \in Nat
    BY <1>t
  <2>4. 0 < Total(MaxLen)
    BY <1>4, <2>1, <2>2, <2>3
  <2> QED BY <1>9, <2>3, <2>4
<1>11. Sorted(0)
  BY <1>2, <1>10 DEF AllSorted
<1> DEFINE cl == code_lengths[n_codes0 + symbols[0]]
<1>12. /\ symbols[0] \in 0..(NCodes - 1) - n_codes0 /\ cl \in 1..MaxLen
       /\ Total(cl - 1) <= 0 /\ LengthOf(symbols[0]) = cl
  <2>1. symbols[0] \in 0..(NCodes - 1) - n_codes0 /\ LengthOf(symbols[0]) \in 1..MaxLen
        /\ Rank(symbols[0]) = 0
    BY <1>11 DEF Sorted
  <2>2. Total(LengthOf(symbols[0]) - 1) <= Rank(symbols[0])
    BY <1>1, <2>1, RankBounds
  <2> QED BY <2>1, <2>2 DEF LengthOf
<1>13. ~(n_codes0 + symbols[0] >= NCodes)
  BY <1>1, <1>12, CodesFinite, Sizes
<1>14. /\ initial_high_bits' = IF m < Primary THEN 2^m ELSE 2^Primary
       /\ prev_cl' = cl
       /\ top' = 0 /\ next_top' = 2^Primary /\ code' = 0 /\ i' = 0 /\ pc' = "code"
       /\ UNCHANGED <<status, setup, counts, sorted>>
  BY <1>6, <1>9, <1>13 DEF Prepare, m
<1>15. UNCHANGED <<symbols, n_symbols>> /\ n_codes0' = n_codes0
  BY <1>14 DEF sorted, setup
<1>p. /\ SetupOK' /\ \A l : CountOf(l)' = CountOf(l) /\ Total(l)' = Total(l)
      /\ Kraft(Unused)' /\ Unused' = Unused
  BY <1>1, <1>14, SetupSame, UnusedSame
<1>16. AllSorted'
  <2>1. \A j : Sorted(j)' <=> Sorted(j)
    BY <1>14, <1>15, SortedSame
  <2> QED BY <1>2, <1>15, <1>p, <2>1 DEF AllSorted
<1>17. Total(cl - 1) = 0 /\ 0 = (2^cl - Unused[cl]) - CountOf(cl) /\ Total(cl) = CountOf(cl)
  <2>1. Total(cl - 1) = 0
    BY <1>t, <1>12
  <2> HIDE DEF cl
  <2> QED BY <1>1, <1>12, <2>1, FirstCode
<1>18. InOrder'
  <2>c. PICK l \in 1..MaxLen : l = cl
    BY <1>12
  <2>1. counts' \in [Lengths -> Nat] /\ \A k \in 1..MaxLen : counts'[k] = CountOf(k)
    BY <1>1, <1>14, <1>t, Sizes DEF Counted, Lengths
  <2>2. prev_cl' = l /\ l \in Nat
    BY <1>14, <2>c
  <2>3. counts'[l] = CountOf(l) /\ CountOf(l)' = CountOf(l) /\ Total(l)' = Total(l)
    BY <1>p, <2>1
  <2>4. \A k \in l + 1..MaxLen : counts'[k] = CountOf(k)'
    BY <1>p, <2>1, <2>2
  <2>5. i' = Total(l)' - counts'[l]
    BY <1>14, <1>17, <1>t, <2>3, <2>c
  <2>6. code' = (2^l - Unused[l]) - counts'[l]
    BY <1>14, <1>17, <2>3, <2>c
  <2>7. i' < n_symbols'
    BY <1>10, <1>14, <1>15
  <2>8. Total(prev_cl)' = Total(l)' /\ CountOf(prev_cl)' = CountOf(l)'
    BY <2>2 DEF Total, CountOf, CodesUpTo, CodesOf
  <2>9. counts'[l] <= CountOf(l)'
    BY <1>t, <2>3
  <2> QED BY <1>p, <2>1, <2>2, <2>4, <2>5, <2>6, <2>7, <2>8, <2>9 DEF InOrder
<1>19. Room'
  <2>1. 2^Primary \in Nat /\ 2^m \in Nat
    BY <1>8, PowType, Sizes
  <2> QED BY <1>14, <2>1, Sizes DEF Room
<1>20. Keyed'
  <2>1. ASSUME prev_cl' > Primary PROVE Aligned(code, prev_cl)'
    <3>1. 2^(prev_cl' - Primary) \in Nat
      <4>1. prev_cl' - Primary \in 0..MaxLen + 1
        BY <1>12, <1>14, <2>1, Sizes
      <4> QED BY <4>1, PowType
    <3>2. code' = 0 * 2^(prev_cl' - Primary)
      BY <1>14, <3>1
    <3> QED BY <3>2 DEF Aligned
  <2> QED BY <1>14, <2>1 DEF Keyed
<1>21. Consistent'
  BY <1>1, <1>14 DEF Consistent
<1> QED BY <1>14, <1>p, <1>16, <1>18, <1>19, <1>20, <1>21 DEF Inv, Inserting

-----------------------------------------------------------------------------
(* Products and quotients of naturals.                                     *)
LEMMA MulMono ==
  ASSUME NEW a \in Int, NEW b \in Int, NEW c \in Nat, a <= b
  PROVE  a * c \in Int /\ b * c \in Int /\ a * c <= b * c
<1>1. (b - a) * c >= 0 /\ (b - a) * c = b * c - a * c
  OBVIOUS
<1>2. a * c \in Int /\ b * c \in Int
  OBVIOUS
<1> QED BY <1>1, <1>2

LEMMA DivFacts ==
  ASSUME NEW n \in Nat, NEW d \in Nat, 1 <= d
  PROVE  /\ n \div d \in Nat
         /\ (n \div d) * d \in Nat /\ (n \div d) * d <= n /\ n < (n \div d) * d + d
         /\ n % d \in Nat /\ n % d < d /\ n = (n \div d) * d + (n % d)
<1>1. n \div d \in Nat
  BY SMTT(30)
<1>2. (n \div d) * d <= n
  BY SMTT(30)
<1>3. n < (n \div d) * d + d
  BY SMTT(30)
<1>4. n % d \in Nat /\ n % d < d
  BY SMTT(30)
<1>5. n % d = n - (n \div d) * d
  BY SMTT(30)
<1>6. (n \div d) * d \in Nat
  BY <1>1
<1>7. n = (n \div d) * d + (n % d)
  <2> DEFINE p == (n \div d) * d
             m == n % d
  <2>1. m = n - p /\ m \in Nat /\ p \in Nat
    BY <1>4, <1>5, <1>6
  <2> HIDE DEF p, m
  <2>2. n = p + m
    BY <2>1
  <2> QED BY <2>2 DEF p, m
<1> QED BY <1>1, <1>2, <1>3, <1>4, <1>6, <1>7

(* q * d + d = (q + 1) * d.                                                *)
LEMMA MulNext ==
  ASSUME NEW q \in Int, NEW d \in Int
  PROVE  q * d + d = (q + 1) * d
OBVIOUS

LEMMA DivUnique ==
  ASSUME NEW n \in Nat, NEW d \in Nat, 1 <= d, NEW q \in Int, q * d <= n, n < q * d + d
  PROVE  n \div d = q
<1> DEFINE t == n \div d
<1>1. t \in Nat /\ t * d \in Nat /\ t * d <= n /\ n < t * d + d
  BY DivFacts
<1> HIDE DEF t
<1>2. ASSUME t + 1 <= q PROVE FALSE
  <2>1. (t + 1) * d <= q * d
    BY <1>1, <1>2, MulMono
  <2>2. t * d + d = (t + 1) * d
    BY <1>1, MulNext
  <2>3. q * d \in Int
    OBVIOUS
  <2> QED BY <1>1, <2>1, <2>2, <2>3
<1>3. ASSUME q + 1 <= t PROVE FALSE
  <2>1. (q + 1) * d <= t * d
    BY <1>1, <1>3, MulMono
  <2>2. q * d + d = (q + 1) * d
    BY MulNext
  <2>3. q * d \in Int
    OBVIOUS
  <2> QED BY <1>1, <2>1, <2>2, <2>3
<1>4. t = q
  BY <1>1, <1>2, <1>3
<1> QED BY <1>4 DEF t

(* A common factor cancels.                                                *)
LEMMA DivCancel ==
  ASSUME NEW a \in Nat, NEW x \in Nat, 1 <= x, NEW y \in Nat, 1 <= y
  PROVE  a * x \in Nat /\ y * x \in Nat /\ 1 <= y * x /\ (a * x) \div (y * x) = a \div y
<1> DEFINE q == a \div y
<1>1. q \in Nat /\ q * y \in Nat /\ q * y <= a /\ a + 1 <= q * y + y
  BY DivFacts
<1> HIDE DEF q
<1>2. a * x \in Nat /\ y * x \in Nat /\ 1 <= y * x
  <2>1. 1 * x <= y * x
    BY MulMono
  <2>2. a * x \in Nat /\ y * x \in Nat
    OBVIOUS
  <2> QED BY <2>1, <2>2
<1>3. (q * y) * x <= a * x
  BY <1>1, MulMono
<1>4. (a + 1) * x <= (q * y + y) * x
  BY <1>1, MulMono
<1>5. (q * y) * x = q * (y * x) /\ (q * y + y) * x = q * (y * x) + y * x
  BY <1>1
<1>6. (a + 1) * x = a * x + x
  OBVIOUS
<1>7. q * (y * x) \in Nat
  BY <1>1, <1>2
<1>8. q * (y * x) <= a * x /\ a * x < q * (y * x) + y * x
  BY <1>2, <1>3, <1>4, <1>5, <1>6, <1>7
<1> DEFINE n == a * x
           d == y * x
<1>9. n \in Nat /\ d \in Nat /\ 1 <= d /\ q * d <= n /\ n < q * d + d
  BY <1>2, <1>8
<1> HIDE DEF n, d
<1>10. n \div d = q
  BY <1>1, <1>9, DivUnique
<1> QED BY <1>2, <1>10 DEF n, d, q

(* The quotient of c and of c - 1 differ only at a multiple.               *)
LEMMA DivAtMultiple ==
  ASSUME NEW c \in Nat, 1 <= c, NEW d \in Nat, 1 <= d, (c - 1) \div d # c \div d
  PROVE  c = (c \div d) * d
<1> DEFINE q == c \div d
<1>1. q \in Nat /\ q * d \in Nat /\ q * d <= c /\ c < q * d + d
  BY DivFacts
<1> HIDE DEF q
<1>2. ASSUME q * d < c PROVE FALSE
  <2>1. c - 1 \in Nat /\ q * d <= c - 1 /\ c - 1 < q * d + d
    BY <1>1, <1>2
  <2>2. (c - 1) \div d = q
    BY <1>1, <2>1, DivUnique
  <2> QED BY <2>2 DEF q
<1>3. c = q * d
  BY <1>1, <1>2
<1> QED BY <1>3 DEF q

(* There are no more unused codes of a length than codes.                  *)
LEMMA KraftBound ==
  ASSUME SetupOK, NEW r, Kraft(r), NEW l \in Lengths
  PROVE  r[l] <= 2^l
<1> DEFINE T == {k \in Nat : r[k] <= 2^k}
<1>1. 0 \in T
  <2>1. r[0] = 1 /\ 2^0 = 1
    BY DEF Kraft
  <2> QED BY <2>1
<1>2. ASSUME NEW k \in 0..MaxLen - 1, k \in T PROVE k + 1 \in T
  <2>1. k \in Lengths /\ k + 1 \in 1..MaxLen /\ (k + 1) - 1 = k /\ k \in 0..MaxLen
        /\ k \in 0..MaxLen + 1
    BY Sizes DEF Lengths
  <2>2. r[k + 1] = 2 * r[k] - CountOf(k + 1)
    BY <2>1 DEF Kraft
  <2>3. r[k] \in Nat /\ CountOf(k + 1) \in Nat /\ 2^k \in Nat
    BY <2>1, KraftType, CountType, PowType
  <2>4. 2^(k + 1) = 2 * 2^k
    BY <2>1, PowDouble
  <2>5. r[k] <= 2^k
    BY <1>2
  <2>6. r[k + 1] <= 2^(k + 1)
    BY <2>2, <2>3, <2>4, <2>5
  <2> QED BY <2>1, <2>6
<1>3. 0..MaxLen \subseteq T
  <2> HIDE DEF T
  <2>1. 0 \in Int /\ MaxLen \in Int
    BY Sizes
  <2> QED BY <1>1, <1>2, <2>1, IntervalInduction
<1> QED BY <1>3 DEF Lengths

(* The codes of a length are those between the used and the unused ones.   *)
LEMMA CodeBounds ==
  ASSUME SetupOK, NEW r, Kraft(r), NEW l \in 1..MaxLen, NEW n \in Nat, n <= CountOf(l)
  PROVE  /\ (2^l - r[l]) - n \in Nat
         /\ 1 <= n => (2^l - r[l]) - n < 2^l
         /\ 2^l \in Nat /\ r[l] \in Nat
<1>1. l \in Lengths /\ l - 1 \in Lengths /\ l - 1 \in 0..MaxLen /\ (l - 1) + 1 = l
      /\ l \in 0..MaxLen + 1 /\ l - 1 \in 0..MaxLen + 1
  BY Sizes DEF Lengths
<1>2. r[l] = 2 * r[l - 1] - CountOf(l)
  BY DEF Kraft
<1>3. r[l - 1] <= 2^(l - 1) /\ r[l - 1] \in Nat /\ r[l] \in Nat /\ CountOf(l) \in Nat
  BY <1>1, KraftBound, KraftType, CountType
<1>4. 2^l = 2 * 2^(l - 1)
  <2>1. 2^((l - 1) + 1) = 2 * 2^(l - 1)
    BY <1>1, PowDouble
  <2> QED BY <1>1, <2>1
<1>5. 2^l \in Nat /\ 2^(l - 1) \in Nat
  BY <1>1, PowType
<1> QED BY <1>2, <1>3, <1>4, <1>5

(* The first code of the next length in use follows the last one.          *)
LEMMA NextLength ==
  ASSUME SetupOK, NEW r, Kraft(r), NEW a \in 1..MaxLen, NEW b \in 1..MaxLen, a < b,
         Total(a) = Total(b - 1)
  PROVE  (2^a - r[a]) * 2^(b - a) = (2^b - r[b]) - CountOf(b)
<1>1. /\ a \in Lengths /\ b - 1 \in Lengths /\ b \in Lengths /\ a \in Nat /\ b \in Nat
      /\ a <= b - 1 /\ b - 1 \in Nat /\ b \in 0..MaxLen + 1 /\ b - a \in 0..MaxLen + 1
      /\ (b - 1) - a \in 0..MaxLen /\ ((b - 1) - a) + 1 = b - a /\ (b - 1) - a \in 0..MaxLen + 1
  BY Sizes DEF Lengths
<1>2. \A l \in a + 1..b - 1 : CountOf(l) = 0
  BY <1>1, TotalFlat
<1>3. r[b - 1] = 2^((b - 1) - a) * r[a]
  BY <1>1, <1>2, KraftFlat
<1>4. r[b] = 2 * r[b - 1] - CountOf(b)
  BY DEF Kraft
<1> DEFINE p == 2^((b - 1) - a)
           q == 2^(b - a)
           x == 2^a
           y == 2^b
<1>5. q = 2 * p
  <2>1. 2^(((b - 1) - a) + 1) = 2 * 2^((b - 1) - a)
    BY <1>1, PowDouble
  <2> QED BY <1>1, <2>1
<1>6. y = x * q /\ p \in Nat /\ q \in Nat /\ x \in Nat /\ y \in Nat
  BY <1>1, PowSplit, PowType
<1>7. r[a] \in Nat /\ r[b] \in Nat /\ r[b - 1] \in Nat /\ CountOf(b) \in Nat
  BY <1>1, KraftType, CountType
<1>8. r[b - 1] = p * r[a]
  BY <1>3
<1> HIDE DEF p, q, x, y
<1>9. (x - r[a]) * q = x * q - r[a] * q
  BY <1>6, <1>7
<1>10. r[a] * q = 2 * (p * r[a])
  BY <1>5, <1>6, <1>7
<1>11. p * r[a] \in Int /\ r[a] * q \in Int
  BY <1>6, <1>7
<1>12. r[a] * q = r[b] + CountOf(b)
  BY <1>4, <1>7, <1>8, <1>10, <1>11
<1>13. (x - r[a]) * q = (y - r[b]) - CountOf(b)
  BY <1>6, <1>7, <1>9, <1>11, <1>12
<1> QED BY <1>13 DEF x, y, q

(* The symbol to insert next has the length of the last one, or the next   *)
(* length in use; Canonical computes its code.                             *)
NextCode(cl) == IF cl > prev_cl THEN code * 2^(cl - prev_cl) ELSE code

LEMMA NextSymbol ==
  ASSUME SetupOK, Kraft(Unused), AllSorted, InOrder, NEW cl, cl = LengthOf(symbols[i])
  PROVE  /\ i \in 0..n_symbols - 1 /\ n_symbols <= NCodes
         /\ symbols[i] \in 0..(NCodes - 1) - n_codes0
         /\ cl \in 1..MaxLen /\ prev_cl <= cl
         /\ cl # prev_cl => Total(prev_cl) = Total(cl - 1) /\ counts[prev_cl] = 0
         /\ 1 <= counts[cl] /\ counts[cl] <= CountOf(cl)
         /\ i = Total(cl) - counts[cl]
         /\ NextCode(cl) = (2^cl - Unused[cl]) - counts[cl]
         /\ NextCode(cl) \in Nat /\ NextCode(cl) < 2^cl
<1> DEFINE L == prev_cl
<1>t. \A l : Total(l) \in Nat /\ CountOf(l) \in Nat
  BY CountType
<1>1. L \in 1..MaxLen /\ L \in Nat /\ counts[L] \in Nat /\ counts[L] <= CountOf(L)
      /\ i = Total(L) - counts[L] /\ i < n_symbols /\ n_symbols = Total(MaxLen)
  BY Sizes DEF InOrder, AllSorted, Lengths
<1>2. Total(L) = Total(L - 1) + CountOf(L)
  BY <1>1, TotalStep
<1>3. i \in 0..n_symbols - 1 /\ Total(L - 1) <= i /\ i <= Total(L)
  BY <1>1, <1>2, <1>t
<1>4. Sorted(i)
  BY <1>3 DEF AllSorted
<1>5. /\ symbols[i] \in 0..(NCodes - 1) - n_codes0 /\ cl \in 1..MaxLen
      /\ Total(cl - 1) <= i /\ i < Total(cl)
  <2>1. /\ symbols[i] \in 0..(NCodes - 1) - n_codes0 /\ cl \in 1..MaxLen
        /\ Rank(symbols[i]) = i
    BY <1>4 DEF Sorted
  <2>2. Total(LengthOf(symbols[i]) - 1) <= Rank(symbols[i])
        /\ Rank(symbols[i]) < Total(LengthOf(symbols[i]))
    BY <2>1, RankBounds
  <2> QED BY <2>1, <2>2
<1>6. n_symbols <= NCodes
  BY <1>1, CountType, CodesFinite, Sizes
<1>7. L <= cl
  <2>1. ASSUME cl < L PROVE FALSE
    <3>1. Total(cl) <= Total(L - 1)
      BY <1>1, <1>5, <2>1, TotalMono
    <3> QED BY <1>1, <1>3, <1>5, <1>t, <3>1
  <2> QED BY <1>1, <1>5, <2>1
<1>8. CASE cl = L
  <2>1. 1 <= counts[cl]
    BY <1>1, <1>5, <1>8, <1>t
  <2>2. NextCode(cl) = (2^cl - Unused[cl]) - counts[cl]
    BY <1>1, <1>8 DEF NextCode, InOrder
  <2>3. NextCode(cl) \in Nat /\ NextCode(cl) < 2^cl
    BY <1>1, <1>8, <2>1, <2>2, CodeBounds
  <2> QED BY <1>1, <1>3, <1>5, <1>6, <1>8, <2>1, <2>2, <2>3
<1>9. CASE L < cl
  <2>1. Total(L) <= Total(cl - 1)
    BY <1>1, <1>5, <1>9, TotalMono
  <2>2. Total(L) = Total(cl - 1) /\ counts[L] = 0 /\ i = Total(cl - 1)
    BY <1>1, <1>3, <1>5, <1>t, <2>1
  <2>3. Total(cl) = Total(cl - 1) + CountOf(cl)
    BY <1>5, TotalStep
  <2>4. counts[cl] = CountOf(cl) /\ 1 <= counts[cl]
    <3>1. counts[cl] = CountOf(cl)
      BY <1>1, <1>5, <1>9 DEF InOrder
    <3> QED BY <1>5, <1>t, <2>2, <2>3, <3>1
  <2>5. (2^L - Unused[L]) * 2^(cl - L) = (2^cl - Unused[cl]) - CountOf(cl)
    BY <1>1, <1>5, <1>9, <2>2, NextLength, ZenonT(60)
  <2>6. code = 2^L - Unused[L]
    <3>1. code = (2^L - Unused[L]) - counts[L]
      BY DEF InOrder
    <3>2. 2^L \in Nat /\ Unused[L] \in Nat
      BY <1>1, CodeBounds
    <3> QED BY <2>2, <3>1, <3>2
  <2>7. NextCode(cl) = (2^cl - Unused[cl]) - counts[cl]
    BY <1>9, <2>4, <2>5, <2>6 DEF NextCode
  <2>8. NextCode(cl) \in Nat /\ NextCode(cl) < 2^cl
    BY <1>5, <2>4, <2>7, <1>t, CodeBounds
  <2>9. i = Total(cl) - counts[cl]
    BY <1>t, <2>2, <2>3, <2>4
  <2> QED BY <1>3, <1>5, <1>6, <1>7, <1>t, <2>2, <2>4, <2>7, <2>8, <2>9
<1> QED BY <1>1, <1>5, <1>7, <1>8, <1>9

(* A code that leads to another second level table than the code before it *)
(* is the first code of that table.                                        *)
LEMMA NewTableAligned ==
  ASSUME NEW L \in 1..MaxLen, NEW M \in 1..MaxLen, L <= M, Primary < M, NEW c \in Nat, NEW prk,
         L > Primary => Aligned(c, L) \/ (c >= 1 /\ prk = SecondLevel(c - 1, L)),
         NEW d, d = IF M > L THEN c * 2^(M - L) ELSE c,
         prk # SecondLevel(d, M)
  PROVE  Aligned(d, M)
<1> DEFINE f == 2^(M - L)
<1>0. M - L \in 0..MaxLen + 1 /\ M - L \in Nat /\ M - Primary \in 0..MaxLen + 1
  BY Sizes
<1>1. f \in Nat /\ 1 <= f
  BY <1>0, PowType
<1>2. d = c * f
  <2>1. CASE M > L
    BY <2>1
  <2>2. CASE M = L
    <3>1. M - L = 0 /\ 2^0 = 1
      BY <2>2
    <3>2. f = 1
      BY <3>1
    <3> QED BY <2>2, <3>2
  <2> QED BY <2>1, <2>2
<1>3. CASE L <= Primary
  <2>1. Primary - L \in Nat /\ M - Primary \in Nat /\ (Primary - L) + (M - Primary) = M - L
        /\ Primary - L \in 0..MaxLen + 1
    BY <1>3, Sizes
  <2> DEFINE a == Primary - L
             b == M - Primary
  <2>a. a \in Nat /\ b \in Nat /\ a + b = M - L /\ a + b <= MaxLen + 1
    BY <1>0, <2>1, Sizes
  <2> HIDE DEF a, b
  <2>b. 2^(a + b) = 2^a * 2^b
    BY <2>a, PowAdd
  <2>2. 2^(M - L) = 2^(Primary - L) * 2^(M - Primary)
    <3>1. 2^(M - L) = 2^a * 2^b
      BY <2>a, <2>b
    <3> QED BY <3>1 DEF a, b
  <2>3. 2^(Primary - L) \in Nat /\ 2^(M - Primary) \in Nat
    BY <1>0, <2>1, PowType
  <2> DEFINE x == 2^(Primary - L)
             y == 2^(M - Primary)
  <2>4. f = x * y
    BY <2>2
  <2>5. x \in Nat /\ y \in Nat
    BY <2>3
  <2> HIDE DEF x, y
  <2>6. c * x \in Nat /\ d = (c * x) * y
    BY <1>2, <2>4, <2>5
  <2> QED BY <2>6 DEF Aligned, y
<1>4. CASE L > Primary
  <2> DEFINE e == 2^(L - Primary)
             g == 2^(M - Primary)
  <2>1. L - Primary \in Nat /\ L - Primary \in 0..MaxLen + 1 /\ (L - Primary) + (M - L) = M - Primary
    BY <1>4, Sizes
  <2>2. 2^((L - Primary) + (M - L)) = e * f
    BY <1>0, <2>1, PowAdd
  <2>3. e \in Nat /\ 1 <= e /\ g = e * f
    BY <2>1, <2>2, PowType
  <2>4. SecondLevel(d, M) = (d \div g) % 2^Primary
        /\ SecondLevel(c - 1, L) = ((c - 1) \div e) % 2^Primary
    BY DEF SecondLevel
  <2>5. (Aligned(c, L) <=> \E q \in Nat : c = q * e) /\ (Aligned(d, M) <=> \E q \in Nat : d = q * g)
    BY DEF Aligned
  <2> HIDE DEF e, g, f
  <2>6. ASSUME NEW q \in Nat, c = q * e PROVE Aligned(d, M)
    <3>1. d = q * g
      BY <1>1, <1>2, <2>3, <2>6
    <3> QED BY <2>5, <3>1
  <2>7. ASSUME c >= 1, prk = SecondLevel(c - 1, L) PROVE Aligned(d, M)
    <3>1. (c * f) \div (e * f) = c \div e
      BY <1>1, <2>3, DivCancel
    <3>2. d \div g = c \div e
      BY <1>2, <2>3, <3>1
    <3>3. (c - 1) \div e # c \div e
      BY <2>4, <2>7, <3>2
    <3>4. c = (c \div e) * e
      BY <2>3, <2>7, <3>3, DivAtMultiple
    <3>5. c \div e \in Nat
      BY <2>3, DivFacts
    <3> QED BY <2>6, <3>4, <3>5
  <2> QED BY <1>4, <2>5, <2>6, <2>7
<1> QED BY <1>3, <1>4, Sizes

LEMMA CanonicalInv == Inv /\ Canonical => Inv'
<1> SUFFICES ASSUME Inv, Canonical PROVE Inv'
  OBVIOUS
<1>1. /\ pc = "code" /\ SetupOK /\ Consistent /\ Kraft(Unused)
      /\ AllSorted /\ InOrder /\ Room /\ Keyed
  BY DEF Canonical, Inv, Inserting
<1>c. PICK cl : cl = LengthOf(symbols[i])
  OBVIOUS
<1>2. /\ i \in 0..n_symbols - 1 /\ n_symbols <= NCodes
      /\ symbols[i] \in 0..(NCodes - 1) - n_codes0
      /\ cl \in 1..MaxLen /\ prev_cl <= cl
      /\ 1 <= counts[cl] /\ counts[cl] <= CountOf(cl)
      /\ i = Total(cl) - counts[cl]
      /\ NextCode(cl) = (2^cl - Unused[cl]) - counts[cl]
      /\ NextCode(cl) \in Nat /\ NextCode(cl) < 2^cl
  BY <1>1, <1>c, NextSymbol
<1>3. ~(n_codes0 + symbols[i] >= NCodes)
  BY <1>1, <1>2, CodesFinite, Sizes
<1>4. ~(NextCode(cl) >= 2^MaxLen)
  <2>1. 2^cl <= 2^MaxLen /\ 2^cl \in Nat /\ 2^MaxLen \in Nat
    BY <1>2, PowMono, PowType, Sizes
  <2> QED BY <1>2, <2>1
<1>5. code_lengths[n_codes0 + symbols[i]] = cl
  BY <1>c DEF LengthOf
<1>6. /\ code' = NextCode(cl)
      /\ prev_cl' = cl
      /\ pc' = IF cl > Primary /\ prev_redirect_key # SecondLevel(NextCode(cl), cl)
               THEN "redirect" ELSE "put"
      /\ UNCHANGED <<status, setup, counts, sorted, i, prev_redirect_key, top, next_top,
                     initial_high_bits>>
  BY <1>3, <1>4, <1>5 DEF Canonical, NextCode
<1>7. UNCHANGED <<symbols, n_symbols>> /\ n_codes0' = n_codes0
  BY <1>6 DEF sorted, setup
<1>p. /\ SetupOK' /\ \A l : CountOf(l)' = CountOf(l) /\ Total(l)' = Total(l)
      /\ \A s : LengthOf(s)' = LengthOf(s)
      /\ Kraft(Unused)' /\ Unused' = Unused
  BY <1>1, <1>6, SetupSame, UnusedSame
<1>8. AllSorted'
  <2>1. \A j : Sorted(j)' <=> Sorted(j)
    BY <1>6, <1>7, SortedSame
  <2> QED BY <1>1, <1>7, <1>p, <2>1 DEF AllSorted
<1>9. InOrder'
  <2>1. prev_cl \in Nat /\ prev_cl <= cl /\ counts \in [Lengths -> Nat] /\ i < n_symbols
        /\ \A l \in prev_cl + 1..MaxLen : counts[l] = CountOf(l)
    BY <1>1, <1>2 DEF InOrder
  <2>2. \A l \in cl + 1..MaxLen : counts'[l] = CountOf(l)'
    BY <1>2, <1>6, <1>p, <2>1
  <2>3. Total(prev_cl)' = Total(cl)' /\ CountOf(prev_cl)' = CountOf(cl)'
    BY <1>6 DEF Total, CountOf, CodesUpTo, CodesOf
  <2>4. counts'[cl] <= CountOf(cl)' /\ i' = Total(cl)' - counts'[cl]
        /\ code' = (2^cl - Unused[cl]) - counts'[cl]
    BY <1>2, <1>6, <1>p
  <2> QED BY <1>2, <1>6, <1>7, <1>p, <2>1, <2>2, <2>3, <2>4 DEF InOrder
<1>10. Room'
  BY <1>1, <1>6 DEF Room
<1>11. Keyed'
  <2>1. ASSUME cl > Primary, prev_redirect_key # SecondLevel(NextCode(cl), cl)
        PROVE  Aligned(NextCode(cl), cl)
    <3>1. code \in Nat
      <4>1. prev_cl \in 1..MaxLen /\ counts[prev_cl] \in Nat /\ counts[prev_cl] <= CountOf(prev_cl)
            /\ code = (2^prev_cl - Unused[prev_cl]) - counts[prev_cl]
        BY <1>1, Sizes DEF InOrder, Lengths
      <4> QED BY <1>1, <4>1, CodeBounds
    <3>2. prev_cl > Primary =>
            Aligned(code, prev_cl) \/ (code >= 1 /\ prev_redirect_key = SecondLevel(code - 1, prev_cl))
      BY <1>1 DEF Keyed
    <3>3. prev_cl \in 1..MaxLen
      BY <1>1 DEF InOrder
    <3>4. Primary < cl
      BY <1>2, <2>1, Sizes
    <3>5. NextCode(cl) = IF cl > prev_cl THEN code * 2^(cl - prev_cl) ELSE code
      BY DEF NextCode
    <3> HIDE DEF NextCode
    <3> QED BY <1>2, <2>1, <3>1, <3>2, <3>3, <3>4, <3>5, NewTableAligned
  <2>2. pc' = "redirect" => prev_cl' > Primary /\ Aligned(code, prev_cl)'
    <3>1. ASSUME pc' = "redirect" PROVE prev_cl' > Primary /\ Aligned(code, prev_cl)'
      <4>1. cl > Primary /\ prev_redirect_key # SecondLevel(NextCode(cl), cl)
        BY <1>6, <3>1
      <4>2. Aligned(NextCode(cl), cl)
        BY <2>1, <4>1
      <4> QED BY <1>6, <4>1, <4>2 DEF Aligned
    <3> QED BY <3>1
  <2>3. pc' = "put" /\ prev_cl' > Primary => prev_redirect_key' = SecondLevel(code, prev_cl)'
    BY <1>6 DEF SecondLevel
  <2>4. pc' # "code"
    BY <1>6
  <2> QED BY <2>2, <2>3, <2>4 DEF Keyed
<1>12. LengthOf(symbols[i])' = prev_cl'
  BY <1>5, <1>6, <1>7 DEF LengthOf, setup
<1>13. Consistent'
  BY <1>1, <1>6 DEF Consistent
<1>14. pc' \in {"redirect", "put"}
  BY <1>6
<1> QED BY <1>p, <1>8, <1>9, <1>10, <1>11, <1>12, <1>13, <1>14 DEF Inv, Inserting

(* A new second level table needs no more codes than there are left, so    *)
(* that some length completes it.                                          *)
LEMMA TableCompletes ==
  ASSUME SetupOK, Kraft(Unused), InOrder, prev_cl > Primary, Aligned(code, prev_cl), code < 2^prev_cl
  PROVE  /\ MaxLen \in LastLength(prev_cl)
         /\ Min(LastLength(prev_cl)) \in LastLength(prev_cl)
         /\ Min(LastLength(prev_cl)) \in prev_cl..MaxLen
<1> DEFINE L == prev_cl
           r == Left(L)
           T == {j \in Nat : r[j] \in Int /\ r[j] <= Unused[j] + counts[j]}
<1>0. /\ L \in Primary + 1..MaxLen /\ L \in 1..MaxLen /\ L \in Nat /\ L \in Lengths
      /\ counts \in [Lengths -> Nat] /\ counts \in [Lengths -> Int] /\ counts[L] \in Nat
      /\ \A l \in L + 1..MaxLen : counts[l] = CountOf(l)
      /\ code = (2^L - Unused[L]) - counts[L]
  BY Sizes DEF InOrder, Lengths
<1>1. r[L] = 2^(L - Primary) /\ \A j \in L + 1..MaxLen + 1 : r[j] = 2 * (r[j - 1] - counts[j - 1])
  BY <1>0, LeftStep
<1> HIDE DEF r
<1>2. L \in T
  <2> DEFINE e == 2^(L - Primary)
             p == 2^Primary
             y == 2^L
  <2>1. PICK q \in Nat : code = q * e
    BY DEF Aligned
  <2>2. L - Primary \in 0..MaxLen + 1 /\ L \in 0..MaxLen + 1 /\ Primary \in Nat /\ Primary <= L
    BY <1>0, Sizes
  <2>3. y = p * e /\ e \in Nat /\ p \in Nat /\ y \in Nat
    BY <2>2, PowSplit
  <2>4. Unused[L] \in Nat
    BY <1>0, KraftType
  <2>5. code < y
    OBVIOUS
  <2>6. r[L] = e /\ code = (y - Unused[L]) - counts[L]
    BY <1>0, <1>1
  <2> HIDE DEF e, p, y
  <2>7. q + 1 <= p
    <3>1. ASSUME p <= q PROVE FALSE
      <4>1. p * e <= q * e
        BY <2>3, <3>1, MulMono
      <4>2. q * e \in Nat /\ p * e \in Nat
        BY <2>3
      <4> QED BY <2>1, <2>3, <2>5, <4>1, <4>2
    <3> QED BY <2>3, <3>1
  <2>8. (q + 1) * e <= p * e
    BY <2>3, <2>7, MulMono
  <2>9. q * e + e = (q + 1) * e
    BY <2>3, MulNext
  <2>10. code \in Int /\ code + e <= y
    BY <2>1, <2>3, <2>8, <2>9
  <2>11. r[L] \in Int /\ r[L] <= Unused[L] + counts[L]
    BY <1>0, <2>3, <2>4, <2>6, <2>10
  <2> QED BY <1>0, <2>11
<1>3. ASSUME NEW j \in L..MaxLen - 1, j \in T PROVE j + 1 \in T
  <2>1. /\ j + 1 \in L + 1..MaxLen + 1 /\ j + 1 \in L + 1..MaxLen /\ (j + 1) - 1 = j
        /\ j + 1 \in 1..MaxLen /\ j \in Lengths /\ j + 1 \in Lengths
    BY <1>0, Sizes DEF Lengths
  <2>2. r[j + 1] = 2 * (r[j] - counts[j])
    BY <1>1, <2>1
  <2>3. Unused[j + 1] = 2 * Unused[j] - CountOf(j + 1)
    BY <2>1 DEF Kraft
  <2>4. counts[j + 1] = CountOf(j + 1)
    BY <1>0, <2>1
  <2>5. Unused[j] \in Nat /\ Unused[j + 1] \in Nat /\ counts[j] \in Nat /\ counts[j + 1] \in Nat
    BY <1>0, <2>1, KraftType
  <2>6. r[j] \in Int /\ r[j] <= Unused[j] + counts[j]
    BY <1>3
  <2>7. r[j + 1] \in Int /\ r[j + 1] <= Unused[j + 1] + counts[j + 1]
    BY <2>2, <2>3, <2>4, <2>5, <2>6
  <2> QED BY <2>1, <2>7, Sizes DEF Lengths
<1>4. L..MaxLen \subseteq T
  <2> HIDE DEF T
  <2>1. L \in Int /\ MaxLen \in Int
    BY <1>0, Sizes
  <2> QED BY <1>2, <1>3, <2>1, IntervalInduction
<1>5. MaxLen \in LastLength(L)
  <2>1. MaxLen \in L..MaxLen
    BY <1>0, Sizes
  <2>2. r[MaxLen] \in Int /\ r[MaxLen] <= Unused[MaxLen] + counts[MaxLen]
    BY <1>4, <2>1
  <2>3. Unused[MaxLen] = 0 /\ counts[MaxLen] \in Nat
    BY <1>0, Sizes DEF Kraft, Lengths
  <2>4. r[MaxLen] <= counts[MaxLen]
    BY <2>2, <2>3
  <2> QED BY <2>1, <2>4 DEF LastLength, r
<1>6. LastLength(L) \subseteq Nat /\ LastLength(L) \subseteq L..MaxLen
  BY <1>0, Sizes DEF LastLength
<1>7. \E x \in LastLength(L) : \A y \in LastLength(L) : x <= y
  BY <1>5, <1>6, LeastElement
<1>8. Min(LastLength(L)) \in LastLength(L)
  BY <1>7 DEF Min
<1> QED BY <1>5, <1>6, <1>8

LEMMA RedirectInv == Inv /\ Redirect => Inv'
<1> SUFFICES ASSUME Inv, Redirect PROVE Inv'
  OBVIOUS
<1>1. /\ pc = "redirect" /\ SetupOK /\ Consistent /\ Kraft(Unused)
      /\ AllSorted /\ InOrder /\ Room /\ Keyed /\ LengthOf(symbols[i]) = prev_cl
  BY DEF Redirect, Inv, Inserting
<1>2. prev_cl > Primary /\ Aligned(code, prev_cl)
  BY <1>1 DEF Keyed
<1>3. code < 2^prev_cl
  <2>1. NextCode(prev_cl) < 2^prev_cl
    BY <1>1, NextSymbol
  <2>2. NextCode(prev_cl) = code
    <3>1. prev_cl \in Nat
      BY <1>1 DEF InOrder
    <3> QED BY <3>1 DEF NextCode
  <2> QED BY <2>1, <2>2
<1> DEFINE last == Min(LastLength(prev_cl))
           bits == last - Primary
           key == SecondLevel(code, prev_cl)
<1>4. MaxLen \in LastLength(prev_cl) /\ last \in prev_cl..MaxLen
  BY <1>1, <1>2, <1>3, TableCompletes
<1>5. bits \in 0..MaxLen + 1 /\ 2^bits \in Nat
  <2>1. bits \in 0..MaxLen + 1
    <3>1. prev_cl \in Nat
      BY <1>1 DEF InOrder
    <3> QED BY <1>2, <1>4, <3>1, Sizes
  <2> QED BY <2>1, PowType
<1>6. CASE next_top + 2^bits > TableSize
  <2>1. Fail("no_room")
    BY <1>4, <1>6 DEF Redirect
  <2> QED BY <2>1, FailInv
<1>7. CASE ~(next_top + 2^bits > TableSize)
  <2>1. /\ prev_redirect_key' = key
        /\ initial_high_bits' = 2^bits
        /\ top' = next_top
        /\ next_top' = next_top + 2^bits
        /\ pc' = "put"
        /\ UNCHANGED <<status, setup, counts, sorted, i, prev_cl, code>>
    BY <1>4, <1>7 DEF Redirect, NextTop
  <2>2. UNCHANGED <<symbols, n_symbols>>
    BY <2>1 DEF sorted
  <2>p. /\ SetupOK' /\ \A l : CountOf(l)' = CountOf(l) /\ Total(l)' = Total(l)
        /\ Kraft(Unused)' /\ Unused' = Unused
    BY <1>1, <2>1, SetupSame, UnusedSame
  <2>3. AllSorted'
    <3>1. \A j : Sorted(j)' <=> Sorted(j)
      BY <2>1, <2>2, SortedSame
    <3> QED BY <1>1, <2>2, <2>p, <3>1 DEF AllSorted
  <2>4. InOrder'
    <3>1. Total(prev_cl)' = Total(prev_cl) /\ CountOf(prev_cl)' = CountOf(prev_cl)
      BY <2>1 DEF Total, CountOf, CodesUpTo, CodesOf, Codes0, setup
    <3> QED BY <1>1, <2>1, <2>2, <2>p, <3>1 DEF InOrder
  <2>5. Room'
    <3>1. next_top \in Nat /\ ~(next_top + 2^bits > TableSize) /\ TableSize \in Nat
      BY <1>1, <1>7, Sizes DEF Room
    <3> DEFINE z == 2^bits
    <3>2. z \in Nat /\ initial_high_bits' = z /\ top' = next_top /\ next_top' = next_top + z
          /\ ~(next_top + z > TableSize)
      BY <1>5, <2>1, <3>1
    <3> HIDE DEF z
    <3> QED BY <3>1, <3>2 DEF Room
  <2>6. Keyed'
    BY <2>1 DEF Keyed, SecondLevel
  <2>7. LengthOf(symbols[i])' = prev_cl'
    BY <1>1, <2>1, <2>2 DEF LengthOf, setup
  <2>8. Consistent'
    BY <1>1, <2>1 DEF Consistent
  <2> QED BY <2>1, <2>p, <2>3, <2>4, <2>5, <2>6, <2>7, <2>8 DEF Inv, Inserting
<1> QED BY <1>6, <1>7

-----------------------------------------------------------------------------
(* Reversal: what its recursive function satisfies.                        *)
Bit(v, n) == (v \div 2^n) % 2
ReversalOf(r, v, w) ==
  r = [n \in 0..w |-> IF n = 0 THEN 0 ELSE 2 * r[n - 1] + ((v \div 2^(n - 1)) % 2)]

LEMMA BitType ==
  ASSUME NEW v \in Nat, NEW n \in 0..MaxLen
  PROVE  Bit(v, n) \in 0..1
<1> DEFINE d == 2^n
<1>1. d \in Nat /\ 1 <= d
  BY PowType, Sizes
<1> HIDE DEF d
<1>2. v \div d \in Nat
  BY <1>1, DivFacts
<1> DEFINE q == v \div d
<1>3. q \in Nat
  BY <1>2
<1> HIDE DEF q
<1>4. q % 2 \in 0..1
  BY <1>3
<1> QED BY <1>4 DEF q, d, Bit

LEMMA ReversalExists ==
  ASSUME NEW v \in Nat, NEW w \in 0..MaxLen
  PROVE  \E r : ReversalOf(r, v, w)
<1> DEFINE d == [n \in 0..w |-> IF n = 0 THEN 0 ELSE Bit(v, n - 1)]
<1>0. w \in Nat /\ w <= MaxLen /\ \A n \in 0..w : n # 0 => n - 1 \in 0..MaxLen
  BY Sizes
<1>1. \A n \in 0..w : n # 0 => Bit(v, n - 1) \in Int
  BY <1>0, BitType
<1>2. d \in [0..w -> Int]
  BY <1>1
<1>3. PICK g : Doubles(g, 0, w, 0, d)
  <2> HIDE DEF d
  <2>1. 0 \in Int /\ w \in Int /\ 0 <= w
    BY <1>0
  <2> QED BY <1>2, <2>1, Doubling
<1>4. /\ g \in [0..w -> Int] /\ g[0] = 0
      /\ \A j \in 0 + 1..w : g[j] = 2 * g[j - 1] + d[j]
  BY <1>3 DEF Doubles
<1>5. ASSUME NEW n \in 0..w, n # 0 PROVE g[n] = 2 * g[n - 1] + ((v \div 2^(n - 1)) % 2)
  <2>1. n \in 0 + 1..w
    BY <1>0, <1>5
  <2>2. g[n] = 2 * g[n - 1] + d[n]
    BY <1>4, <2>1
  <2>3. d[n] = Bit(v, n - 1)
    BY <1>5
  <2> QED BY <2>2, <2>3 DEF Bit
<1>6. g = [n \in 0..w |-> IF n = 0 THEN 0 ELSE 2 * g[n - 1] + ((v \div 2^(n - 1)) % 2)]
  BY <1>4, <1>5
<1>7. ReversalOf(g, v, w)
  BY <1>6 DEF ReversalOf
<1> QED BY <1>7

LEMMA ReversalPlain ==
  ASSUME NEW v \in Nat, NEW w \in 0..MaxLen, NEW r, ReversalOf(r, v, w)
  PROVE  r[0] = 0 /\ \A n \in 1..w : r[n] = 2 * r[n - 1] + Bit(v, n - 1)
<1>1. r = [n \in 0..w |-> IF n = 0 THEN 0 ELSE 2 * r[n - 1] + ((v \div 2^(n - 1)) % 2)]
  BY DEF ReversalOf
<1>2. 0 \in 0..w
  OBVIOUS
<1>3. r[0] = 0
  BY <1>1, <1>2
<1>4. ASSUME NEW n \in 1..w PROVE r[n] = 2 * r[n - 1] + Bit(v, n - 1)
  <2>1. n \in 0..w /\ n # 0
    OBVIOUS
  <2> QED BY <1>1, <2>1 DEF Bit
<1> QED BY <1>3, <1>4

(* Two solutions agree where both are defined.                             *)
LEMMA ReversalUnique ==
  ASSUME NEW v \in Nat, NEW w \in 0..MaxLen, NEW u \in 0..w,
         NEW r, ReversalOf(r, v, w), NEW s, ReversalOf(s, v, u)
  PROVE  r[u] = s[u]
<1> DEFINE T == {n \in Nat : r[n] = s[n]}
<1>0. u \in 0..MaxLen /\ u \in Nat
  BY Sizes
<1>1. r[0] = 0 /\ \A n \in 1..w : r[n] = 2 * r[n - 1] + Bit(v, n - 1)
  BY ReversalPlain
<1>2. s[0] = 0 /\ \A n \in 1..u : s[n] = 2 * s[n - 1] + Bit(v, n - 1)
  BY <1>0, ReversalPlain
<1>3. 0 \in T
  BY <1>1, <1>2
<1>4. ASSUME NEW n \in 0..u - 1, n \in T PROVE n + 1 \in T
  <2>1. n + 1 \in 1..u /\ n + 1 \in 1..w /\ (n + 1) - 1 = n /\ n + 1 \in Nat
    BY <1>0
  <2>2. r[n + 1] = 2 * r[n] + Bit(v, n) /\ s[n + 1] = 2 * s[n] + Bit(v, n)
    BY <1>1, <1>2, <2>1
  <2> QED BY <1>4, <2>1, <2>2
<1>5. 0..u \subseteq T
  <2> HIDE DEF T
  <2>1. 0 \in Int /\ u \in Int
    BY <1>0
  <2> QED BY <1>3, <1>4, <2>1, IntervalInduction
<1> QED BY <1>0, <1>5

LEMMA ReversedStep ==
  ASSUME NEW v \in Nat
  PROVE  /\ Reversed(v, 0) = 0
         /\ \A w \in 1..MaxLen : Reversed(v, w) = 2 * Reversed(v, w - 1) + Bit(v, w - 1)
<1> DEFINE R(w) == CHOOSE r : ReversalOf(r, v, w)
<1>1. \A w : Reversed(v, w) = R(w)[w]
  BY DEF Reversed, ReversalOf
<1>2. \A w \in 0..MaxLen : ReversalOf(R(w), v, w)
  BY ReversalExists
<1> HIDE DEF R
<1>3. Reversed(v, 0) = 0
  <2>1. 0 \in 0..MaxLen
    BY Sizes
  <2> QED BY <1>1, <1>2, <2>1, ReversalPlain
<1>4. ASSUME NEW w \in 1..MaxLen PROVE Reversed(v, w) = 2 * Reversed(v, w - 1) + Bit(v, w - 1)
  <2>1. w \in 0..MaxLen /\ w - 1 \in 0..MaxLen /\ w - 1 \in 0..w /\ w \in 1..w
    BY Sizes
  <2>2. R(w)[w] = 2 * R(w)[w - 1] + Bit(v, w - 1)
    BY <1>2, <2>1, ReversalPlain
  <2>3. R(w)[w - 1] = R(w - 1)[w - 1]
    BY <1>2, <2>1, ReversalUnique
  <2> QED BY <1>1, <2>2, <2>3
<1> QED BY <1>3, <1>4

LEMMA ReversedType ==
  ASSUME NEW v \in Nat, NEW w \in 0..MaxLen
  PROVE  Reversed(v, w) \in Nat /\ Reversed(v, w) < 2^w
<1> DEFINE T == {n \in Nat : Reversed(v, n) \in Nat /\ Reversed(v, n) < 2^n}
<1>1. 0 \in T
  <2>1. Reversed(v, 0) = 0 /\ 2^0 = 1
    BY ReversedStep
  <2> QED BY <2>1
<1>2. ASSUME NEW n \in 0..MaxLen - 1, n \in T PROVE n + 1 \in T
  <2>1. n + 1 \in 1..MaxLen /\ (n + 1) - 1 = n /\ n \in 0..MaxLen /\ n + 1 \in Nat
        /\ n \in 0..MaxLen + 1
    BY Sizes
  <2>2. Reversed(v, n + 1) = 2 * Reversed(v, n) + Bit(v, n)
    BY <2>1, ReversedStep
  <2>3. Bit(v, n) \in 0..1 /\ 2^(n + 1) = 2 * 2^n /\ 2^n \in Nat
    BY <2>1, BitType, PowDouble, PowType
  <2>4. Reversed(v, n) \in Nat /\ Reversed(v, n) < 2^n
    BY <1>2
  <2>5. Reversed(v, n + 1) \in Nat /\ Reversed(v, n + 1) < 2^(n + 1)
    BY <2>2, <2>3, <2>4
  <2> QED BY <2>1, <2>5
<1>3. 0..MaxLen \subseteq T
  <2> HIDE DEF T
  <2>1. 0 \in Int /\ MaxLen \in Int
    BY Sizes
  <2> QED BY <1>1, <1>2, <2>1, IntervalInduction
<1> QED BY <1>3

-----------------------------------------------------------------------------
(* What Put inserts: the bits of the code that select in the current table. *)
PutLength == IF prev_cl > Primary THEN prev_cl - Primary ELSE prev_cl
PutKey == IF prev_cl > Primary THEN code % 2^PutLength ELSE code

LEMMA PutFacts ==
  ASSUME SetupOK, Kraft(Unused), AllSorted, InOrder, LengthOf(symbols[i]) = prev_cl
  PROVE  /\ prev_cl \in 1..MaxLen /\ code \in Nat /\ code < 2^prev_cl
         /\ 1 <= counts[prev_cl] /\ counts[prev_cl] \in Nat
         /\ counts[prev_cl] <= CountOf(prev_cl)
         /\ i \in Nat /\ i < n_symbols /\ n_symbols <= NCodes
         /\ symbols[i] \in 0..(NCodes - 1) - n_codes0
         /\ PutLength \in 1..Primary
         /\ PutKey \in Nat /\ PutKey < 2^PutLength /\ PutKey < 2^Primary
<1>1. prev_cl \in 1..MaxLen /\ prev_cl \in Lengths /\ prev_cl \in Nat
  BY Sizes DEF InOrder, Lengths
<1>2. NextCode(prev_cl) = code
  BY <1>1 DEF NextCode
<1>3. code \in Nat /\ code < 2^prev_cl /\ 1 <= counts[prev_cl]
      /\ i \in 0..n_symbols - 1 /\ n_symbols <= NCodes /\ counts[prev_cl] <= CountOf(prev_cl)
      /\ symbols[i] \in 0..(NCodes - 1) - n_codes0
  BY <1>2, NextSymbol
<1>4. PutLength \in 1..Primary /\ PutLength \in Nat /\ PutLength \in 0..MaxLen + 1
      /\ Primary \in 0..MaxLen + 1
  BY <1>1, Sizes DEF PutLength
<1> DEFINE d == 2^PutLength
<1>5. d \in Nat /\ 1 <= d /\ d <= 2^Primary /\ 2^Primary \in Nat
  BY <1>4, PowType, PowMono
<1>6. PutKey \in Nat /\ PutKey < d
  <2>1. CASE prev_cl > Primary
    <3>1. PutKey = code % d
      BY <2>1 DEF PutKey
    <3> HIDE DEF d
    <3> QED BY <1>3, <1>5, <3>1, DivFacts
  <2>2. CASE ~(prev_cl > Primary)
    <3>1. PutKey = code /\ PutLength = prev_cl
      BY <2>2 DEF PutKey, PutLength
    <3> QED BY <1>3, <3>1
  <2> QED BY <2>1, <2>2
<1>7. PutKey < 2^Primary
  <2> HIDE DEF d
  <2> QED BY <1>5, <1>6
<1>8. i \in Nat /\ i < n_symbols /\ counts[prev_cl] \in Nat
  <2>1. counts \in [Lengths -> Nat] /\ i < n_symbols
    BY DEF InOrder
  <2> QED BY <1>1, <1>3, <2>1
<1> QED BY <1>1, <1>3, <1>4, <1>6, <1>7, <1>8

(* The reversed key, shifted down to its own bits.                         *)
LEMMA ShiftedKey ==
  ASSUME NEW key \in Nat, NEW cl \in 1..Primary
  PROVE  /\ Reverse(key) \div 2^(Primary - cl) \in Nat
         /\ Reverse(key) \div 2^(Primary - cl) < 2^cl
         /\ Reverse(key) \in Nat /\ Reverse(key) < 2^Primary
<1> DEFINE x == Reverse(key)
           d == 2^(Primary - cl)
           e == 2^cl
           p == 2^Primary
           q == x \div d
<1>1. cl \in Nat /\ Primary \in 0..MaxLen + 1 /\ cl <= Primary
  BY Sizes
<1>2. p = e * d /\ d \in Nat /\ 1 <= d /\ e \in Nat /\ p \in Nat
  BY <1>1, PowSplit
<1>3. x \in Nat /\ x < p
  BY ReversedType, Sizes DEF Reverse
<1> HIDE DEF x, d, e, p
<1>4. q \in Nat /\ q * d \in Nat /\ q * d <= x
  BY <1>2, <1>3, DivFacts
<1> HIDE DEF q
<1>5. ASSUME e <= q PROVE FALSE
  <2>1. e * d <= q * d
    BY <1>2, <1>4, <1>5, MulMono
  <2> QED BY <1>2, <1>3, <1>4, <2>1
<1>6. q < e
  BY <1>2, <1>4, <1>5
<1> QED BY <1>3, <1>4, <1>6 DEF q, x, d, e, p

LEMMA SlotsInTable ==
  ASSUME Room, NEW key \in Nat, NEW cl \in 1..Primary
  PROVE  SlotsOfKey(key, cl) \subseteq Slots
<1> DEFINE e == 2^cl
           p == 2^Primary
           z == Reverse(key) \div 2^(Primary - cl)
           b == initial_high_bits
<1>1. e \in Nat /\ 1 <= e /\ p \in Nat /\ 1 <= p /\ p <= TableSize
  BY PowType, Sizes
<1>2. z \in Nat /\ z < e
  BY ShiftedKey
<1>3. b \in Nat /\ top \in Nat /\ next_top \in Nat /\ next_top <= TableSize
      /\ (top = 0 \/ top + b = next_top)
  BY DEF Room
<1> HIDE DEF e, p, z
<1>4. ASSUME NEW h \in 0..(b \div e) - 1
      PROVE  top + ((h * e + z) % p) \in Slots
  <2> DEFINE q == b \div e
             x == h * e + z
  <2>1. q \in Nat /\ q * e \in Nat /\ q * e <= b
    BY <1>1, <1>3, DivFacts
  <2> HIDE DEF q
  <2>2. h \in Nat /\ h + 1 <= q
    BY <2>1, <1>4 DEF q
  <2>3. (h + 1) * e <= q * e /\ h * e \in Int /\ h * e + e = (h + 1) * e
    BY <1>1, <2>1, <2>2, MulMono, MulNext
  <2>4. x \in Nat /\ x < b
    <3>1. h * e \in Nat
      BY <1>1, <2>2
    <3> QED BY <1>1, <1>2, <1>3, <2>1, <2>3, <3>1
  <2> HIDE DEF x
  <2> DEFINE m == x % p
  <2>5. m \in Nat /\ m < p /\ m <= x
    <3>1. x % p \in Nat /\ x % p < p /\ x = (x \div p) * p + (x % p) /\ (x \div p) * p \in Nat
      BY <1>1, <2>4, DivFacts
    <3> QED BY <2>4, <3>1
  <2> HIDE DEF m
  <2>6. top + m \in Nat /\ top + m < TableSize
    BY <1>1, <1>3, <2>4, <2>5, Sizes
  <2>7. top + m \in Slots
    BY <2>6, Sizes DEF Slots
  <2> QED BY <2>7 DEF m, x
<1> QED BY <1>4 DEF SlotsOfKey, e, p, z

LEMMA PutStep ==
  ASSUME Inv, Put
  PROVE  /\ counts' = [counts EXCEPT ![prev_cl] = @ - 1]
         /\ huffs' = [s \in Slots |-> IF s \in SlotsOfKey(PutKey, PutLength)
                                      THEN SymbolEntry(symbols[i], PutLength) ELSE huffs[s]]
         /\ i' = i + 1
         /\ IF i + 1 >= n_symbols THEN pc' = "done" /\ status' = "ok" /\ UNCHANGED code
            ELSE pc' = "code" /\ code' = code + 1 /\ UNCHANGED status
         /\ UNCHANGED <<setup, sorted, max_cl, n_huffs_bits, prev_cl,
                        prev_redirect_key, top, next_top, initial_high_bits>>
<1>1. /\ pc = "put" /\ SetupOK /\ Kraft(Unused)
      /\ AllSorted /\ InOrder /\ Room /\ LengthOf(symbols[i]) = prev_cl
  BY DEF Put, Inv, Inserting
<1>2. /\ prev_cl \in 1..MaxLen /\ code \in Nat /\ code < 2^prev_cl
      /\ 1 <= counts[prev_cl] /\ counts[prev_cl] \in Nat
      /\ counts[prev_cl] <= CountOf(prev_cl)
      /\ i \in Nat /\ i < n_symbols /\ n_symbols <= NCodes
      /\ PutLength \in 1..Primary
      /\ PutKey \in Nat /\ PutKey < 2^PutLength /\ PutKey < 2^Primary
  BY <1>1, PutFacts
<1>3. SlotsOfKey(PutKey, PutLength) \subseteq Slots
  BY <1>1, <1>2, SlotsInTable
<1>4. 2^Primary \in Nat
  BY PowType, Sizes
<1>5. ~(PutKey >= 2^Primary \/ counts[prev_cl] <= 0 \/ ~(SlotsOfKey(PutKey, PutLength) \subseteq Slots))
  BY <1>2, <1>3, <1>4
<1>6. ASSUME i + 1 < n_symbols PROVE ~(code + 1 >= 2^MaxLen)
  <2> DEFINE L == prev_cl
             x == 2^L
             y == 2^MaxLen
  <2>1. L \in Nat /\ L <= MaxLen /\ L \in 0..MaxLen + 1 /\ MaxLen \in 0..MaxLen + 1
    BY <1>2, Sizes
  <2>2. x \in Nat /\ y \in Nat /\ 1 <= x /\ x <= y
    BY <2>1, PowType, PowMono
  <2>3. CASE L < MaxLen
    <3>1. 2 * x <= y
      BY <2>1, <2>3, PowStrict
    <3>2. code < x
      BY <1>2
    <3> HIDE DEF x, y
    <3>3. ~(code + 1 >= y)
      BY <1>2, <2>2, <3>1, <3>2
    <3> QED BY <3>3 DEF y
  <2>4. CASE L = MaxLen
    <3>1. i = Total(L) - counts[L] /\ n_symbols = Total(L)
          /\ code = (2^L - Unused[L]) - counts[L]
      BY <1>1, <2>4 DEF InOrder, AllSorted
    <3>2. Total(L) \in Nat
      BY <1>1, CountType
    <3> DEFINE c == counts[L]
    <3>3. c \in Nat /\ c - 1 \in Nat /\ 1 <= c - 1 /\ c - 1 <= CountOf(L)
      <4>1. CountOf(L) \in Nat
        BY <1>1, CountType
      <4> QED BY <1>2, <1>6, <3>1, <3>2, <4>1
    <3>4. (2^L - Unused[L]) - (c - 1) < 2^L /\ 2^L \in Nat /\ Unused[L] \in Nat
      BY <1>1, <1>2, <3>3, CodeBounds
    <3>5. code + 1 < 2^L
      BY <3>1, <3>3, <3>4
    <3> QED BY <1>2, <2>2, <2>4, <3>5
  <2> QED BY <2>1, <2>3, <2>4
<1>7. n_symbols \in Nat
  BY <1>1, CountType DEF AllSorted
<1>8. ~(i + 1 >= n_symbols) => ~(code + 1 >= 2^MaxLen)
  BY <1>2, <1>6, <1>7
<1> QED BY <1>5, <1>8 DEF Put, PutKey, PutLength

LEMMA PutInv == Inv /\ Put => Inv'
<1> SUFFICES ASSUME Inv, Put PROVE Inv'
  OBVIOUS
<1>1. /\ pc = "put" /\ SetupOK /\ Consistent /\ Kraft(Unused)
      /\ AllSorted /\ InOrder /\ Room /\ Keyed /\ LengthOf(symbols[i]) = prev_cl
  BY DEF Put, Inv, Inserting
<1>2. /\ prev_cl \in 1..MaxLen /\ code \in Nat
      /\ 1 <= counts[prev_cl] /\ counts[prev_cl] \in Nat
      /\ counts[prev_cl] <= CountOf(prev_cl)
      /\ i \in Nat /\ i < n_symbols
  BY <1>1, PutFacts
<1>3. /\ counts' = [counts EXCEPT ![prev_cl] = @ - 1]
      /\ i' = i + 1
      /\ IF i + 1 >= n_symbols THEN pc' = "done" /\ status' = "ok" /\ UNCHANGED code
         ELSE pc' = "code" /\ code' = code + 1 /\ UNCHANGED status
      /\ UNCHANGED <<setup, sorted, prev_cl, prev_redirect_key, top, next_top, initial_high_bits>>
  BY PutStep
<1>p. /\ SetupOK' /\ \A l : CountOf(l)' = CountOf(l) /\ Total(l)' = Total(l)
      /\ Kraft(Unused)' /\ Unused' = Unused
  BY <1>1, <1>3, SetupSame, UnusedSame
<1>4. CASE i + 1 >= n_symbols
  <2>1. pc' = "done" /\ status' = "ok"
    BY <1>3, <1>4
  <2> QED BY <1>p, <2>1 DEF Inv, Consistent
<1>5. CASE ~(i + 1 >= n_symbols)
  <2>1. pc' = "code" /\ code' = code + 1 /\ UNCHANGED status
    BY <1>3, <1>5
  <2>2. UNCHANGED <<symbols, n_symbols>>
    BY <1>3 DEF sorted
  <2>3. AllSorted'
    <3>1. \A j : Sorted(j)' <=> Sorted(j)
      BY <1>3, <2>2, SortedSame
    <3> QED BY <1>1, <2>2, <1>p, <3>1 DEF AllSorted
  <2>4. InOrder'
    <3>1. PICK L : L = prev_cl
      OBVIOUS
    <3>2. PICK c : c = counts[L]
      OBVIOUS
    <3>t. Total(L) \in Nat /\ CountOf(L) \in Nat /\ n_symbols \in Nat
      BY <1>1, CountType DEF AllSorted
    <3>3. /\ L \in 1..MaxLen /\ L \in Lengths /\ c \in Nat /\ 1 <= c /\ c <= CountOf(L)
          /\ counts \in [Lengths -> Nat]
          /\ \A l \in L + 1..MaxLen : counts[l] = CountOf(l)
          /\ i = Total(L) - c /\ code = (2^L - Unused[L]) - c
      BY <1>1, <1>2, <3>1, <3>2, Sizes DEF InOrder, Lengths
    <3>4. counts' = [counts EXCEPT ![L] = c - 1] /\ prev_cl' = L
      BY <1>3, <3>1, <3>2, <3>3
    <3>5. counts' \in [Lengths -> Nat] /\ counts'[L] = c - 1
          /\ \A l \in L + 1..MaxLen : counts'[l] = CountOf(l)'
      <4>1. \A l \in L + 1..MaxLen : l \in Lengths /\ l # L
        BY <3>3, Sizes DEF Lengths
      <4> QED BY <1>p, <3>3, <3>4, <4>1
    <3>6. Total(prev_cl)' = Total(L) /\ CountOf(prev_cl)' = CountOf(L)
      BY <1>3, <3>4 DEF Total, CountOf, CodesUpTo, CodesOf, Codes0, setup
    <3>7. i' = Total(L) - (c - 1) /\ i' < n_symbols'
      <4>1. i = Total(L) - c /\ c \in Nat
        BY <3>3
      <4>2. i' = i + 1 /\ ~(i + 1 >= n_symbols) /\ n_symbols' = n_symbols
        BY <1>3, <1>5, <2>2
      <4> QED BY <1>2, <3>t, <4>1, <4>2
    <3>8. code' = (2^L - Unused[L]) - (c - 1)
      <4>1. 2^L \in Nat /\ Unused[L] \in Nat
        BY <1>1, <3>3, <3>t, CodeBounds
      <4> DEFINE x == 2^L
                 u == Unused[L]
      <4>2. code = (x - u) - c /\ c \in Nat /\ x \in Nat /\ u \in Nat /\ code' = code + 1
        BY <2>1, <3>3, <4>1
      <4> HIDE DEF x, u
      <4>3. code' = (x - u) - (c - 1)
        BY <4>2
      <4> QED BY <4>3 DEF x, u
    <3>9. Unused'[prev_cl'] = Unused[L] /\ c - 1 <= CountOf(L)
      BY <1>p, <3>3, <3>4, <3>t
    <3> QED BY <3>3, <3>4, <3>5, <3>6, <3>7, <3>8, <3>9 DEF InOrder
  <2>5. Room'
    BY <1>1, <1>3 DEF Room
  <2>6. Keyed'
    <3>1. ASSUME prev_cl' > Primary
          PROVE  code' >= 1 /\ prev_redirect_key' = SecondLevel(code' - 1, prev_cl')
      <4>1. prev_redirect_key = SecondLevel(code, prev_cl)
        BY <1>1, <1>3, <3>1 DEF Keyed
      <4>2. code' - 1 = code /\ code' >= 1
        BY <1>2, <2>1
      <4> QED BY <1>3, <4>1, <4>2
    <3>2. SecondLevel(code - 1, prev_cl)' = SecondLevel(code' - 1, prev_cl')
      BY DEF SecondLevel
    <3> QED BY <2>1, <3>1, <3>2 DEF Keyed
  <2>7. Consistent'
    BY <1>1, <2>1 DEF Consistent
  <2> QED BY <2>1, <1>p, <2>3, <2>4, <2>5, <2>6, <2>7 DEF Inv, Inserting
<1> QED BY <1>4, <1>5

LEMMA StutterInv == Inv /\ UNCHANGED vars => Inv'
<1> SUFFICES ASSUME Inv, UNCHANGED vars PROVE Inv'
  OBVIOUS
<1>1. /\ UNCHANGED setup
      /\ UNCHANGED <<pc, status, counts, offsets, symbols, n_symbols, i, prev_cl,
                     prev_redirect_key, top, next_top, initial_high_bits, code, n_codes0, code_lengths>>
  BY DEF vars, setup
<1>2. /\ (SetupOK <=> SetupOK') /\ \A l : CountOf(l)' = CountOf(l) /\ Total(l)' = Total(l)
      /\ \A l, m : Seen(l, m)' = Seen(l, m)
      /\ \A s : LengthOf(s)' = LengthOf(s)
      /\ Unused' = Unused /\ (Kraft(Unused) <=> Kraft(Unused)')
      /\ \A j : Sorted(j) <=> Sorted(j)'
  BY <1>1, SetupSame, UnusedSame, SortedSame
<1>3. Counted => Counted'
  BY <1>1, <1>2 DEF Counted
<1>4. Sorting => Sorting'
  <2>1. \A l : Seen(l, i)' = Seen(l, i)
    BY <1>1 DEF Seen, SeenOf
  <2> QED BY <1>1, <1>2, <2>1 DEF Sorting
<1>5. AllSorted => AllSorted'
  BY <1>1, <1>2 DEF AllSorted
<1>6. InOrder => InOrder'
  <2>1. Total(prev_cl)' = Total(prev_cl) /\ CountOf(prev_cl)' = CountOf(prev_cl)
    BY <1>1 DEF Total, CountOf, CodesUpTo, CodesOf, Codes0
  <2> QED BY <1>1, <1>2, <2>1 DEF InOrder
<1>7. (Room => Room') /\ (Keyed => Keyed')
  BY <1>1 DEF Room, Keyed, Aligned, SecondLevel
<1>8. LengthOf(symbols[i])' = LengthOf(symbols[i])
  BY <1>1 DEF LengthOf
<1>9. Inserting => Inserting'
  BY <1>1, <1>5, <1>6, <1>7, <1>8 DEF Inserting
<1> QED BY <1>1, <1>2, <1>3, <1>4, <1>9 DEF Inv, Consistent

LEMMA NextInv == Inv /\ [Next]_vars => Inv'
BY CountInv, CoverInv, OffsetsInv, SortSymbolInv, PrepareInv, CanonicalInv, RedirectInv, PutInv,
   StutterInv DEF Next, Returned

(* The loops of init_huff agree with the code lengths at every step: the   *)
(* counts, the offsets and the symbols with how many codes there are of    *)
(* each length, and prev_cl, i and code with what is left of counts.       *)
THEOREM InductiveInvariant == Spec => []Inv
BY InitInv, NextInv, PTL DEF Spec

(* None of the tests fails that the bounds checker forces on init_huff, or *)
(* that only guard its own consistency: whatever the code lengths, what is *)
(* left of counts, i and code, offsets and symbols agree at every step, a  *)
(* complete code has a code of at most Primary bits, and every slot that a *)
(* key selects is in the table.  What is left is the size of the table:    *)
(* "no_room", which a table smaller than the source's does run into.       *)
THEOREM NoTestFails == Spec => [](status = "no_room" \/ NoInternalError)
<1>1. Inv => (status = "no_room" \/ NoInternalError)
  BY DEF Inv, Consistent, NoInternalError
<1> QED BY <1>1, InductiveInvariant, PTL

-----------------------------------------------------------------------------
(* The reference code: its intervals, length by length and in a length     *)
(* symbol by symbol.                                                       *)
Everything == 0..NCodes - 1 - n_codes0
Prefix(l, k) == {t \in InUse : LengthOf(t) < l \/ (LengthOf(t) = l /\ t < k)}

LEMMA ShareType ==
  ASSUME SetupOK
  PROVE  /\ Share \in [Everything -> Nat] /\ IsFiniteSet(Everything)
         /\ InUse \subseteq Everything /\ IsFiniteSet(InUse)
         /\ \A t \in Everything : LengthOf(t) \in Lengths /\ Share[t] = 2^(MaxLen - LengthOf(t))
         /\ \A t \in InUse : LengthOf(t) \in 1..MaxLen /\ t \in Nat
         /\ \A l, k : IsFiniteSet(Prefix(l, k)) /\ Prefix(l, k) \subseteq Everything
<1>0. n_codes0 \in Nat /\ n_codes0 <= NCodes
  BY CodesFinite
<1>1. \A t \in Everything : n_codes0 + t \in 0..NCodes - 1 /\ t \in Nat
  BY <1>0, Sizes DEF Everything
<1>2. \A t \in Everything : LengthOf(t) \in Lengths
  BY <1>1 DEF SetupOK, LengthOf
<1>3. \A l \in Lengths : MaxLen - l \in 0..MaxLen + 1
  BY Sizes DEF Lengths
<1>4. \A t \in Everything : 2^(MaxLen - LengthOf(t)) \in Nat
  BY <1>2, <1>3, PowType
<1>5. Share = [t \in Everything |-> 2^(MaxLen - LengthOf(t))]
  BY DEF Share, Everything
<1>6. Share \in [Everything -> Nat] /\ \A t \in Everything : Share[t] = 2^(MaxLen - LengthOf(t))
  BY <1>4, <1>5
<1>7. IsFiniteSet(Everything)
  <2>1. 0 \in Int /\ NCodes - 1 - n_codes0 \in Int
    BY <1>0, Sizes
  <2> QED BY <2>1, FS_Interval DEF Everything
<1>8. InUse \subseteq Everything
  BY DEF InUse, Everything
<1>9. \A t \in InUse : LengthOf(t) \in 1..MaxLen /\ t \in Nat
  <2>1. ASSUME NEW t \in InUse PROVE LengthOf(t) \in 1..MaxLen /\ t \in Nat
    <3>1. LengthOf(t) # 0 /\ LengthOf(t) \in 0..MaxLen /\ t \in Nat
      BY <1>1, <1>2, <1>8 DEF InUse, LengthOf, Lengths
    <3> QED BY <3>1, Sizes
  <2> QED BY <2>1
<1>10. \A l, k : Prefix(l, k) \in SUBSET Everything
  BY <1>8 DEF Prefix
<1> QED BY <1>2, <1>6, <1>7, <1>8, <1>9, <1>10, FS_Subset

LEMMA WeightPrefix ==
  ASSUME SetupOK, NEW l \in 1..MaxLen, NEW k \in 0..NCodes - n_codes0
  PROVE  /\ Weight(Prefix(l, k)) = Weight(Prefix(l, 0)) + Seen(l, n_codes0 + k) * 2^(MaxLen - l)
         /\ Weight(Prefix(l, k)) \in Nat /\ Weight(Prefix(l, 0)) \in Nat
         /\ Seen(l, n_codes0 + k) \in Nat
<1> DEFINE p == 2^(MaxLen - l)
           W(j) == Weight(Prefix(l, j))
           S(j) == Seen(l, n_codes0 + j)
           T == {j \in Nat : W(j) = W(0) + S(j) * p}
<1>0. n_codes0 \in Nat /\ n_codes0 <= NCodes /\ NCodes \in Nat /\ MaxLen - l \in 0..MaxLen + 1
  BY CodesFinite, Sizes
<1>1. p \in Nat
  BY <1>0, PowType
<1>w. \A j : W(j) \in Nat
  BY ShareType, SumType DEF Weight
<1>s. \A j \in 0..NCodes - n_codes0 : S(j) \in Nat
  <2>1. \A j \in 0..NCodes - n_codes0 : n_codes0 + j \in n_codes0..NCodes
    BY <1>0
  <2> QED BY <2>1, SeenType
<1>2. 0 \in T
  <2>1. n_codes0 + 0 = n_codes0
    BY <1>0
  <2>2. S(0) = 0
    BY <2>1, SeenNone
  <2> HIDE DEF p, W, S
  <2>3. W(0) = W(0) + S(0) * p
    BY <1>1, <1>w, <2>2
  <2> QED BY <2>3
<1>3. ASSUME NEW j \in 0..(NCodes - n_codes0) - 1, j \in T PROVE j + 1 \in T
  <2>1. /\ j \in Nat /\ j + 1 \in Nat /\ n_codes0 + j \in n_codes0..NCodes - 1
        /\ n_codes0 + (j + 1) = (n_codes0 + j) + 1 /\ j \in Everything
        /\ j \in 0..NCodes - n_codes0 /\ j + 1 \in 0..NCodes - n_codes0
    BY <1>0 DEF Everything
  <2>2. LengthOf(j) = code_lengths[n_codes0 + j]
    BY DEF LengthOf
  <2>3. CASE LengthOf(j) = l
    <3>1. S(j + 1) = S(j) + 1
      BY <2>1, <2>2, <2>3, SeenNext
    <3>2. j \in InUse
      <4>1. l # 0
        BY Sizes
      <4> QED BY <2>1, <2>2, <2>3, <4>1 DEF InUse, Everything
    <3>3. Prefix(l, j + 1) = Prefix(l, j) \cup {j} /\ j \notin Prefix(l, j)
      <4>1. \A t \in InUse : t < j + 1 <=> (t < j \/ t = j)
        BY <2>1, ShareType
      <4>2. j \notin Prefix(l, j)
        <5>1. l \in Nat
          OBVIOUS
        <5> QED BY <2>1, <2>3, <5>1 DEF Prefix
      <4>3. \A t \in InUse : t \in Prefix(l, j + 1) <=> t \in Prefix(l, j) \/ t = j
        BY <2>3, <3>2, <4>1 DEF Prefix
      <4>4. Prefix(l, j + 1) \subseteq InUse /\ Prefix(l, j) \subseteq InUse
        BY DEF Prefix
      <4> QED BY <3>2, <4>2, <4>3, <4>4
    <3>4. Weight(Prefix(l, j) \cup {j}) = Weight(Prefix(l, j)) + Share[j]
      <4>1. /\ Share \in [Everything -> Nat] /\ IsFiniteSet(Prefix(l, j))
            /\ Prefix(l, j) \subseteq Everything
        BY ShareType
      <4>2. SumFunctionOnSet(Share, Prefix(l, j) \cup {j}) = SumFunctionOnSet(Share, Prefix(l, j)) + Share[j]
        <5>1. j \in Everything /\ j \notin Prefix(l, j)
          BY <2>1, <3>3
        <5> DEFINE A == Prefix(l, j)
                   f == Share
        <5>2. f \in [Everything -> Nat] /\ IsFiniteSet(A) /\ A \subseteq Everything /\ j \notin A
          BY <4>1, <5>1
        <5> HIDE DEF A, f
        <5>3. SumFunctionOnSet(f, A \cup {j}) = SumFunctionOnSet(f, A) + f[j]
          BY <5>1, <5>2, SumAdd
        <5> QED BY <5>3 DEF A, f
      <4> QED BY <4>2 DEF Weight
    <3>5. Share[j] = p
      BY <2>1, <2>3, ShareType
    <3>6. W(j + 1) = W(j) + p
      BY <3>3, <3>4, <3>5
    <3>7. W(j) = W(0) + S(j) * p
      BY <1>3
    <3>8. W(j) \in Nat /\ W(0) \in Nat /\ S(j) \in Nat
      BY <1>w, <1>s, <2>1
    <3> DEFINE a == S(j)
    <3>9. a * p + p = (a + 1) * p
      <4> HIDE DEF a, p
      <4> QED BY <1>1, <3>8, MulNext DEF a
    <3>10. W(j + 1) = W(0) + S(j + 1) * p
      <4> HIDE DEF p, W, S
      <4>1. a * p \in Nat
        BY <1>1, <3>8
      <4> QED BY <1>1, <3>1, <3>6, <3>7, <3>8, <3>9, <4>1
    <3> QED BY <2>1, <3>10
  <2>4. CASE LengthOf(j) # l
    <3>1. S(j + 1) = S(j)
      BY <2>1, <2>2, <2>4, SeenNext
    <3>2. Prefix(l, j + 1) = Prefix(l, j)
      <4>1. \A t \in InUse : LengthOf(t) = l => (t < j + 1 <=> t < j)
        BY <2>1, <2>4, ShareType
      <4>2. \A t \in InUse : (LengthOf(t) < l \/ (LengthOf(t) = l /\ t < j + 1))
                              <=> (LengthOf(t) < l \/ (LengthOf(t) = l /\ t < j))
        BY <4>1
      <4> QED BY <4>2 DEF Prefix
    <3>3. W(j + 1) = W(0) + S(j + 1) * p
      BY <1>3, <3>1, <3>2
    <3> QED BY <2>1, <3>3
  <2> QED BY <2>3, <2>4
<1>4. 0..NCodes - n_codes0 \subseteq T
  <2> HIDE DEF T
  <2>1. 0 \in Int /\ NCodes - n_codes0 \in Int
    BY <1>0
  <2> QED BY <1>2, <1>3, <2>1, IntervalInduction
<1> QED BY <1>4, <1>w, <1>s

(* What the loop over the counts keeps, for any counts.                    *)
Balance(r) == /\ r \in [Lengths -> Int] /\ r[0] = 1
              /\ \A l \in 1..MaxLen : r[l] = 2 * r[l - 1] - CountOf(l)

LEMMA PrefixNext ==
  ASSUME SetupOK, NEW l \in 1..MaxLen
  PROVE  /\ Weight(Prefix(l + 1, 0)) = Weight(Prefix(l, 0)) + CountOf(l) * 2^(MaxLen - l)
         /\ Weight(Prefix(l + 1, 0)) \in Nat
         /\ Weight(Prefix(l, 0)) \in Nat
<1>0. n_codes0 \in Nat /\ n_codes0 <= NCodes /\ NCodes \in Nat
  BY CodesFinite, Sizes
<1> DEFINE k == NCodes - n_codes0
<1>1. k \in 0..NCodes - n_codes0 /\ n_codes0 + k = NCodes
  BY <1>0
<1>2. Prefix(l + 1, 0) = Prefix(l, k)
  <2>1. \A t \in InUse : t < k /\ ~(t < 0) /\ LengthOf(t) \in Nat
    BY <1>0, ShareType DEF Everything
  <2>2. \A t \in InUse : LengthOf(t) < l + 1 <=> (LengthOf(t) < l \/ LengthOf(t) = l)
    BY <2>1
  <2> HIDE DEF k
  <2>3. \A t \in InUse : (LengthOf(t) < l + 1 \/ (LengthOf(t) = l + 1 /\ t < 0))
                          <=> (LengthOf(t) < l \/ (LengthOf(t) = l /\ t < k))
    BY <2>1, <2>2
  <2> QED BY <2>3, Zenon DEF Prefix
<1>3. Seen(l, n_codes0 + k) = CountOf(l)
  BY <1>1, SeenAll
<1>4. /\ Weight(Prefix(l, k)) = Weight(Prefix(l, 0)) + Seen(l, n_codes0 + k) * 2^(MaxLen - l)
      /\ Weight(Prefix(l, k)) \in Nat /\ Weight(Prefix(l, 0)) \in Nat
  BY <1>1, WeightPrefix
<1> QED BY <1>2, <1>3, <1>4

(* The intervals of the codes of at most l bits.                           *)
LEMMA WeightUpTo ==
  ASSUME SetupOK, NEW r, Balance(r), NEW l \in Lengths
  PROVE  Weight(Prefix(l + 1, 0)) = 2^MaxLen - r[l] * 2^(MaxLen - l)
<1> DEFINE W(j) == Weight(Prefix(j + 1, 0))
           T == {j \in Nat : W(j) = 2^MaxLen - r[j] * 2^(MaxLen - j)}
<1>1. 0 \in T
  <2>1. Prefix(0 + 1, 0) = {}
    <3>1. \A t \in InUse : LengthOf(t) \in 1..MaxLen /\ ~(t < 0)
      BY ShareType
    <3>2. \A t \in InUse : ~(LengthOf(t) < 0 + 1)
      BY <3>1
    <3> QED BY <3>1, <3>2 DEF Prefix
  <2>2. W(0) = 0
    BY <2>1, SumEmpty DEF Weight
  <2>3. r[0] = 1 /\ MaxLen - 0 = MaxLen /\ 2^MaxLen \in Nat
    BY Sizes, PowType DEF Balance
  <2>4. 0 = 2^MaxLen - 1 * 2^MaxLen
    BY <2>3
  <2> QED BY <2>2, <2>3, <2>4
<1>2. ASSUME NEW j \in 0..MaxLen - 1, j \in T PROVE j + 1 \in T
  <2>1. j \in Nat /\ j + 1 \in Nat /\ j + 1 \in 1..MaxLen /\ (j + 1) - 1 = j /\ j \in Lengths
        /\ MaxLen - (j + 1) \in 0..MaxLen /\ (MaxLen - (j + 1)) + 1 = MaxLen - j
        /\ MaxLen - (j + 1) \in 0..MaxLen + 1
    BY Sizes DEF Lengths
  <2> DEFINE p == 2^(MaxLen - (j + 1))
             q == 2^(MaxLen - j)
             m == 2^MaxLen
             c == CountOf(j + 1)
             a == r[j]
             b == r[j + 1]
  <2>2. p \in Nat /\ m \in Nat
    BY <2>1, PowType, Sizes
  <2>3. q = 2 * p
    <3>1. 2^((MaxLen - (j + 1)) + 1) = 2 * 2^(MaxLen - (j + 1))
      BY <2>1, PowDouble
    <3> QED BY <2>1, <3>1
  <2>4. W(j + 1) = W(j) + c * p /\ W(j) \in Nat
    BY <2>1, PrefixNext
  <2>5. b = 2 * a - c /\ a \in Int
    BY <2>1 DEF Balance
  <2>6. c \in Nat
    BY CountType
  <2>7. W(j) = m - a * q
    BY <1>2
  <2> HIDE DEF p, q, m, c, a, b, W
  <2>8. a * q = (2 * a) * p /\ (2 * a - c) * p = (2 * a) * p - c * p
        /\ (2 * a) * p \in Int /\ c * p \in Int
    BY <2>2, <2>3, <2>5, <2>6
  <2>9. W(j + 1) = m - b * p
    BY <2>2, <2>4, <2>5, <2>7, <2>8
  <2> QED BY <2>1, <2>9 DEF m, b, p
<1>3. 0..MaxLen \subseteq T
  <2> HIDE DEF T
  <2>1. 0 \in Int /\ MaxLen \in Int
    BY Sizes
  <2> QED BY <1>1, <1>2, <2>1, IntervalInduction
<1> QED BY <1>3 DEF Lengths

LEMMA WeightAll ==
  ASSUME SetupOK, NEW r, Balance(r)
  PROVE  Weight(InUse) = 2^MaxLen - r[MaxLen] /\ r[MaxLen] \in Int /\ 2^MaxLen \in Nat
<1>1. MaxLen \in Lengths /\ MaxLen - MaxLen = 0 /\ 2^0 = 1 /\ MaxLen \in Nat
  BY Sizes DEF Lengths
<1>2. Prefix(MaxLen + 1, 0) = InUse
  <2>1. \A t \in InUse : LengthOf(t) \in 1..MaxLen
    BY ShareType
  <2>2. \A t \in InUse : LengthOf(t) < MaxLen + 1
    BY <1>1, <2>1
  <2>3. \A t \in InUse : LengthOf(t) < MaxLen + 1 \/ (LengthOf(t) = MaxLen + 1 /\ t < 0)
    BY <2>2
  <2> QED BY <2>3, Zenon DEF Prefix
<1>3. Weight(Prefix(MaxLen + 1, 0)) = 2^MaxLen - r[MaxLen] * 2^(MaxLen - MaxLen)
  BY <1>1, WeightUpTo
<1>4. r[MaxLen] \in Int /\ 2^MaxLen \in Nat
  BY <1>1, PowType DEF Balance
<1>5. r[MaxLen] * 2^(MaxLen - MaxLen) = r[MaxLen]
  BY <1>1, <1>4
<1> QED BY <1>2, <1>3, <1>4, <1>5

(* What is left below zero stays below zero.                               *)
LEMMA BalanceNegative ==
  ASSUME SetupOK, NEW r, Balance(r), NEW l \in Lengths, r[l] < 0
  PROVE  r[MaxLen] < 0
<1> DEFINE T == {k \in Int : r[k] < 0}
<1>0. l \in Int /\ l \in 0..MaxLen /\ MaxLen \in Int
  BY Sizes DEF Lengths
<1>1. l \in T
  BY <1>0
<1>2. ASSUME NEW k \in l..MaxLen - 1, k \in T PROVE k + 1 \in T
  <2>1. k \in Lengths /\ k + 1 \in 1..MaxLen /\ (k + 1) - 1 = k /\ k + 1 \in Int
    BY <1>0, Sizes DEF Lengths
  <2>2. r[k + 1] = 2 * r[k] - CountOf(k + 1) /\ r[k] \in Int
    BY <2>1 DEF Balance
  <2>3. CountOf(k + 1) \in Nat
    BY CountType
  <2>4. r[k] < 0
    BY <1>2
  <2>5. r[k + 1] < 0
    BY <2>2, <2>3, <2>4
  <2> QED BY <2>1, <2>5
<1>3. l..MaxLen \subseteq T
  <2> HIDE DEF T
  <2> QED BY <1>0, <1>1, <1>2, IntervalInduction
<1>4. MaxLen \in l..MaxLen
  BY <1>0
<1> QED BY <1>3, <1>4

LEMMA KraftBalance == ASSUME NEW r, Kraft(r) PROVE Balance(r) /\ r[MaxLen] = 0
<1>1. r \in [Lengths -> Nat] /\ \A l \in Lengths : r[l] \in Nat
  BY DEF Kraft
<1>2. r \in [Lengths -> Int]
  BY <1>1
<1> QED BY <1>2 DEF Kraft, Balance

LEMMA RemainingBalance ==
  ASSUME SetupOK, Counted
  PROVE  Balance(Remaining)
<1>1. counts \in [Lengths -> Int] /\ \A l \in 1..MaxLen : counts[l] = CountOf(l)
  BY CountType, Sizes DEF Counted, Lengths
<1> DEFINE r == Remaining
<1>2. /\ r \in [Lengths -> Int] /\ r[0] = 1
      /\ \A l \in 1..MaxLen : r[l] = 2 * r[l - 1] - counts[l]
  BY <1>1, RemainingStep
<1> HIDE DEF r
<1>3. Balance(r)
  BY <1>1, <1>2 DEF Balance
<1> QED BY <1>3 DEF r

(* All the codes are unused exactly if there are as many of length 0.      *)
LEMMA NoneInUse ==
  ASSUME SetupOK
  PROVE  InUse = {} <=> CountOf(0) + n_codes0 = NCodes
<1>1. /\ n_codes0 \in Nat /\ n_codes0 <= NCodes /\ NCodes \in Nat /\ IsFiniteSet(Codes0)
      /\ Cardinality(Codes0) = NCodes - n_codes0
  BY CodesFinite, Sizes
<1>2. CountOf(0) \in Nat /\ CodesOf(0) \in SUBSET Codes0
  BY CountType DEF CodesOf
<1>3. ASSUME InUse = {} PROVE CountOf(0) + n_codes0 = NCodes
  <2>1. ASSUME NEW k \in Codes0 PROVE code_lengths[k] = 0
    <3>1. k - n_codes0 \in 0..NCodes - 1 - n_codes0 /\ n_codes0 + (k - n_codes0) = k
      BY <1>1 DEF Codes0
    <3>2. k - n_codes0 \notin InUse
      BY <1>3
    <3> QED BY <3>1, <3>2 DEF InUse
  <2>2. CodesOf(0) = Codes0
    BY <2>1 DEF CodesOf
  <2>3. CountOf(0) = NCodes - n_codes0
    BY <1>1, <2>2 DEF CountOf
  <2> QED BY <1>1, <1>2, <2>3
<1>4. ASSUME CountOf(0) + n_codes0 = NCodes PROVE InUse = {}
  <2>1. Cardinality(CodesOf(0)) = Cardinality(Codes0)
    BY <1>1, <1>2, <1>4, SMTT(30) DEF CountOf
  <2>2. CodesOf(0) = Codes0
    BY <1>1, <1>2, <2>1, FS_Subset
  <2>3. ASSUME NEW t \in InUse PROVE FALSE
    <3>1. n_codes0 + t \in Codes0
      BY <1>1 DEF InUse, Codes0
    <3>2. code_lengths[n_codes0 + t] = 0
      BY <2>2, <3>1 DEF CodesOf
    <3> QED BY <3>2 DEF InUse
  <2> QED BY <2>3
<1> QED BY <1>3, <1>4

LEMMA UseSame ==
  ASSUME UNCHANGED setup
  PROVE  InUse' = InUse /\ Weight(InUse)' = Weight(InUse)
BY DEF setup, InUse, Weight, Share, LengthOf

(* Which verdict goes with which codes, before and after it is given.      *)
Verdict ==
  /\ AcceptsCompleteCodes
  /\ pc = "cover" => InUse # {}

LEMMA VerdictKept ==
  ASSUME Verdict, UNCHANGED <<setup, status>>, pc' # "cover"
  PROVE  Verdict'
<1>1. InUse' = InUse /\ Weight(InUse)' = Weight(InUse)
  BY UseSame
<1> QED BY <1>1 DEF Verdict, AcceptsCompleteCodes

LEMMA VerdictCount == Inv /\ Verdict /\ Count => Verdict'
<1> SUFFICES ASSUME Inv, Verdict, Count PROVE Verdict'
  OBVIOUS
<1>1. SetupOK /\ UNCHANGED setup
  BY DEF Inv, Count, Fail, setup
<1>2. InUse' = InUse /\ Weight(InUse)' = Weight(InUse)
  BY <1>1, UseSame
<1> DEFINE cs == [l \in Lengths |-> Cardinality({k \in Codes0 : code_lengths[k] = l})]
<1>3. cs[0] = CountOf(0)
  BY Sizes DEF CountOf, CodesOf, Lengths
<1>4. InUse = {} <=> CountOf(0) + n_codes0 = NCodes
  BY <1>1, NoneInUse
<1>5. CASE cs[0] + n_codes0 = NCodes
  <2>1. pc' = "error" /\ status' = "no_codes"
    BY <1>5 DEF Count, Fail
  <2>2. InUse' = {}
    BY <1>2, <1>3, <1>4, <1>5
  <2> QED BY <2>1, <2>2 DEF Verdict, AcceptsCompleteCodes
<1>6. CASE ~(cs[0] + n_codes0 = NCodes)
  <2>1. UNCHANGED status
    BY <1>6 DEF Count
  <2>2. InUse' # {}
    BY <1>2, <1>3, <1>4, <1>6
  <2> QED BY <1>2, <2>1, <2>2 DEF Verdict, AcceptsCompleteCodes
<1> QED BY <1>5, <1>6

LEMMA VerdictCover == Inv /\ Verdict /\ Cover => Verdict'
<1> SUFFICES ASSUME Inv, Verdict, Cover PROVE Verdict'
  OBVIOUS
<1>1. SetupOK /\ Counted /\ pc = "cover" /\ UNCHANGED setup /\ InUse # {}
  BY DEF Inv, Cover, Fail, setup, Verdict
<1>2. InUse' = InUse /\ Weight(InUse)' = Weight(InUse)
  BY <1>1, UseSame
<1> DEFINE r == Remaining
<1>3. Balance(r)
  BY <1>1, RemainingBalance
<1>4. Weight(InUse) = 2^MaxLen - r[MaxLen] /\ r[MaxLen] \in Int /\ 2^MaxLen \in Nat
  BY <1>1, <1>3, WeightAll
<1>m. MaxLen \in Lengths
  BY Sizes DEF Lengths
<1>5. CASE \E l \in Lengths : Remaining[l] < 0
  <2>1. pc' = "error" /\ status' = "over_subscribed"
    BY <1>5 DEF Cover, Fail
  <2>2. r[MaxLen] < 0
    <3> HIDE DEF r
    <3>1. PICK l \in Lengths : r[l] < 0
      BY <1>5 DEF r
    <3> QED BY <1>1, <1>3, <3>1, BalanceNegative
  <2>3. Weight(InUse) > 2^MaxLen
    <3> HIDE DEF r
    <3> QED BY <1>4, <2>2
  <2> QED BY <1>2, <2>1, <2>3 DEF Verdict, AcceptsCompleteCodes
<1>6. CASE ~(\E l \in Lengths : Remaining[l] < 0) /\ Remaining[MaxLen] # 0
  <2>1. pc' = "error" /\ status' = "under_subscribed"
    BY <1>6 DEF Cover, Fail
  <2>2. ~(r[MaxLen] < 0) /\ r[MaxLen] # 0
    BY <1>6, <1>m
  <2>3. Weight(InUse) < 2^MaxLen
    <3> HIDE DEF r
    <3> QED BY <1>4, <2>2
  <2> QED BY <1>1, <1>2, <2>1, <2>3 DEF Verdict, AcceptsCompleteCodes
<1>7. CASE ~(\E l \in Lengths : Remaining[l] < 0) /\ Remaining[MaxLen] = 0
  <2>1. pc' = "offsets" /\ UNCHANGED status
    BY <1>7 DEF Cover
  <2> QED BY <1>1, <2>1, VerdictKept
<1> QED BY <1>5, <1>6, <1>7

LEMMA VerdictPut == Inv /\ Verdict /\ Put => Verdict'
<1> SUFFICES ASSUME Inv, Verdict, Put PROVE Verdict'
  OBVIOUS
<1>1. SetupOK /\ Kraft(Unused) /\ UNCHANGED setup
  BY PutStep DEF Inv, Put
<1>2. IF i + 1 >= n_symbols THEN pc' = "done" /\ status' = "ok"
      ELSE pc' = "code" /\ UNCHANGED status
  BY PutStep
<1>3. CASE i + 1 >= n_symbols
  <2>1. pc' = "done" /\ status' = "ok"
    BY <1>2, <1>3
  <2>2. InUse' = InUse /\ Weight(InUse)' = Weight(InUse)
    BY <1>1, UseSame
  <2>3. Balance(Unused) /\ Unused[MaxLen] = 0
    BY <1>1, KraftBalance
  <2>4. Weight(InUse) = 2^MaxLen - Unused[MaxLen] /\ 2^MaxLen \in Nat
    BY <1>1, <2>3, WeightAll
  <2>5. Weight(InUse) = 2^MaxLen
    BY <2>3, <2>4
  <2> QED BY <2>1, <2>2, <2>5 DEF Verdict, AcceptsCompleteCodes
<1>4. CASE ~(i + 1 >= n_symbols)
  BY <1>1, <1>2, <1>4, VerdictKept
<1> QED BY <1>3, <1>4

(* The other actions leave the verdict alone, or find a fault that is none *)
(* of the code lengths.                                                    *)
LEMMA VerdictFault ==
  ASSUME Verdict, UNCHANGED setup, pc' = "error", status' \in {"internal", "bad_minimum", "no_room"}
  PROVE  Verdict'
BY DEF Verdict, AcceptsCompleteCodes

LEMMA VerdictOther ==
  Verdict /\ (Offsets \/ SortSymbol \/ Prepare \/ Canonical \/ Redirect) => Verdict'
<1> SUFFICES ASSUME Verdict, Offsets \/ SortSymbol \/ Prepare \/ Canonical \/ Redirect PROVE Verdict'
  OBVIOUS
<1>1. UNCHANGED setup
  BY DEF Offsets, SortSymbol, Prepare, Canonical, Redirect, Fail, setup
<1>2. \/ pc' # "cover" /\ UNCHANGED status
      \/ pc' = "error" /\ status' \in {"internal", "bad_minimum", "no_room"}
  BY DEF Offsets, SortSymbol, Prepare, Canonical, Redirect, Fail
<1> QED BY <1>1, <1>2, VerdictKept, VerdictFault

LEMMA VerdictStutter == Verdict /\ UNCHANGED vars => Verdict'
<1> SUFFICES ASSUME Verdict, UNCHANGED vars PROVE Verdict'
  OBVIOUS
<1>1. UNCHANGED setup /\ UNCHANGED <<pc, status>>
  BY DEF vars, setup
<1>2. InUse' = InUse /\ Weight(InUse)' = Weight(InUse)
  BY <1>1, UseSame
<1> QED BY <1>1, <1>2 DEF Verdict, AcceptsCompleteCodes

LEMMA VerdictNext == Inv /\ Verdict /\ [Next]_vars => Verdict'
BY VerdictCount, VerdictCover, VerdictPut, VerdictOther, VerdictStutter DEF Next, Returned

(* init_huff builds a table exactly for the complete codes: whatever the   *)
(* code lengths, the loop that halves what remains says "over-subscribed"  *)
(* if the code intervals of RFC 1951 overlap, "under-subscribed" if they   *)
(* leave a gap, "no codes" if there is none, and goes on otherwise.        *)
THEOREM TablesForCompleteCodes == Spec => []AcceptsCompleteCodes
<1>1. Init => Verdict
  BY DEF Init, Verdict, AcceptsCompleteCodes
<1>2. Spec => []Verdict
  BY <1>1, InductiveInvariant, VerdictNext, PTL DEF Spec
<1>3. Verdict => AcceptsCompleteCodes
  BY DEF Verdict
<1> QED BY <1>2, <1>3, PTL

-----------------------------------------------------------------------------
(* More about quotients, and about reversal.                               *)
LEMMA DivDiv ==
  ASSUME NEW v \in Nat, NEW a \in Nat, 1 <= a, NEW b \in Nat, 1 <= b
  PROVE  (v \div a) \div b = v \div (a * b)
<1> DEFINE q == v \div a
           t == q \div b
           d == a * b
<1>1. q \in Nat /\ q * a \in Nat /\ q * a <= v /\ v < q * a + a
  BY DivFacts
<1> HIDE DEF q
<1>2. t \in Nat /\ t * b \in Nat /\ t * b <= q /\ q < t * b + b
  BY <1>1, DivFacts
<1> HIDE DEF t
<1>3. d \in Nat /\ 1 <= d
  <2>1. 1 * b <= a * b
    BY MulMono
  <2>2. a * b \in Nat
    OBVIOUS
  <2> QED BY <2>1, <2>2
<1>4. (t * b) * a <= q * a /\ (q + 1) * a <= (t * b + b) * a
  BY <1>1, <1>2, MulMono
<1>5. (t * b) * a = t * d /\ (t * b + b) * a = t * d + d /\ (q + 1) * a = q * a + a /\ t * d \in Nat
  BY <1>1, <1>2
<1>6. t * d <= v /\ v < t * d + d
  <2> HIDE DEF d
  <2> QED BY <1>1, <1>3, <1>4, <1>5
<1>7. v \div d = t
  <2> HIDE DEF d
  <2> QED BY <1>2, <1>3, <1>6, DivUnique
<1> QED BY <1>7 DEF t, q, d

(* A multiple of e more is a quotient more.                                *)
LEMMA DivShift ==
  ASSUME NEW q \in Nat, NEW f \in Nat, NEW e \in Nat, 1 <= e, NEW z \in Nat
  PROVE  (q * (e * f) + z) \div e = q * f + (z \div e) /\ q * (e * f) + z \in Nat /\ z \div e \in Nat
<1> DEFINE t == z \div e
           n == q * (e * f) + z
           k == q * f
<1>1. t \in Nat /\ t * e \in Nat /\ t * e <= z /\ z < t * e + e
  BY DivFacts
<1> HIDE DEF t
<1>2. k \in Nat /\ k * e = q * (e * f) /\ q * (e * f) \in Nat /\ (k + t) * e = k * e + t * e
  BY <1>1
<1>3. n \in Nat /\ (k + t) * e <= n /\ n < (k + t) * e + e
  <2> HIDE DEF k
  <2> QED BY <1>1, <1>2
<1>4. k + t \in Int
  BY <1>1, <1>2
<1> HIDE DEF n, k
<1>5. n \div e = k + t
  BY <1>3, <1>4, DivUnique
<1> QED BY <1>1, <1>3, <1>5 DEF n, k, t

LEMMA BitShift ==
  ASSUME NEW v \in Nat, NEW n \in Nat, NEW k \in Nat, n + k <= MaxLen
  PROVE  Bit(v \div 2^n, k) = Bit(v, n + k) /\ v \div 2^n \in Nat
<1> DEFINE a == 2^n
           b == 2^k
<1>1. n \in 0..MaxLen + 1 /\ k \in 0..MaxLen + 1 /\ n + k <= MaxLen + 1
  BY Sizes
<1>2. a \in Nat /\ 1 <= a /\ b \in Nat /\ 1 <= b
  BY <1>1, PowType
<1>3. 2^(n + k) = a * b
  BY <1>1, PowAdd
<1> HIDE DEF a, b
<1>4. (v \div a) \div b = v \div (a * b)
  BY <1>2, DivDiv, ZenonT(60)
<1>5. v \div a \in Nat
  BY <1>2, DivFacts
<1> QED BY <1>3, <1>4, <1>5 DEF a, b, Bit

(* The first bits reversed are the high bits of all of them reversed.      *)
LEMMA ReversedConcat ==
  ASSUME NEW v \in Nat, NEW w \in 0..MaxLen, NEW n \in 0..w
  PROVE  /\ Reversed(v, w) = Reversed(v, n) * 2^(w - n) + Reversed(v \div 2^n, w - n)
         /\ v \div 2^n \in Nat
<1> DEFINE u == v \div 2^n
           a == Reversed(v, n)
           T == {m \in Int : Reversed(v, m) = a * 2^(m - n) + Reversed(u, m - n)}
<1>0. w \in Nat /\ n \in Nat /\ n <= w /\ w <= MaxLen /\ n \in 0..MaxLen
  BY Sizes
<1>1. u \in Nat
  <2>1. n + 0 <= MaxLen /\ 0 \in Nat
    BY <1>0, Sizes
  <2> QED BY <1>0, <2>1, BitShift
<1>2. a \in Nat
  BY <1>0, ReversedType
<1> HIDE DEF u, a
<1>3. n \in T
  <2>1. n - n = 0 /\ 2^0 = 1 /\ Reversed(u, 0) = 0
    BY <1>0, <1>1, ReversedStep
  <2>2. a = a * 1 + 0
    BY <1>2
  <2>3. Reversed(v, n) = a * 2^(n - n) + Reversed(u, n - n)
    BY <2>1, <2>2 DEF a
  <2> QED BY <1>0, <2>3
<1>4. ASSUME NEW m \in n..w - 1, m \in T PROVE m + 1 \in T
  <2>1. /\ m \in Int /\ m + 1 \in Int /\ m + 1 \in 1..MaxLen /\ (m + 1) - 1 = m
        /\ m - n \in Nat /\ n + (m - n) = m /\ n + (m - n) <= MaxLen
        /\ (m + 1) - n \in 1..MaxLen /\ ((m + 1) - n) - 1 = m - n /\ m - n \in 0..MaxLen
        /\ (m - n) + 1 = (m + 1) - n /\ m - n \in 0..MaxLen + 1
    BY <1>0, Sizes
  <2>2. Reversed(v, m + 1) = 2 * Reversed(v, m) + Bit(v, m)
    BY <2>1, ReversedStep
  <2>3. Reversed(u, (m + 1) - n) = 2 * Reversed(u, m - n) + Bit(u, m - n)
    BY <1>1, <2>1, ReversedStep
  <2>4. Bit(u, m - n) = Bit(v, m)
    <3>1. Bit(v \div 2^n, m - n) = Bit(v, n + (m - n))
      BY <1>0, <2>1, BitShift
    <3> QED BY <2>1, <3>1 DEF u
  <2> DEFINE p == 2^(m - n)
             q == 2^((m + 1) - n)
             y == Reversed(u, m - n)
             b == Bit(u, m - n)
  <2>5. p \in Nat
    BY <2>1, PowType
  <2>6. q = 2 * p
    <3>1. 2^((m - n) + 1) = 2 * 2^(m - n)
      BY <2>1, PowDouble
    <3> QED BY <2>1, <3>1
  <2>7. y \in Nat /\ b \in 0..1
    BY <1>1, <2>1, ReversedType, BitType
  <2>8. Reversed(v, m) = a * p + y
    BY <1>4
  <2> HIDE DEF p, q, y, b
  <2>9. a * q = 2 * (a * p) /\ a * p \in Nat
    BY <1>2, <2>5, <2>6
  <2>10. Reversed(v, m + 1) = a * q + (2 * y + b)
    BY <2>2, <2>4, <2>7, <2>8, <2>9 DEF b
  <2>11. Reversed(v, m + 1) = a * 2^((m + 1) - n) + Reversed(u, (m + 1) - n)
    BY <2>3, <2>10 DEF q, y, b
  <2> QED BY <2>1, <2>11
<1>5. n..w \subseteq T
  <2> HIDE DEF T
  <2>1. n \in Int /\ w \in Int
    BY <1>0
  <2> QED BY <1>3, <1>4, <2>1, IntervalInduction
<1>6. w \in T
  BY <1>0, <1>5
<1> QED BY <1>1, <1>6 DEF u, a

(* Only the low n bits matter.                                             *)
LEMMA ReversedLow ==
  ASSUME NEW n \in 0..MaxLen, NEW q \in Nat, NEW z \in Nat
  PROVE  Reversed(q * 2^n + z, n) = Reversed(z, n) /\ q * 2^n + z \in Nat
<1> DEFINE d == 2^n
           v == q * d + z
           T == {m \in Nat : Reversed(v, m) = Reversed(z, m)}
<1>0. n \in Nat /\ n \in 0..MaxLen + 1
  BY Sizes
<1>1. d \in Nat
  BY <1>0, PowType
<1>2. v \in Nat
  <2> HIDE DEF d
  <2> QED BY <1>1
<1>3. 0 \in T
  <2> HIDE DEF v
  <2> QED BY <1>2, ReversedStep
<1>4. ASSUME NEW m \in 0..n - 1, m \in T PROVE m + 1 \in T
  <2>1. /\ m \in Nat /\ m + 1 \in Nat /\ m + 1 \in 1..MaxLen /\ (m + 1) - 1 = m
        /\ m <= n /\ n - (m + 1) \in 0..MaxLen /\ (n - (m + 1)) + 1 = n - m
        /\ n - (m + 1) \in 0..MaxLen + 1
    BY <1>0, Sizes
  <2> DEFINE e == 2^m
             f == 2^(n - m)
             g == 2^(n - (m + 1))
  <2>2. d = e * f /\ e \in Nat /\ 1 <= e /\ f \in Nat
    BY <1>0, <2>1, PowSplit
  <2>3. f = 2 * g /\ g \in Nat
    <3>1. 2^((n - (m + 1)) + 1) = 2 * 2^(n - (m + 1))
      BY <2>1, PowDouble
    <3>2. g \in Nat
      BY <2>1, PowType
    <3> QED BY <2>1, <3>1, <3>2
  <2>4. Bit(v, m) = (v \div e) % 2 /\ Bit(z, m) = (z \div e) % 2
    BY DEF Bit
  <2> HIDE DEF d, e, f, g
  <2>5. v = q * (e * f) + z
    BY <2>2
  <2> HIDE DEF v
  <2>6. v \div e = q * f + (z \div e) /\ z \div e \in Nat
    BY <2>2, <2>5, DivShift
  <2> DEFINE t == z \div e
             k == q * g
  <2>7. q * f = 2 * k /\ k \in Nat /\ t \in Nat
    BY <2>3, <2>6
  <2> HIDE DEF t, k
  <2>8. (2 * k + t) % 2 = t % 2
    BY <2>7
  <2>9. Bit(v, m) = Bit(z, m)
    BY <2>4, <2>6, <2>7, <2>8 DEF t
  <2>10. /\ Reversed(v, m + 1) = 2 * Reversed(v, m) + Bit(v, m)
         /\ Reversed(z, m + 1) = 2 * Reversed(z, m) + Bit(z, m)
    BY <1>2, <2>1, ReversedStep
  <2>11. Reversed(v, m + 1) = Reversed(z, m + 1)
    BY <1>4, <2>9, <2>10
  <2> QED BY <2>1, <2>11
<1>5. 0..n \subseteq T
  <2> HIDE DEF T
  <2>1. 0 \in Int /\ n \in Int
    BY <1>0
  <2> QED BY <1>3, <1>4, <2>1, IntervalInduction
<1>6. n \in T
  BY <1>0, <1>5
<1> QED BY <1>2, <1>6

(* Reversal undoes itself.                                                 *)
LEMMA ReversedTwice ==
  ASSUME NEW n \in 0..MaxLen, NEW v \in Nat, v < 2^n
  PROVE  Reversed(Reversed(v, n), n) = v
<1> DEFINE T == {m \in Nat : \A x \in Nat : x < 2^m => Reversed(Reversed(x, m), m) = x}
<1>1. 0 \in T
  <2>1. ASSUME NEW x \in Nat, x < 2^0 PROVE Reversed(Reversed(x, 0), 0) = x
    <3>1. x = 0
      <4>1. 2^0 = 1
        OBVIOUS
      <4> QED BY <2>1, <4>1
    <3>2. Reversed(x, 0) = 0 /\ Reversed(0, 0) = 0
      BY ReversedStep
    <3> QED BY <3>1, <3>2
  <2> QED BY <2>1
<1>2. ASSUME NEW m \in 0..MaxLen - 1, m \in T PROVE m + 1 \in T
  <2>1. /\ m \in Nat /\ m + 1 \in Nat /\ m + 1 \in 1..MaxLen /\ (m + 1) - 1 = m /\ m + 1 \in 0..MaxLen
        /\ m \in 0..MaxLen /\ m \in 0..MaxLen + 1 /\ 1 \in 0..m + 1 /\ 1 \in 1..MaxLen /\ 1 - 1 = 0
    BY Sizes
  <2>2. ASSUME NEW x \in Nat, x < 2^(m + 1) PROVE Reversed(Reversed(x, m + 1), m + 1) = x
    <3> DEFINE d == 2^m
               b == x \div d
               z == x % d
               y == Reversed(z, m)
    <3>1. d \in Nat /\ 1 <= d /\ 2^(m + 1) = 2 * d
      BY <2>1, PowType, PowDouble
    <3>2. /\ b \in Nat /\ b * d <= x /\ b * d \in Nat /\ z \in Nat /\ z < d /\ x = b * d + z
      <4> HIDE DEF d
      <4> QED BY <3>1, DivFacts
    <3>3. Bit(x, m) = b % 2
      BY DEF Bit
    <3>4. Reversed(b * d + z, m) = Reversed(z, m)
      <4> HIDE DEF b, z
      <4> QED BY <2>1, <3>2, ReversedLow
    <3>5. b \in 0..1
      <4> HIDE DEF b, z, d
      <4>1. ASSUME 2 <= b PROVE FALSE
        <5>1. 2 * d <= b * d
          BY <3>1, <3>2, <4>1, MulMono
        <5> QED BY <2>2, <3>1, <3>2, <5>1
      <4> QED BY <3>2, <4>1
    <3>6. Reversed(x, m) = y
      BY <3>2, <3>4
    <3>7. Reversed(x, m + 1) = 2 * Reversed(x, m) + Bit(x, m)
      BY <2>1, ReversedStep
    <3>8. y \in Nat
      <4> HIDE DEF z
      <4> QED BY <2>1, <3>2, ReversedType
    <3>9. Reversed(y, m) = z
      <4> HIDE DEF z
      <4> QED BY <1>2, <3>2
    <3> HIDE DEF b, z, y, d
    <3> DEFINE k == 2 * y + b
    <3>10. k \in Nat /\ k \div 2 = y /\ k % 2 = b /\ b % 2 = b
      BY <3>5, <3>8
    <3>11. Reversed(x, m + 1) = k
      BY <3>3, <3>6, <3>7, <3>10
    <3> HIDE DEF k
    <3>12. Reversed(k, m + 1) = Reversed(k, 1) * 2^((m + 1) - 1) + Reversed(k \div 2^1, (m + 1) - 1)
      BY <2>1, <3>10, ReversedConcat
    <3>13. 2^1 = 2 /\ 2^0 = 1
      OBVIOUS
    <3>14. Reversed(k, 1) = b
      <4>1. Reversed(k, 1) = 2 * Reversed(k, 0) + Bit(k, 0) /\ Reversed(k, 0) = 0
        BY <2>1, <3>10, ReversedStep
      <4>2. Bit(k, 0) = (k \div 1) % 2
        BY <3>13 DEF Bit
      <4>3. k \div 1 = k
        BY <3>10
      <4> QED BY <3>5, <3>10, <4>1, <4>2, <4>3
    <3>15. Reversed(k, m + 1) = b * d + z
      BY <2>1, <3>9, <3>10, <3>12, <3>13, <3>14 DEF d
    <3> QED BY <3>2, <3>11, <3>15
  <2> QED BY <2>1, <2>2
<1>3. 0..MaxLen \subseteq T
  <2> HIDE DEF T
  <2>1. 0 \in Int /\ MaxLen \in Int
    BY Sizes
  <2> QED BY <1>1, <1>2, <2>1, IntervalInduction
<1> QED BY <1>3

-----------------------------------------------------------------------------
(* Where a key goes in a table of w bits: the slots whose reversal starts  *)
(* with it.                                                                *)
Depth == MaxLen - Primary

LEMMA DepthType ==
  /\ Depth \in Nat /\ Depth \in 0..MaxLen /\ Depth <= Primary /\ Primary + Depth = MaxLen
  /\ Depth \in 0..MaxLen + 1 /\ Primary \in 0..MaxLen /\ Primary \in 0..MaxLen + 1
  /\ 2^Depth \in Nat /\ 1 <= 2^Depth /\ 2^Depth <= 2^Primary
  /\ 2^Primary \in Nat /\ 1 <= 2^Primary
<1>1. Depth \in Nat /\ Depth \in 0..MaxLen /\ Depth <= Primary /\ Primary + Depth = MaxLen
      /\ Depth \in 0..MaxLen + 1 /\ Primary \in 0..MaxLen /\ Primary \in 0..MaxLen + 1
  BY Sizes DEF Depth
<1>2. 2^Depth \in Nat /\ 1 <= 2^Depth /\ 2^Depth <= 2^Primary /\ 2^Primary \in Nat /\ 1 <= 2^Primary
  BY <1>1, PowType, PowMono
<1> QED BY <1>1, <1>2

LEMMA KeyRange ==
  ASSUME NEW w \in 0..MaxLen, NEW cl \in 0..w, NEW key \in Nat, key < 2^cl, NEW h \in Nat,
         NEW x, x = h * 2^cl + Reversed(key, cl)
  PROVE  /\ x \in Nat /\ Reversed(x, cl) = key
         /\ Reversed(x, w) \in Nat
         /\ key * 2^(w - cl) <= Reversed(x, w)
         /\ Reversed(x, w) < (key + 1) * 2^(w - cl)
<1>0. cl \in 0..MaxLen /\ w - cl \in 0..MaxLen /\ w - cl \in 0..MaxLen + 1
  BY Sizes
<1>1. Reversed(key, cl) \in Nat
  BY <1>0, ReversedType
<1>2. x \in Nat /\ Reversed(x, cl) = Reversed(Reversed(key, cl), cl)
  BY <1>0, <1>1, ReversedLow
<1>3. Reversed(x, cl) = key
  BY <1>0, <1>2, ReversedTwice
<1> DEFINE u == x \div 2^cl
           t == Reversed(u, w - cl)
           p == 2^(w - cl)
           r == Reversed(x, w)
<1>4. r = key * p + t /\ u \in Nat
  BY <1>0, <1>2, <1>3, ReversedConcat
<1>5. t \in Nat /\ t < p /\ p \in Nat
  <2> HIDE DEF u
  <2> QED BY <1>0, <1>4, ReversedType, PowType
<1> HIDE DEF u, t, p, r
<1>6. key * p + p = (key + 1) * p /\ key * p \in Nat
  BY <1>5, MulNext
<1>7. r \in Nat /\ key * p <= r /\ r < (key + 1) * p
  BY <1>4, <1>5, <1>6
<1> QED BY <1>2, <1>3, <1>7 DEF p, r

LEMMA ShiftedReverse ==
  ASSUME NEW key \in Nat, NEW cl \in 0..Primary
  PROVE  Reverse(key) \div 2^(Primary - cl) = Reversed(key, cl)
<1>0. cl \in 0..MaxLen /\ Primary - cl \in 0..MaxLen /\ Primary - cl \in 0..MaxLen + 1
      /\ Primary \in 0..MaxLen
  BY Sizes
<1> DEFINE u == key \div 2^cl
           t == Reversed(u, Primary - cl)
           p == 2^(Primary - cl)
           r == Reversed(key, Primary)
           a == Reversed(key, cl)
<1>1. r = a * p + t /\ u \in Nat
  BY <1>0, ReversedConcat
<1>2. a \in Nat
  BY <1>0, ReversedType
<1>3. t \in Nat /\ t < p /\ p \in Nat /\ 1 <= p
  <2> HIDE DEF u
  <2> QED BY <1>0, <1>1, ReversedType, PowType
<1> HIDE DEF t, p, r, a
<1>4. a * p \in Nat /\ r \in Nat /\ a * p <= r /\ r < a * p + p /\ a \in Int
  BY <1>1, <1>2, <1>3
<1>5. r \div p = a
  BY <1>3, <1>4, DivUnique
<1> QED BY <1>5 DEF r, p, a, Reverse

LEMMA Scale ==
  ASSUME NEW a \in Nat, NEW r \in Nat, NEW p \in Nat, NEW d \in Nat, 1 <= d, a * p <= r, r < (a + 1) * p
  PROVE  a * (p * d) <= r * d /\ r * d < (a + 1) * (p * d) /\ r * d \in Nat
<1>1. a * p \in Nat /\ (a + 1) * p \in Nat
  OBVIOUS
<1>2. (a * p) * d <= r * d
  BY <1>1, MulMono
<1>3. (r + 1) * d <= ((a + 1) * p) * d
  <2>1. r + 1 <= (a + 1) * p
    BY <1>1
  <2> QED BY <1>1, <2>1, MulMono
<1>4. (a * p) * d = a * (p * d) /\ ((a + 1) * p) * d = (a + 1) * (p * d)
  OBVIOUS
<1>5. (r + 1) * d = r * d + d /\ r * d \in Nat
  OBVIOUS
<1>6. a * (p * d) \in Nat /\ (a + 1) * (p * d) \in Nat
  BY <1>4
<1> QED BY <1>2, <1>3, <1>4, <1>5, <1>6

(* A short code c of length L: its slots reversed are from its interval.   *)
LEMMA FirstRange ==
  ASSUME NEW L \in 1..Primary, NEW c \in Nat, c < 2^L, NEW h \in Nat,
         NEW x, x = h * 2^L + Reversed(c, L)
  PROVE  /\ x \in Nat /\ Reversed(x, L) = c
         /\ Reversed(x, Primary) * 2^Depth \in Nat
         /\ c * 2^(MaxLen - L) <= Reversed(x, Primary) * 2^Depth
         /\ Reversed(x, Primary) * 2^Depth < (c + 1) * 2^(MaxLen - L)
<1>0. /\ Primary \in 0..MaxLen /\ L \in 0..Primary /\ Primary - L \in Nat
      /\ (Primary - L) + Depth = MaxLen - L /\ (Primary - L) + Depth <= MaxLen + 1
      /\ Primary - L \in 0..MaxLen + 1
  BY DepthType, Sizes
<1> DEFINE r == Reversed(x, Primary)
           p == 2^(Primary - L)
           d == 2^Depth
<1>1. x \in Nat /\ Reversed(x, L) = c /\ r \in Nat /\ c * p <= r /\ r < (c + 1) * p
  BY <1>0, KeyRange
<1>2. p \in Nat /\ d \in Nat /\ 1 <= d
  BY <1>0, PowType, DepthType
<1>3. 2^(MaxLen - L) = p * d
  <2>1. 2^((Primary - L) + Depth) = 2^(Primary - L) * 2^Depth
    BY <1>0, PowAdd, DepthType
  <2> QED BY <1>0, <2>1
<1> HIDE DEF r, p, d
<1>4. c * (p * d) <= r * d /\ r * d < (c + 1) * (p * d) /\ r * d \in Nat
  BY <1>1, <1>2, Scale
<1> QED BY <1>1, <1>3, <1>4 DEF r, d

(* A long code is its first level key and what selects in the table.       *)
LEMMA LongCode ==
  ASSUME NEW L \in Primary + 1..MaxLen, NEW c \in Nat, c < 2^L
  PROVE  /\ L - Primary \in 1..Depth /\ L - Primary \in 0..MaxLen
         /\ SecondLevel(c, L) = c \div 2^(L - Primary)
         /\ SecondLevel(c, L) \in Nat /\ SecondLevel(c, L) < 2^Primary
         /\ c % 2^(L - Primary) \in Nat /\ c % 2^(L - Primary) < 2^(L - Primary)
         /\ c = SecondLevel(c, L) * 2^(L - Primary) + (c % 2^(L - Primary))
         /\ SecondLevel(c, L) * 2^(L - Primary) \in Nat
<1>0. L - Primary \in 1..Depth /\ L - Primary \in 0..MaxLen /\ L - Primary \in 0..MaxLen + 1
      /\ Primary \in Nat /\ Primary <= L /\ L \in 0..MaxLen + 1
  BY DepthType, Sizes
<1> DEFINE e == 2^(L - Primary)
           p == 2^Primary
           k == c \div e
           z == c % e
<1>1. 2^L = p * e /\ p \in Nat /\ 1 <= p /\ e \in Nat /\ 1 <= e
  BY <1>0, PowSplit
<1>2. SecondLevel(c, L) = k % p
  BY DEF SecondLevel
<1>3. c < p * e
  BY <1>1
<1> HIDE DEF e, p
<1>4. k \in Nat /\ k * e \in Nat /\ k * e <= c /\ z \in Nat /\ z < e /\ c = k * e + z
  BY <1>1, DivFacts
<1> HIDE DEF k, z
<1>5. k < p
  <2>1. ASSUME p <= k PROVE FALSE
    <3>1. p * e <= k * e /\ p * e \in Int
      BY <1>1, <1>4, <2>1, MulMono
    <3> QED BY <1>3, <1>4, <3>1
  <2> QED BY <1>1, <1>4, <2>1
<1>6. k % p = k
  <2>1. k \div p = 0
    <3>1. 0 * p <= k /\ k < 0 * p + p /\ 0 \in Int
      BY <1>1, <1>4, <1>5
    <3> QED BY <1>1, <1>4, <3>1, DivUnique
  <2>2. k = (k \div p) * p + (k % p) /\ k % p \in Nat
    BY <1>1, <1>4, DivFacts
  <2>3. (k \div p) * p = 0
    BY <1>1, <2>1
  <2> QED BY <2>2, <2>3
<1> QED BY <1>0, <1>2, <1>4, <1>5, <1>6 DEF e, p, k, z

(* A long code: with the key of its table in front, its slots reversed are *)
(* from its interval.                                                      *)
LEMMA SecondRange ==
  ASSUME NEW L \in Primary + 1..MaxLen, NEW c \in Nat, c < 2^L, NEW h \in Nat,
         NEW x, x = h * 2^(L - Primary) + Reversed(c % 2^(L - Primary), L - Primary)
  PROVE  /\ x \in Nat /\ Reversed(x, L - Primary) = c % 2^(L - Primary)
         /\ SecondLevel(c, L) * 2^Depth + Reversed(x, Depth) \in Nat
         /\ c * 2^(MaxLen - L) <= SecondLevel(c, L) * 2^Depth + Reversed(x, Depth)
         /\ SecondLevel(c, L) * 2^Depth + Reversed(x, Depth) < (c + 1) * 2^(MaxLen - L)
<1> DEFINE l == L - Primary
           e == 2^l
           K == SecondLevel(c, L)
           z == c % e
           g == 2^(Depth - l)
           d == 2^Depth
           r == Reversed(x, Depth)
<1>1. /\ l \in 1..Depth /\ l \in 0..MaxLen
      /\ K \in Nat /\ z \in Nat /\ z < e /\ c = K * e + z /\ K * e \in Nat
  BY LongCode
<1>2. l \in 0..Depth /\ Depth - l = MaxLen - L /\ l \in Nat /\ l <= Depth
  BY <1>1, DepthType, Sizes DEF Depth
<1>3. d = e * g /\ e \in Nat /\ g \in Nat /\ d \in Nat
  BY <1>2, DepthType, PowSplit
<1>4. x \in Nat /\ Reversed(x, l) = z /\ r \in Nat /\ z * g <= r /\ r < (z + 1) * g
  <2> HIDE DEF z, l
  <2>1. x = h * 2^l + Reversed(z, l)
    BY DEF z, l
  <2> QED BY <1>1, <1>2, <2>1, DepthType, KeyRange
<1>5. 2^(MaxLen - L) = g
  BY <1>2
<1> HIDE DEF l, e, K, z, g, d, r
<1>6. K * d = (K * e) * g /\ c * g = (K * e) * g + z * g /\ K * d \in Nat
      /\ (c + 1) * g = c * g + g /\ (z + 1) * g = z * g + g /\ z * g \in Nat /\ c * g \in Nat
  BY <1>1, <1>3
<1>7. K * d + r \in Nat /\ c * g <= K * d + r /\ K * d + r < (c + 1) * g
  BY <1>1, <1>3, <1>4, <1>6
<1> QED BY <1>4, <1>5, <1>7 DEF K, d, r, z, e, l

(* The first code of a table starts where its key does.                    *)
LEMMA AlignedRange ==
  ASSUME NEW L \in Primary + 1..MaxLen, NEW c \in Nat, c < 2^L, Aligned(c, L)
  PROVE  /\ SecondLevel(c, L) * 2^Depth = c * 2^(MaxLen - L)
         /\ c = SecondLevel(c, L) * 2^(L - Primary)
         /\ c * 2^(MaxLen - L) \in Nat
<1> DEFINE l == L - Primary
           e == 2^l
           K == SecondLevel(c, L)
           g == 2^(Depth - l)
           d == 2^Depth
<1>1. l \in 1..Depth /\ K = c \div e /\ K \in Nat
  BY LongCode
<1>2. Depth - l = MaxLen - L /\ l \in Nat /\ l <= Depth
  BY <1>1, DepthType, Sizes DEF Depth
<1>3. d = e * g /\ e \in Nat /\ 1 <= e /\ g \in Nat
  BY <1>2, DepthType, PowSplit
<1>4. PICK q \in Nat : c = q * e
  BY DEF Aligned
<1>5. 2^(MaxLen - L) = g
  BY <1>2
<1> HIDE DEF e, K, g, d
<1>6. c \div e = q
  <2>1. q * e <= c /\ c < q * e + e /\ q \in Int
    BY <1>3, <1>4
  <2> QED BY <1>3, <2>1, DivUnique
<1>7. K = q /\ c = K * e
  BY <1>1, <1>4, <1>6
<1>8. K * d = c * g /\ c * g \in Nat
  <2>1. K \in Nat /\ e \in Nat /\ g \in Nat
    BY <1>1, <1>3
  <2>2. K * (e * g) = (K * e) * g /\ (K * e) * g \in Nat
    BY <2>1
  <2> QED BY <1>3, <1>7, <2>2
<1> QED BY <1>5, <1>7, <1>8 DEF K, d, e

-----------------------------------------------------------------------------
(* Which slots are still stale: those from the frontier on, the start of   *)
(* the interval of the next code.                                          *)
Frontier == code * 2^(MaxLen - prev_cl)

(* n_huffs_bits is wide enough for the codes of the first level.           *)
Widths ==
  /\ n_huffs_bits \in 0..Primary
  /\ \A l \in 1..MaxLen : CountOf(l) # 0 =>
       IF l <= Primary THEN l <= n_huffs_bits ELSE n_huffs_bits = Primary

(* The current table is the first level, or one behind it.                 *)
Levels ==
  /\ initial_high_bits <= 2^Primary
  /\ \/ /\ top = 0 /\ next_top = 2^Primary /\ prev_redirect_key = NoKey
        /\ initial_high_bits = 2^n_huffs_bits
     \/ /\ 2^Primary <= top /\ prev_redirect_key \in Nat
        /\ top + initial_high_bits = next_top
  /\ prev_cl <= Primary => top = 0

FirstFresh ==
  \A x \in 0..2^Primary - 1 : huffs[x] # Stale =>
    \/ Reversed(x, Primary) * 2^Depth < Frontier
    \/ pc = "put" /\ prev_cl > Primary /\ Reversed(x, Primary) * 2^Depth = Frontier
SecondFresh ==
  2^Primary <= top =>
    \A y \in 0..initial_high_bits - 1 : huffs[top + y] # Stale =>
      prev_redirect_key * 2^Depth + Reversed(y, Depth) < Frontier
RestFresh == \A s \in Slots : next_top <= s => huffs[s] = Stale

Fresh ==
  /\ huffs = [s \in Slots |-> huffs[s]]
  /\ pc \in {"count", "cover", "offsets", "symbols"} => huffs = [s \in Slots |-> Stale]
  /\ pc \in {"code", "redirect", "put"} =>
       Levels /\ FirstFresh /\ SecondFresh /\ RestFresh /\ Widths

(* A slot is written if it is stale, and nothing else is said of it.       *)
WritesStale == \A s \in Slots : huffs'[s] # huffs[s] => huffs[s] = Stale

LEMMA WidthsSame ==
  ASSUME UNCHANGED setup, n_huffs_bits' = n_huffs_bits
  PROVE  Widths <=> Widths'
<1>1. \A l : CountOf(l)' = CountOf(l)
  BY SetupSame
<1> QED BY <1>1 DEF Widths

(* The slots of a key in the current table.                                *)
LEMMA SlotOfKey ==
  ASSUME Room, initial_high_bits <= 2^Primary, NEW key \in Nat, NEW cl \in 1..Primary,
         NEW s \in SlotsOfKey(key, cl)
  PROVE  \E x \in Nat, h \in Nat :
           s = top + x /\ x < initial_high_bits /\ x = h * 2^cl + Reversed(key, cl)
<1> DEFINE e == 2^cl
           p == 2^Primary
           z == Reversed(key, cl)
           b == initial_high_bits
<1>0. cl \in 0..Primary /\ cl \in 0..MaxLen /\ cl \in 0..MaxLen + 1
  BY Sizes
<1>1. e \in Nat /\ 1 <= e /\ p \in Nat /\ 1 <= p
  BY <1>0, PowType, DepthType
<1>2. z \in Nat /\ z < e
  BY <1>0, ReversedType
<1>3. b \in Nat /\ top \in Nat /\ b <= p
  BY DEF Room
<1>4. Reverse(key) \div 2^(Primary - cl) = z
  BY <1>0, ShiftedReverse
<1>5. PICK h \in 0..(b \div e) - 1 : s = top + ((h * e + z) % p)
  BY <1>4 DEF SlotsOfKey
<1> HIDE DEF e, p, z, b
<1> DEFINE q == b \div e
           x == h * e + z
<1>6. q \in Nat /\ q * e \in Nat /\ q * e <= b
  BY <1>1, <1>3, DivFacts
<1> HIDE DEF q
<1>7. h \in Nat /\ h + 1 <= q
  BY <1>5, <1>6 DEF q
<1>8. (h + 1) * e <= q * e /\ h * e \in Nat /\ h * e + e = (h + 1) * e
  BY <1>1, <1>6, <1>7, MulMono, MulNext
<1>9. x \in Nat /\ x < b
  BY <1>1, <1>2, <1>3, <1>6, <1>8
<1>10. x % p = x
  <2> HIDE DEF x
  <2>1. x < p
    BY <1>1, <1>3, <1>9
  <2>2. x \div p = 0
    <3>1. 0 * p <= x /\ x < 0 * p + p /\ 0 \in Int
      BY <1>1, <1>9, <2>1
    <3> QED BY <1>1, <1>9, <3>1, DivUnique
  <2>3. x = (x \div p) * p + (x % p) /\ x % p \in Nat
    BY <1>1, <1>9, DivFacts
  <2>4. (x \div p) * p = 0
    BY <1>1, <2>2
  <2> QED BY <2>3, <2>4
<1>11. s = top + x
  BY <1>5, <1>10
<1> QED BY <1>7, <1>9, <1>11 DEF e, z, b

(* What Put writes: slots of the current table, in the interval of code.   *)
LEMMA PutSlots ==
  ASSUME Inv, Fresh, pc = "put", NEW s \in SlotsOfKey(PutKey, PutLength)
  PROVE  /\ s \in Nat /\ s < next_top /\ huffs[s] = Stale
         /\ prev_cl <= Primary =>
              /\ s \in 0..2^Primary - 1
              /\ Reversed(s, Primary) * 2^Depth < (code + 1) * 2^(MaxLen - prev_cl)
         /\ prev_cl > Primary =>
              /\ 2^Primary <= top /\ top <= s /\ s - top \in 0..initial_high_bits - 1
              /\ prev_redirect_key * 2^Depth + Reversed(s - top, Depth)
                   < (code + 1) * 2^(MaxLen - prev_cl)
<1>1. /\ SetupOK /\ Kraft(Unused)
      /\ AllSorted /\ InOrder /\ Room /\ Keyed /\ LengthOf(symbols[i]) = prev_cl
      /\ Levels /\ FirstFresh /\ SecondFresh
  BY DEF Inv, Inserting, Fresh
<1>2. /\ prev_cl \in 1..MaxLen /\ code \in Nat /\ code < 2^prev_cl
      /\ PutLength \in 1..Primary /\ PutKey \in Nat
  BY <1>1, PutFacts
<1>3. initial_high_bits <= 2^Primary /\ 2^Primary \in Nat /\ initial_high_bits \in Nat /\ top \in Nat
  BY <1>1, DepthType DEF Levels, Room
<1>4. PICK x \in Nat, h \in Nat :
        s = top + x /\ x < initial_high_bits /\ x = h * 2^PutLength + Reversed(PutKey, PutLength)
  BY <1>1, <1>2, <1>3, SlotOfKey
<1>5. CASE prev_cl <= Primary
  <2>1. PutLength = prev_cl /\ PutKey = code /\ prev_cl \in 1..Primary
    BY <1>2, <1>5, Sizes DEF PutLength, PutKey
  <2>2. top = 0 /\ next_top = 2^Primary
    BY <1>1, <1>3, <1>5, DepthType DEF Levels
  <2>3. /\ Reversed(x, Primary) * 2^Depth \in Nat
        /\ code * 2^(MaxLen - prev_cl) <= Reversed(x, Primary) * 2^Depth
        /\ Reversed(x, Primary) * 2^Depth < (code + 1) * 2^(MaxLen - prev_cl)
    BY <1>2, <1>4, <2>1, FirstRange
  <2>4. s = x /\ s \in 0..2^Primary - 1 /\ s < next_top
    BY <1>3, <1>4, <2>2
  <2>5. huffs[s] = Stale
    <3>1. ~(prev_cl > Primary)
      BY <1>2, <1>5, Sizes
    <3>2. code * 2^(MaxLen - prev_cl) \in Nat
      <4>1. 2^(MaxLen - prev_cl) \in Nat
        <5>1. MaxLen - prev_cl \in 0..MaxLen + 1
          BY <1>2, Sizes
        <5> QED BY <5>1, PowType
      <4> QED BY <1>2, <4>1
    <3> DEFINE r == Reversed(s, Primary) * 2^Depth
               F == code * 2^(MaxLen - prev_cl)
    <3>3. r \in Nat /\ F \in Nat /\ F <= r
      BY <2>3, <2>4, <3>2
    <3>4. huffs[s] # Stale => r < F
      BY <1>1, <2>4, <3>1 DEF FirstFresh, Frontier
    <3> HIDE DEF r, F
    <3> QED BY <3>3, <3>4
  <2> QED BY <1>2, <1>5, <2>3, <2>4, <2>5, Sizes
<1>6. CASE prev_cl > Primary
  <2>1. /\ PutLength = prev_cl - Primary /\ PutKey = code % 2^(prev_cl - Primary)
        /\ prev_cl \in Primary + 1..MaxLen
    BY <1>2, <1>6, Sizes DEF PutLength, PutKey
  <2>2. prev_redirect_key = SecondLevel(code, prev_cl) /\ SecondLevel(code, prev_cl) \in Nat
    BY <1>1, <1>2, <1>6, <2>1, LongCode DEF Keyed
  <2>3. 2^Primary <= top /\ top + initial_high_bits = next_top
    <3>1. prev_redirect_key # NoKey
      BY <2>2 DEF NoKey
    <3> QED BY <1>1, <3>1 DEF Levels
  <2>4. /\ prev_redirect_key * 2^Depth + Reversed(x, Depth) \in Nat
        /\ code * 2^(MaxLen - prev_cl) <= prev_redirect_key * 2^Depth + Reversed(x, Depth)
        /\ prev_redirect_key * 2^Depth + Reversed(x, Depth) < (code + 1) * 2^(MaxLen - prev_cl)
    BY <1>2, <1>4, <2>1, <2>2, SecondRange
  <2>5. s - top = x /\ x \in 0..initial_high_bits - 1 /\ top <= s /\ s \in Nat /\ s < next_top
    BY <1>3, <1>4, <2>3
  <2>6. huffs[s] = Stale
    <3>1. code * 2^(MaxLen - prev_cl) \in Nat
      <4>1. 2^(MaxLen - prev_cl) \in Nat
        <5>1. MaxLen - prev_cl \in 0..MaxLen + 1
          BY <1>2, Sizes
        <5> QED BY <5>1, PowType
      <4> QED BY <1>2, <4>1
    <3> DEFINE r == prev_redirect_key * 2^Depth + Reversed(x, Depth)
               F == code * 2^(MaxLen - prev_cl)
    <3>2. r \in Nat /\ F \in Nat /\ F <= r
      BY <2>4, <3>1
    <3>3. huffs[top + x] # Stale => r < F
      BY <1>1, <2>3, <2>5 DEF SecondFresh, Frontier
    <3> HIDE DEF r, F
    <3> QED BY <1>4, <3>2, <3>3
  <2>7. ~(prev_cl <= Primary)
    BY <1>2, <1>6, Sizes
  <2> QED BY <2>3, <2>4, <2>5, <2>6, <2>7
<1> QED BY <1>2, <1>5, <1>6, Sizes

(* The frontier moves on by the interval of the code.                      *)
LEMMA FrontierNext ==
  ASSUME NEW L \in 1..MaxLen, NEW c \in Nat
  PROVE  c * 2^(MaxLen - L) \in Nat /\ (c + 1) * 2^(MaxLen - L) \in Nat
         /\ c * 2^(MaxLen - L) < (c + 1) * 2^(MaxLen - L)
<1> DEFINE g == 2^(MaxLen - L)
<1>1. g \in Nat /\ 1 <= g
  <2>1. MaxLen - L \in 0..MaxLen + 1
    BY Sizes
  <2> QED BY <2>1, PowType
<1> HIDE DEF g
<1>2. c * g \in Nat /\ (c + 1) * g \in Nat /\ c * g + g = (c + 1) * g
  BY <1>1, MulNext
<1>3. c * g < (c + 1) * g
  BY <1>1, <1>2
<1> QED BY <1>2, <1>3 DEF g

LEMMA FirstType ==
  ASSUME NEW x \in 0..2^Primary - 1
  PROVE  /\ x \in Nat /\ x < 2^Primary /\ x \in Slots
         /\ Reversed(x, Primary) \in Nat /\ Reversed(x, Primary) < 2^Primary
         /\ Reversed(x, Primary) * 2^Depth \in Nat
         /\ Reverse(Reversed(x, Primary)) = x /\ Reversed(Reverse(x), Primary) = x
<1>1. x \in Nat /\ x < 2^Primary
  BY DepthType
<1>2. x \in Slots
  BY <1>1, DepthType, Sizes DEF Slots
<1>3. Reversed(x, Primary) \in Nat /\ Reversed(x, Primary) < 2^Primary
  BY <1>1, DepthType, ReversedType
<1>4. Reversed(x, Primary) * 2^Depth \in Nat
  BY <1>3, DepthType
<1>5. Reverse(Reversed(x, Primary)) = x /\ Reversed(Reverse(x), Primary) = x
  BY <1>1, DepthType, ReversedTwice DEF Reverse
<1> QED BY <1>1, <1>2, <1>3, <1>4, <1>5

LEMMA FreshPut == Inv /\ Fresh /\ Put => Fresh' /\ WritesStale
<1> SUFFICES ASSUME Inv, Fresh, Put PROVE Fresh' /\ WritesStale
  OBVIOUS
<1>1. /\ pc = "put" /\ SetupOK /\ Kraft(Unused)
      /\ AllSorted /\ InOrder /\ Room /\ LengthOf(symbols[i]) = prev_cl
      /\ Levels /\ FirstFresh /\ SecondFresh /\ RestFresh /\ Widths
  BY DEF Inv, Inserting, Fresh, Put
<1>2. prev_cl \in 1..MaxLen /\ code \in Nat
  BY <1>1, PutFacts
<1> DEFINE to == SlotsOfKey(PutKey, PutLength)
           new == SymbolEntry(symbols[i], PutLength)
<1>3. /\ huffs' = [s \in Slots |-> IF s \in to THEN new ELSE huffs[s]]
      /\ IF i + 1 >= n_symbols THEN pc' = "done" /\ UNCHANGED code
         ELSE pc' = "code" /\ code' = code + 1
      /\ UNCHANGED <<setup, n_huffs_bits, prev_cl, prev_redirect_key, top, next_top,
                     initial_high_bits>>
  BY PutStep
<1>4. \A s \in to :
         /\ s \in Nat /\ s < next_top /\ huffs[s] = Stale
         /\ prev_cl <= Primary =>
              /\ s \in 0..2^Primary - 1
              /\ Reversed(s, Primary) * 2^Depth < (code + 1) * 2^(MaxLen - prev_cl)
         /\ prev_cl > Primary =>
              /\ 2^Primary <= top /\ top <= s /\ s - top \in 0..initial_high_bits - 1
              /\ prev_redirect_key * 2^Depth + Reversed(s - top, Depth)
                   < (code + 1) * 2^(MaxLen - prev_cl)
  BY <1>1, PutSlots
<1> HIDE DEF to, new
<1>5. WritesStale
  BY <1>3, <1>4 DEF WritesStale
<1>6. huffs' = [s \in Slots |-> huffs'[s]]
  BY <1>3
<1>7. CASE i + 1 >= n_symbols
  <2>1. pc' = "done"
    BY <1>3, <1>7
  <2> QED BY <1>5, <1>6, <2>1 DEF Fresh
<1>8. CASE ~(i + 1 >= n_symbols)
  <2>1. pc' = "code" /\ code' = code + 1
    BY <1>3, <1>8
  <2> DEFINE F == code * 2^(MaxLen - prev_cl)
             G == (code + 1) * 2^(MaxLen - prev_cl)
  <2>2. Frontier = F /\ Frontier' = G
    BY <1>3, <2>1 DEF Frontier
  <2>3. F \in Nat /\ G \in Nat /\ F < G
    BY <1>2, FrontierNext
  <2> HIDE DEF F, G
  <2>r. /\ top \in Nat /\ next_top \in Nat /\ initial_high_bits \in Nat /\ next_top <= TableSize
        /\ 2^Primary \in Nat
    BY <1>1, DepthType DEF Room
  <2>4. FirstFresh'
    <3>1. ASSUME NEW x \in 0..2^Primary - 1, huffs'[x] # Stale
          PROVE  Reversed(x, Primary) * 2^Depth < G
      <4> DEFINE v == Reversed(x, Primary) * 2^Depth
      <4>1. v \in Nat /\ x \in Slots
        BY FirstType
      <4>2. CASE x \in to
        <5>1. prev_cl <= Primary
          <6>1. ~(2^Primary <= x)
            BY <2>r
          <6>2. ASSUME prev_cl > Primary PROVE FALSE
            <7>1. 2^Primary <= top /\ top <= x
              BY <1>4, <4>2, <6>2
            <7> QED BY <2>r, <6>1, <7>1
          <6> QED BY <1>2, <6>2, Sizes
        <5> QED BY <1>4, <4>2, <5>1 DEF G
      <4>3. CASE x \notin to
        <5>1. huffs[x] # Stale
          BY <1>3, <3>1, <4>1, <4>3
        <5>2. v < F \/ v = F
          BY <1>1, <2>2, <5>1 DEF FirstFresh
        <5> HIDE DEF v
        <5>3. v < G
          BY <2>3, <4>1, <5>2
        <5> QED BY <5>3 DEF v
      <4> QED BY <4>2, <4>3
    <3> QED BY <2>1, <2>2, <3>1 DEF FirstFresh
  <2>5. SecondFresh'
    <3>1. ASSUME 2^Primary <= top, NEW y \in 0..initial_high_bits - 1, huffs'[top + y] # Stale
          PROVE  prev_redirect_key * 2^Depth + Reversed(y, Depth) < G
      <4>1. /\ top # 0 /\ prev_redirect_key \in Nat /\ top + initial_high_bits = next_top
            /\ prev_cl > Primary
        <5>1. top # 0
          BY <3>1, <2>r, DepthType
        <5> QED BY <1>1, <1>2, <5>1, Sizes DEF Levels
      <4>2. top + y \in Slots /\ y \in Nat /\ (top + y) - top = y
        BY <2>r, <4>1, Sizes DEF Slots
      <4> DEFINE v == prev_redirect_key * 2^Depth + Reversed(y, Depth)
      <4>3. v \in Nat
        <5>1. Reversed(y, Depth) \in Nat /\ 2^Depth \in Nat
          BY <4>2, DepthType, ReversedType
        <5> QED BY <4>1, <5>1
      <4>4. CASE top + y \in to
        <5>1. prev_redirect_key * 2^Depth + Reversed((top + y) - top, Depth) < G
          BY <1>4, <4>1, <4>4 DEF G
        <5> QED BY <4>2, <5>1
      <4>5. CASE top + y \notin to
        <5>1. huffs[top + y] # Stale
          BY <1>3, <3>1, <4>2, <4>5
        <5>2. v < F
          BY <1>1, <2>2, <3>1, <5>1 DEF SecondFresh
        <5> HIDE DEF v
        <5>3. v < G
          BY <2>3, <4>3, <5>2
        <5> QED BY <5>3 DEF v
      <4> QED BY <4>4, <4>5
    <3> QED BY <1>3, <2>2, <3>1 DEF SecondFresh
  <2>6. RestFresh'
    <3>1. ASSUME NEW s \in Slots, next_top <= s PROVE huffs'[s] = Stale
      <4>1. s \notin to
        BY <1>4, <2>r, <3>1
      <4> QED BY <1>1, <1>3, <3>1, <4>1 DEF RestFresh
    <3> QED BY <1>3, <3>1 DEF RestFresh
  <2>7. Levels'
    BY <1>1, <1>3 DEF Levels
  <2>8. Widths'
    BY <1>1, <1>3, WidthsSame
  <2> QED BY <1>5, <1>6, <2>1, <2>4, <2>5, <2>6, <2>7, <2>8 DEF Fresh
<1> QED BY <1>7, <1>8

TableBits == Min(LastLength(prev_cl)) - Primary

LEMMA RedirectFacts ==
  ASSUME Inv, pc = "redirect"
  PROVE  /\ prev_cl \in Primary + 1..MaxLen /\ code \in Nat /\ code < 2^prev_cl
         /\ Aligned(code, prev_cl)
         /\ LastLength(prev_cl) # {}
         /\ Primary + TableBits \in LastLength(prev_cl) /\ Primary + TableBits \in prev_cl..MaxLen
         /\ TableBits \in 1..Depth /\ TableBits \in 0..MaxLen + 1
         /\ 2^TableBits \in Nat /\ 1 <= 2^TableBits /\ 2^TableBits <= 2^Primary
<1>1. /\ SetupOK /\ Kraft(Unused)
      /\ AllSorted /\ InOrder /\ Keyed /\ LengthOf(symbols[i]) = prev_cl
  BY DEF Inv, Inserting
<1>2. prev_cl > Primary /\ Aligned(code, prev_cl)
  BY <1>1 DEF Keyed
<1>3. prev_cl \in 1..MaxLen /\ code \in Nat /\ code < 2^prev_cl
  BY <1>1, PutFacts
<1>4. prev_cl \in Primary + 1..MaxLen
  BY <1>2, <1>3, Sizes
<1> DEFINE last == Min(LastLength(prev_cl))
<1>5. MaxLen \in LastLength(prev_cl) /\ last \in LastLength(prev_cl) /\ last \in prev_cl..MaxLen
  BY <1>1, <1>2, <1>3, TableCompletes
<1> HIDE DEF last
<1>6. TableBits = last - Primary
  BY DEF TableBits, last
<1>7. Primary + TableBits = last /\ TableBits \in 1..Depth /\ TableBits \in 0..MaxLen + 1
  BY <1>4, <1>5, <1>6, Sizes DEF Depth
<1>8. 2^TableBits \in Nat /\ 1 <= 2^TableBits
  BY <1>7, PowType
<1>9. 2^TableBits <= 2^Primary
  BY <1>7, DepthType, PowMono
<1> QED BY <1>2, <1>3, <1>4, <1>5, <1>7, <1>8, <1>9

LEMMA RedirectStep ==
  ASSUME Inv, Redirect
  PROVE  \/ Fail("no_room")
         \/ /\ next_top + 2^TableBits <= TableSize
            /\ prev_redirect_key' = SecondLevel(code, prev_cl)
            /\ initial_high_bits' = 2^TableBits
            /\ top' = next_top
            /\ next_top' = next_top + 2^TableBits
            /\ huffs' = [huffs EXCEPT ![Reverse(SecondLevel(code, prev_cl))] =
                                        RedirectEntry(next_top, TableBits)]
            /\ pc' = "put"
            /\ UNCHANGED <<status, setup, counts, sorted, i, max_cl, n_huffs_bits, prev_cl, code>>
<1>1. pc = "redirect" /\ Room
  BY DEF Redirect, Inv, Inserting
<1>2. LastLength(prev_cl) # {} /\ 2^TableBits \in Nat
  BY <1>1, RedirectFacts
<1>3. CASE next_top + 2^TableBits > TableSize
  BY <1>2, <1>3 DEF Redirect, TableBits
<1>4. CASE ~(next_top + 2^TableBits > TableSize)
  <2>1. next_top + 2^TableBits <= TableSize
    BY <1>1, <1>2, <1>4, Sizes DEF Room
  <2> QED BY <1>2, <1>4, <2>1 DEF Redirect, TableBits, NextTop
<1> QED BY <1>3, <1>4

LEMMA FreshRedirect == Inv /\ Fresh /\ Redirect => Fresh' /\ WritesStale
<1> SUFFICES ASSUME Inv, Fresh, Redirect PROVE Fresh' /\ WritesStale
  OBVIOUS
<1>1. /\ pc = "redirect" /\ SetupOK /\ Room
      /\ huffs = [s \in Slots |-> huffs[s]]
      /\ Levels /\ FirstFresh /\ RestFresh /\ Widths
  BY DEF Inv, Inserting, Fresh, Redirect
<1>2. CASE Fail("no_room")
  BY <1>1, <1>2 DEF Fail, Fresh, WritesStale
<1>3. CASE ~Fail("no_room")
  <2>1. /\ next_top + 2^TableBits <= TableSize
        /\ prev_redirect_key' = SecondLevel(code, prev_cl)
        /\ initial_high_bits' = 2^TableBits
        /\ top' = next_top
        /\ next_top' = next_top + 2^TableBits
        /\ huffs' = [huffs EXCEPT ![Reverse(SecondLevel(code, prev_cl))] =
                                    RedirectEntry(next_top, TableBits)]
        /\ pc' = "put"
        /\ UNCHANGED <<setup, n_huffs_bits, prev_cl, code>>
    BY <1>3, RedirectStep
  <2>2. /\ prev_cl \in Primary + 1..MaxLen /\ code \in Nat /\ code < 2^prev_cl
        /\ Aligned(code, prev_cl)
        /\ 2^TableBits \in Nat /\ 1 <= 2^TableBits /\ 2^TableBits <= 2^Primary
    BY <1>1, RedirectFacts
  <2>k. PICK K \in Nat : K = SecondLevel(code, prev_cl) /\ K < 2^Primary
    BY <2>2, LongCode
  <2> DEFINE k == Reverse(K)
             F == code * 2^(MaxLen - prev_cl)
             z == 2^TableBits
             new == RedirectEntry(next_top, TableBits)
  <2>3. K * 2^Depth = F /\ F \in Nat
    BY <2>2, <2>k, AlignedRange
  <2>4. Frontier = F /\ Frontier' = F
    BY <2>1 DEF Frontier
  <2>5. k \in 0..2^Primary - 1 /\ Reversed(k, Primary) = K
    <3>1. k \in Nat /\ k < 2^Primary
      BY <2>k, DepthType, ReversedType DEF Reverse
    <3>2. Reversed(k, Primary) = K
      BY <2>k, DepthType, ReversedTwice DEF Reverse
    <3> QED BY <3>1, <3>2, DepthType
  <2>6. k \in Slots /\ huffs' = [huffs EXCEPT ![k] = new]
    BY <2>1, <2>5, <2>k, FirstType
  <2> HIDE DEF k, F, new
  <2>7. \A s \in Slots : s # k => huffs'[s] = huffs[s]
    BY <1>1, <2>6
  <2>8. huffs[k] = Stale
    <3>1. huffs[k] # Stale => Reversed(k, Primary) * 2^Depth < F
      BY <1>1, <2>4, <2>5 DEF FirstFresh
    <3> QED BY <2>3, <2>5, <3>1
  <2>9. WritesStale
    BY <2>7, <2>8 DEF WritesStale
  <2>10. huffs' = [s \in Slots |-> huffs'[s]]
    BY <1>1, <2>6
  <2>r. /\ top \in Nat /\ next_top \in Nat /\ initial_high_bits \in Nat /\ next_top <= TableSize
        /\ 2^Primary \in Nat /\ z \in Nat /\ 1 <= z /\ TableSize \in Nat /\ next_top + z <= TableSize
        /\ 2^Primary <= next_top
    <3>1. 2^Primary <= next_top
      BY <1>1, DepthType DEF Levels, Room
    <3> QED BY <1>1, <2>1, <2>2, <3>1, DepthType, Sizes DEF Room
  <2> HIDE DEF z
  <2>11. FirstFresh'
    <3>1. ASSUME NEW x \in 0..2^Primary - 1, huffs'[x] # Stale
          PROVE  \/ Reversed(x, Primary) * 2^Depth < F
                 \/ Reversed(x, Primary) * 2^Depth = F
      <4>1. x \in Slots
        BY FirstType
      <4>2. CASE x = k
        BY <2>3, <2>5, <4>2
      <4>3. CASE x # k
        <5>1. huffs[x] # Stale
          BY <2>7, <3>1, <4>1, <4>3
        <5> QED BY <1>1, <2>4, <5>1 DEF FirstFresh
      <4> QED BY <4>2, <4>3
    <3>2. prev_cl' > Primary /\ pc' = "put"
      BY <2>1, <2>2, Sizes
    <3> QED BY <2>4, <3>1, <3>2 DEF FirstFresh
  <2>12. SecondFresh'
    <3>1. ASSUME NEW y \in 0..z - 1 PROVE huffs'[next_top + y] = Stale
      <4>1. next_top + y \in Slots /\ next_top <= next_top + y /\ next_top + y # k
        BY <2>5, <2>r DEF Slots
      <4> QED BY <1>1, <2>7, <4>1 DEF RestFresh
    <3>2. initial_high_bits' = z /\ top' = next_top
      BY <2>1 DEF z
    <3> QED BY <3>1, <3>2 DEF SecondFresh
  <2>13. RestFresh'
    <3>1. next_top' = next_top + z
      BY <2>1 DEF z
    <3>2. ASSUME NEW s \in Slots, next_top + z <= s PROVE huffs'[s] = Stale
      <4>1. next_top <= s /\ s # k
        BY <2>5, <2>r, <3>2 DEF Slots
      <4> QED BY <1>1, <2>7, <4>1 DEF RestFresh
    <3> QED BY <3>1, <3>2 DEF RestFresh
  <2>14. Levels'
    <3>1. initial_high_bits' = z /\ top' = next_top /\ next_top' = next_top + z
          /\ prev_redirect_key' = K /\ z <= 2^Primary
      BY <2>1, <2>2, <2>k DEF z
    <3>2. ~(prev_cl' <= Primary)
      BY <2>1, <2>2, Sizes
    <3> QED BY <2>k, <2>r, <3>1, <3>2 DEF Levels
  <2>15. Widths'
    BY <1>1, <2>1, WidthsSame
  <2> QED BY <2>1, <2>9, <2>10, <2>11, <2>12, <2>13, <2>14, <2>15 DEF Fresh
<1> QED BY <1>2, <1>3

LEMMA CanonicalStep ==
  ASSUME Inv, Canonical, NEW cl, cl = LengthOf(symbols[i])
  PROVE  /\ code' = NextCode(cl)
         /\ prev_cl' = cl
         /\ pc' = IF cl > Primary /\ prev_redirect_key # SecondLevel(NextCode(cl), cl)
                  THEN "redirect" ELSE "put"
         /\ UNCHANGED <<status, setup, counts, sorted, i, max_cl, n_huffs_bits,
                        prev_redirect_key, top, next_top, initial_high_bits, huffs>>
<1>1. status' # "internal"
  BY CanonicalInv DEF Inv, Consistent
<1>2. code_lengths[n_codes0 + symbols[i]] = cl
  BY DEF LengthOf
<1> QED BY <1>1, <1>2 DEF Canonical, Fail, NextCode

(* The frontier is the same for the next length.                           *)
LEMMA FrontierSame ==
  ASSUME NEW L \in 1..MaxLen, NEW M \in 1..MaxLen, L <= M, NEW c \in Nat,
         NEW d, d = IF M > L THEN c * 2^(M - L) ELSE c
  PROVE  d * 2^(MaxLen - M) = c * 2^(MaxLen - L)
<1>1. CASE M > L
  <2>1. M - L \in Nat /\ MaxLen - M \in Nat /\ (M - L) + (MaxLen - M) = MaxLen - L
        /\ (M - L) + (MaxLen - M) <= MaxLen + 1 /\ M - L \in 0..MaxLen + 1 /\ MaxLen - M \in 0..MaxLen + 1
    BY <1>1, Sizes
  <2> DEFINE a == 2^(M - L)
             b == 2^(MaxLen - M)
  <2>2. 2^((M - L) + (MaxLen - M)) = a * b
    BY <2>1, PowAdd
  <2>3. a \in Nat /\ b \in Nat /\ 2^(MaxLen - L) = a * b
    BY <2>1, <2>2, PowType
  <2>4. d = c * a
    BY <1>1
  <2> HIDE DEF a, b
  <2>5. (c * a) * b = c * (a * b)
    BY <2>3
  <2> QED BY <2>3, <2>4, <2>5 DEF b
<1>2. CASE M = L
  BY <1>2
<1> QED BY <1>1, <1>2

LEMMA FreshCanonical == Inv /\ Fresh /\ Canonical => Fresh' /\ WritesStale
<1> SUFFICES ASSUME Inv, Fresh, Canonical PROVE Fresh' /\ WritesStale
  OBVIOUS
<1>1. /\ pc = "code" /\ SetupOK /\ Kraft(Unused) /\ AllSorted /\ InOrder
      /\ huffs = [s \in Slots |-> huffs[s]]
      /\ Levels /\ FirstFresh /\ SecondFresh /\ RestFresh /\ Widths
  BY DEF Inv, Inserting, Fresh, Canonical
<1>c. PICK cl : cl = LengthOf(symbols[i])
  OBVIOUS
<1>2. cl \in 1..MaxLen /\ prev_cl <= cl /\ prev_cl \in 1..MaxLen
  BY <1>1, <1>c, NextSymbol DEF InOrder
<1>3. /\ code' = NextCode(cl) /\ prev_cl' = cl /\ pc' \in {"redirect", "put"}
      /\ UNCHANGED <<setup, n_huffs_bits, prev_redirect_key, top, next_top, initial_high_bits, huffs>>
  BY <1>c, CanonicalStep
<1>4. Frontier' = Frontier
  <2>1. code \in Nat
    <3>1. prev_cl \in 1..MaxLen /\ counts[prev_cl] \in Nat /\ counts[prev_cl] <= CountOf(prev_cl)
          /\ code = (2^prev_cl - Unused[prev_cl]) - counts[prev_cl]
      BY <1>1, Sizes DEF InOrder, Lengths
    <3> QED BY <1>1, <3>1, CodeBounds
  <2> DEFINE d == NextCode(cl)
  <2>2. d = IF cl > prev_cl THEN code * 2^(cl - prev_cl) ELSE code
    BY DEF NextCode
  <2> HIDE DEF d
  <2>3. d * 2^(MaxLen - cl) = code * 2^(MaxLen - prev_cl)
    BY <1>2, <2>1, <2>2, FrontierSame
  <2> QED BY <1>3, <2>3 DEF Frontier, d
<1>5. WritesStale
  BY <1>3 DEF WritesStale
<1>6. FirstFresh'
  BY <1>1, <1>3, <1>4 DEF FirstFresh
<1>7. SecondFresh' /\ RestFresh'
  BY <1>1, <1>3, <1>4 DEF SecondFresh, RestFresh
<1>8. Levels'
  <2>1. prev_cl' <= Primary => prev_cl <= Primary
    BY <1>2, <1>3, Sizes
  <2> QED BY <1>1, <1>3, <2>1 DEF Levels
<1>9. Widths'
  BY <1>1, <1>3, WidthsSame
<1> QED BY <1>1, <1>3, <1>5, <1>6, <1>7, <1>8, <1>9 DEF Fresh

LEMMA PrepareStep ==
  ASSUME Inv, Prepare
  PROVE  \E m \in 1..MaxLen :
           /\ CountOf(m) # 0 /\ \A l \in 1..MaxLen : CountOf(l) # 0 => l <= m
           /\ n_huffs_bits' = IF m <= Primary THEN m ELSE Primary
           /\ initial_high_bits' = IF m < Primary THEN 2^m ELSE 2^Primary
           /\ prev_redirect_key' = NoKey /\ top' = 0 /\ next_top' = 2^Primary
           /\ i' = 0 /\ pc' = "code"
           /\ UNCHANGED <<status, setup, counts, sorted, huffs>>
<1>1. status' \notin {"internal", "bad_minimum"}
  BY PrepareInv DEF Inv, Consistent
<1>2. /\ Used = {l \in 1..MaxLen : CountOf(l) # 0}
      /\ Max(Used) \in Used /\ \A y \in Used : y <= Max(Used)
  BY LongestUsed DEF Inv, Prepare
<1> DEFINE m == Max(Used)
<1>3. m \in 1..MaxLen /\ CountOf(m) # 0 /\ \A l \in 1..MaxLen : CountOf(l) # 0 => l <= m
  BY <1>2
<1>4. /\ n_huffs_bits' = IF m <= Primary THEN m ELSE Primary
      /\ initial_high_bits' = IF m < Primary THEN 2^m ELSE 2^Primary
      /\ prev_redirect_key' = NoKey /\ top' = 0 /\ next_top' = 2^Primary
      /\ i' = 0 /\ pc' = "code"
      /\ UNCHANGED <<status, setup, counts, sorted, huffs>>
  BY <1>1 DEF Prepare, Fail
<1> QED BY <1>3, <1>4

LEMMA FreshPrepare == Inv /\ Fresh /\ Prepare => Fresh' /\ WritesStale
<1> SUFFICES ASSUME Inv, Fresh, Prepare PROVE Fresh' /\ WritesStale
  OBVIOUS
<1>1. pc = "symbols" /\ SetupOK /\ huffs = [s \in Slots |-> Stale]
  BY DEF Inv, Fresh, Prepare
<1>2. PICK m \in 1..MaxLen :
           /\ CountOf(m) # 0 /\ \A l \in 1..MaxLen : CountOf(l) # 0 => l <= m
           /\ n_huffs_bits' = IF m <= Primary THEN m ELSE Primary
           /\ initial_high_bits' = IF m < Primary THEN 2^m ELSE 2^Primary
           /\ prev_redirect_key' = NoKey /\ top' = 0 /\ next_top' = 2^Primary
           /\ pc' = "code"
           /\ UNCHANGED <<setup, huffs>>
  BY PrepareStep
<1>3. \A s \in Slots : huffs'[s] = Stale
  BY <1>1, <1>2
<1>4. FirstFresh' /\ RestFresh'
  BY <1>3, FirstType DEF FirstFresh, RestFresh
<1>5. SecondFresh'
  <2>1. ~(2^Primary <= top')
    BY <1>2, DepthType
  <2> QED BY <2>1 DEF SecondFresh
<1>6. Widths'
  <2>1. \A l : CountOf(l)' = CountOf(l)
    BY <1>2, SetupSame
  <2>2. n_huffs_bits' \in 0..Primary
    BY <1>2, Sizes
  <2>3. ASSUME NEW l \in 1..MaxLen, CountOf(l) # 0
        PROVE  IF l <= Primary THEN l <= n_huffs_bits' ELSE n_huffs_bits' = Primary
    <3>1. l <= m
      BY <1>2, <2>3
    <3> QED BY <1>2, <3>1, Sizes
  <2> QED BY <2>1, <2>2, <2>3 DEF Widths
<1>7. Levels'
  <2>1. initial_high_bits' = 2^n_huffs_bits' /\ initial_high_bits' <= 2^Primary
    <3>1. CASE m < Primary
      <4>1. m <= Primary
        BY <3>1, Sizes
      <4>2. 2^m <= 2^Primary
        BY <4>1, DepthType, PowMono
      <4> QED BY <1>2, <3>1, <4>1, <4>2
    <3>2. CASE ~(m < Primary)
      <4>1. n_huffs_bits' = Primary
        BY <1>2, <3>2, Sizes
      <4> QED BY <1>2, <3>2, <4>1, DepthType
    <3> QED BY <3>1, <3>2
  <2> QED BY <1>2, <2>1 DEF Levels
<1>8. WritesStale
  BY <1>2 DEF WritesStale
<1> QED BY <1>1, <1>2, <1>4, <1>5, <1>6, <1>7, <1>8 DEF Fresh

(* Before the loop over the symbols nothing is written.                    *)
LEMMA FreshEarly ==
  Fresh /\ (Count \/ Cover \/ Offsets \/ SortSymbol) => Fresh' /\ WritesStale
<1> SUFFICES ASSUME Fresh, Count \/ Cover \/ Offsets \/ SortSymbol PROVE Fresh' /\ WritesStale
  OBVIOUS
<1>1. pc \in {"count", "cover", "offsets", "symbols"}
  BY DEF Count, Cover, Offsets, SortSymbol
<1>2. pc' \in {"cover", "offsets", "symbols", "error"} /\ huffs' = huffs
  BY DEF Count, Cover, Offsets, SortSymbol, Fail
<1>3. huffs = [s \in Slots |-> Stale] /\ huffs = [s \in Slots |-> huffs[s]]
  BY <1>1 DEF Fresh
<1> QED BY <1>2, <1>3 DEF Fresh, WritesStale

LEMMA FreshStutter == Fresh /\ UNCHANGED vars => Fresh' /\ WritesStale
<1> SUFFICES ASSUME Fresh, UNCHANGED vars PROVE Fresh' /\ WritesStale
  OBVIOUS
<1>1. /\ UNCHANGED setup
      /\ UNCHANGED <<pc, n_huffs_bits, prev_cl, prev_redirect_key, top, next_top,
                     initial_high_bits, code, huffs>>
  BY DEF vars, setup
<1>2. Widths => Widths'
  BY <1>1, WidthsSame
<1>3. Frontier' = Frontier
  BY <1>1 DEF Frontier
<1> QED BY <1>1, <1>2, <1>3 DEF Fresh, WritesStale, Levels, FirstFresh, SecondFresh, RestFresh

LEMMA FreshNext == Inv /\ Fresh /\ [Next]_vars => Fresh' /\ WritesStale
BY FreshEarly, FreshPrepare, FreshCanonical, FreshRedirect, FreshPut, FreshStutter
   DEF Next, Returned

(* While init_huff inserts symbols, every slot that a code not inserted    *)
(* yet leads to still holds what an earlier block left in it, and          *)
(* n_huffs_bits is wide enough for the codes of the first level.           *)
THEOREM FreshAlways == Spec => []Fresh
<1>1. Init => Fresh
  BY DEF Init, Fresh
<1>2. Inv /\ Fresh /\ [Next]_vars => Fresh'
  BY FreshNext
<1> QED BY <1>1, <1>2, InductiveInvariant, PTL DEF Spec

(* Inserting the symbols never writes a slot twice: each code writes slots *)
(* whose reversed number lies in its own interval, a second level table    *)
(* starts where the table before it ended, and the slot of a redirect is   *)
(* in no short code's interval.                                            *)
THEOREM SlotsWrittenOnce == Spec => EachSlotOnce
<1>1. Inv /\ Fresh /\ [Next]_vars
        => [\A s \in Slots : huffs'[s] # huffs[s] => huffs[s] = Stale]_vars
  BY FreshNext DEF WritesStale
<1> QED BY <1>1, InductiveInvariant, FreshAlways, PTL DEF Spec, EachSlotOnce

-----------------------------------------------------------------------------
(* The codes of RFC 1951 from the counts, and where they are in the table. *)
CodeOf(s) == ((2^LengthOf(s) - Unused[LengthOf(s)]) - CountOf(LengthOf(s)))
               + Seen(LengthOf(s), n_codes0 + s)

(* From one length to a longer one the unused codes at most double each    *)
(* time.                                                                   *)
LEMMA KraftShrinks ==
  ASSUME SetupOK, NEW r, Kraft(r), NEW a \in Lengths, NEW b \in Lengths, a <= b
  PROVE  r[b] <= 2^(b - a) * r[a]
<1> DEFINE T == {k \in Nat : r[k] <= 2^(k - a) * r[a]}
<1>0. a \in Nat /\ b \in Nat /\ b <= MaxLen /\ r[a] \in Nat
  BY KraftType, Sizes DEF Lengths
<1>1. a \in T
  <2>1. a - a = 0 /\ 2^0 = 1
    BY <1>0
  <2> QED BY <1>0, <2>1
<1>2. ASSUME NEW k \in a..b - 1, k \in T PROVE k + 1 \in T
  <2>1. /\ k \in Lengths /\ k + 1 \in 1..MaxLen /\ (k + 1) - 1 = k /\ k + 1 \in Nat
        /\ k - a \in 0..MaxLen /\ k - a \in 0..MaxLen + 1 /\ (k - a) + 1 = (k + 1) - a
        /\ k + 1 \in Lengths
    BY <1>0, Sizes DEF Lengths
  <2>2. r[k + 1] = 2 * r[k] - CountOf(k + 1)
    BY <2>1 DEF Kraft
  <2> DEFINE p == 2^(k - a)
             q == 2^((k + 1) - a)
  <2>3. q = 2 * p
    <3>1. 2^((k - a) + 1) = 2 * 2^(k - a)
      BY <2>1, PowDouble
    <3> QED BY <2>1, <3>1
  <2>4. p \in Nat /\ r[k] \in Nat /\ r[k + 1] \in Nat /\ CountOf(k + 1) \in Nat
    BY <2>1, PowType, KraftType, CountType
  <2>5. r[k] <= p * r[a]
    BY <1>2
  <2> HIDE DEF p, q
  <2>6. q * r[a] = 2 * (p * r[a]) /\ p * r[a] \in Nat
    BY <1>0, <2>3, <2>4
  <2>7. r[k + 1] <= q * r[a]
    BY <2>2, <2>4, <2>5, <2>6
  <2> QED BY <2>1, <2>7 DEF q
<1>3. a..b \subseteq T
  <2> HIDE DEF T
  <2>1. a \in Int /\ b \in Int
    BY <1>0
  <2> QED BY <1>1, <1>2, <2>1, IntervalInduction
<1>4. b \in T
  BY <1>0, <1>3
<1> QED BY <1>4

(* The longer codes start behind all the shorter ones.                     *)
LEMMA KraftAfter ==
  ASSUME SetupOK, NEW r, Kraft(r), NEW a \in Lengths, NEW b \in Lengths, a < b
  PROVE  (2^a - r[a]) * 2^(b - a) <= (2^b - r[b]) - CountOf(b)
<1>1. /\ b - 1 \in Lengths /\ a <= b - 1 /\ b \in 1..MaxLen /\ a \in Nat /\ a <= b
      /\ b \in 0..MaxLen + 1 /\ (b - 1) - a \in 0..MaxLen /\ ((b - 1) - a) + 1 = b - a
      /\ (b - 1) - a \in 0..MaxLen + 1
  BY Sizes DEF Lengths
<1> DEFINE p == 2^((b - 1) - a)
           q == 2^(b - a)
           x == 2^a
           y == 2^b
<1>2. r[b - 1] <= p * r[a]
  BY <1>1, KraftShrinks
<1>3. r[b] = 2 * r[b - 1] - CountOf(b)
  BY <1>1 DEF Kraft
<1>4. q = 2 * p
  <2>1. 2^(((b - 1) - a) + 1) = 2 * 2^((b - 1) - a)
    BY <1>1, PowDouble
  <2> QED BY <1>1, <2>1
<1>5. y = x * q /\ x \in Nat /\ y \in Nat /\ p \in Nat /\ q \in Nat
  BY <1>1, PowSplit, PowType
<1>6. r[a] \in Nat /\ r[b] \in Nat /\ r[b - 1] \in Nat /\ CountOf(b) \in Nat
  BY <1>1, KraftType, CountType
<1> HIDE DEF p, q, x, y
<1>7. (x - r[a]) * q = x * q - r[a] * q /\ r[a] * q = 2 * (p * r[a]) /\ p * r[a] \in Nat
  BY <1>4, <1>5, <1>6
<1>8. (x - r[a]) * q <= (y - r[b]) - CountOf(b)
  BY <1>2, <1>3, <1>5, <1>6, <1>7
<1> QED BY <1>8 DEF x, y, q

(* What Left computes: how far the table reaches beyond the codes.         *)
LEMMA LeftExact ==
  ASSUME SetupOK, Kraft(Unused), InOrder, prev_cl > Primary, NEW K \in Nat,
         code = K * 2^(prev_cl - Primary), NEW n \in prev_cl..MaxLen
  PROVE  Left(prev_cl)[n] = (K + 1) * 2^(n - Primary) - ((2^n - Unused[n]) - counts[n])
<1> DEFINE L == prev_cl
           r == Left(L)
           T == {j \in Int : r[j] = (K + 1) * 2^(j - Primary) - ((2^j - Unused[j]) - counts[j])}
<1>0. /\ L \in Primary + 1..MaxLen /\ L \in 1..MaxLen /\ L \in Nat /\ L \in Lengths
      /\ counts \in [Lengths -> Nat] /\ counts \in [Lengths -> Int] /\ counts[L] \in Nat
      /\ \A l \in L + 1..MaxLen : counts[l] = CountOf(l)
      /\ code = (2^L - Unused[L]) - counts[L]
  BY Sizes DEF InOrder, Lengths
<1>1. r[L] = 2^(L - Primary) /\ \A j \in L + 1..MaxLen + 1 : r[j] = 2 * (r[j - 1] - counts[j - 1])
  BY <1>0, LeftStep
<1> HIDE DEF r
<1>2. L \in T
  <2> DEFINE e == 2^(L - Primary)
             y == 2^L
  <2>1. L - Primary \in 0..MaxLen + 1 /\ L \in 0..MaxLen + 1
    BY <1>0, Sizes
  <2>2. e \in Nat /\ y \in Nat /\ Unused[L] \in Nat
    BY <1>0, <2>1, PowType, KraftType
  <2>3. r[L] = e /\ K * e = (y - Unused[L]) - counts[L]
    BY <1>0, <1>1
  <2> HIDE DEF e, y
  <2>4. (K + 1) * e = K * e + e /\ K * e \in Nat
    BY <2>2
  <2>5. r[L] = (K + 1) * e - ((y - Unused[L]) - counts[L])
    BY <1>0, <2>2, <2>3, <2>4
  <2> QED BY <1>0, <2>5 DEF e, y
<1>3. ASSUME NEW j \in L..MaxLen - 1, j \in T PROVE j + 1 \in T
  <2>1. /\ j + 1 \in L + 1..MaxLen + 1 /\ j + 1 \in L + 1..MaxLen /\ (j + 1) - 1 = j
        /\ j + 1 \in 1..MaxLen /\ j \in Lengths /\ j + 1 \in Lengths /\ j \in Nat /\ j + 1 \in Int
        /\ j \in 0..MaxLen /\ j - Primary \in 0..MaxLen /\ (j - Primary) + 1 = (j + 1) - Primary
        /\ j \in 0..MaxLen + 1 /\ j - Primary \in 0..MaxLen + 1
    BY <1>0, Sizes DEF Lengths
  <2>2. r[j + 1] = 2 * (r[j] - counts[j])
    BY <1>1, <2>1
  <2>3. Unused[j + 1] = 2 * Unused[j] - CountOf(j + 1)
    BY <2>1 DEF Kraft
  <2>4. counts[j + 1] = CountOf(j + 1)
    BY <1>0, <2>1
  <2>5. Unused[j] \in Nat /\ Unused[j + 1] \in Nat /\ counts[j] \in Nat /\ counts[j + 1] \in Nat
    BY <1>0, <2>1, KraftType
  <2> DEFINE e == 2^(j - Primary)
             f == 2^((j + 1) - Primary)
             x == 2^j
             y == 2^(j + 1)
  <2>6. e \in Nat /\ x \in Nat /\ y = 2 * x
    BY <2>1, PowType, PowDouble
  <2>7. f = 2 * e
    <3>1. 2^((j - Primary) + 1) = 2 * 2^(j - Primary)
      BY <2>1, PowDouble
    <3> QED BY <2>1, <3>1
  <2>8. r[j] = (K + 1) * e - ((x - Unused[j]) - counts[j])
    BY <1>3
  <2> HIDE DEF e, f, x, y
  <2>9. (K + 1) * f = 2 * ((K + 1) * e) /\ (K + 1) * e \in Nat
    BY <2>6, <2>7
  <2>10. r[j + 1] = (K + 1) * f - ((y - Unused[j + 1]) - counts[j + 1])
    <3> DEFINE m == (K + 1) * e
    <3>1. m \in Nat /\ (K + 1) * f = 2 * m /\ r[j] = m - ((x - Unused[j]) - counts[j])
      BY <2>8, <2>9
    <3> HIDE DEF m
    <3> QED BY <2>2, <2>3, <2>4, <2>5, <2>6, <3>1
  <2> QED BY <2>1, <2>10 DEF f, y
<1>4. L..MaxLen \subseteq T
  <2> HIDE DEF T
  <2>1. L \in Int /\ MaxLen \in Int
    BY <1>0, Sizes
  <2> QED BY <1>2, <1>3, <2>1, IntervalInduction
<1>5. n \in T
  BY <1>4
<1> QED BY <1>5 DEF r

(* A slot of the current table whose reversal starts with the key.         *)
LEMMA KeyInSlots ==
  ASSUME NEW b \in 0..Primary, initial_high_bits = 2^b, top \in Nat, NEW cl \in 1..Primary, cl <= b,
         NEW key \in Nat, key < 2^cl, NEW x \in Nat, x < 2^b, Reversed(x, cl) = key
  PROVE  top + x \in SlotsOfKey(key, cl)
<1>0. /\ cl \in 0..Primary /\ cl \in 0..MaxLen /\ cl \in Nat /\ b \in 0..MaxLen + 1 /\ b \in Nat
      /\ b - cl \in Nat /\ cl \in 0..MaxLen + 1
  BY Sizes
<1> DEFINE e == 2^cl
           g == 2^(b - cl)
           p == 2^Primary
           h == x \div e
           z == x % e
<1>1. 2^b = e * g /\ e \in Nat /\ 1 <= e /\ g \in Nat /\ 1 <= g /\ 2^b \in Nat
  BY <1>0, PowSplit
<1>2. 2^b <= p /\ p \in Nat /\ 1 <= p
  BY <1>0, PowMono, DepthType
<1>3. h \in Nat /\ h * e \in Nat /\ z \in Nat /\ z < e /\ x = h * e + z
  <2> HIDE DEF e
  <2> QED BY <1>1, DivFacts
<1>4. Reversed(z, cl) = key
  <2> HIDE DEF h, z
  <2>1. Reversed(h * 2^cl + z, cl) = Reversed(z, cl)
    BY <1>0, <1>3, ReversedLow
  <2> QED BY <1>3, <2>1
<1>5. z = Reversed(key, cl)
  <2> HIDE DEF z
  <2>1. Reversed(Reversed(z, cl), cl) = z
    BY <1>0, <1>3, ReversedTwice
  <2> QED BY <1>4, <2>1
<1>6. Reverse(key) \div 2^(Primary - cl) = z
  BY <1>0, <1>5, ShiftedReverse
<1>7. initial_high_bits \div e = g
  <2> HIDE DEF e, g
  <2>1. initial_high_bits = g * e /\ g * e \in Nat
    BY <1>1
  <2>2. g * e <= g * e /\ g * e < g * e + e /\ g \in Int
    BY <1>1, <2>1
  <2> QED BY <1>1, <2>1, <2>2, DivUnique
<1>8. h < g
  <2> HIDE DEF e, g, h, z
  <2>1. ASSUME g <= h PROVE FALSE
    <3>1. g * e <= h * e /\ g * e = e * g /\ g * e \in Nat
      BY <1>1, <1>3, <2>1, MulMono
    <3> QED BY <1>1, <1>3, <3>1
  <2> QED BY <1>1, <1>3, <2>1
<1>9. x % p = x
  <2> HIDE DEF p
  <2>1. x < p
    BY <1>1, <1>2
  <2>2. x \div p = 0
    <3>1. 0 * p <= x /\ x < 0 * p + p /\ 0 \in Int
      BY <1>2, <2>1
    <3> QED BY <1>2, <3>1, DivUnique
  <2>3. x = (x \div p) * p + (x % p) /\ x % p \in Nat
    BY <1>2, DivFacts
  <2>4. (x \div p) * p = 0
    BY <1>2, <2>2
  <2> QED BY <2>3, <2>4
<1>10. h \in 0..(initial_high_bits \div 2^cl) - 1
  <2> HIDE DEF h, g
  <2> QED BY <1>1, <1>3, <1>7, <1>8
<1>11. top + x = top + ((h * 2^cl + (Reverse(key) \div 2^(Primary - cl))) % 2^Primary)
  BY <1>3, <1>6, <1>9
<1> HIDE DEF h
<1> QED BY <1>10, <1>11 DEF SlotsOfKey

(* The table holds the code c of symbol s, of length l: in the first       *)
(* level, or in the table that its first bits lead to.                     *)
PlacedIn(table, width, s, l, c) ==
  IF l <= Primary
  THEN \A x \in 0..2^width - 1 : Reversed(x, l) = c => table[x] = SymbolEntry(s, l)
  ELSE \E t \in Nat, b \in l - Primary..Depth :
         /\ t + 2^b <= TableSize
         /\ table[Reverse(c \div 2^(l - Primary))] = RedirectEntry(t, b)
         /\ \A y \in 0..2^b - 1 : Reversed(y, l - Primary) = c % 2^(l - Primary) =>
              table[t + y] = SymbolEntry(s, l - Primary)
Placed(s) == PlacedIn(huffs, n_huffs_bits, s, LengthOf(s), CodeOf(s))
AllPlaced(n) == \A j \in 0..n - 1 : Placed(symbols[j])

(* The current second level table has its redirect, and is wide enough for *)
(* the codes that start with its key.                                      *)
CurrentIs(table, base, size, key, b) ==
  /\ size = 2^b /\ table[Reverse(key)] = RedirectEntry(base, b)
  /\ (key + 1) * 2^b <= 2^(Primary + b) - Unused[Primary + b]
Current ==
  2^Primary <= top =>
    \E b \in 1..Depth : CurrentIs(huffs, top, initial_high_bits, prev_redirect_key, b)

Built ==
  /\ pc \in {"code", "redirect", "put"} => AllPlaced(i) /\ Current
  /\ status = "ok" =>
       pc = "done" /\ Kraft(Unused) /\ AllSorted /\ Widths /\ AllPlaced(n_symbols)

LEMMA EntryNotStale ==
  /\ \A s, n : SymbolEntry(s, n) # Stale
  /\ \A t, b : RedirectEntry(t, b) # Stale
<1>1. Stale.kind = "stale"
  BY DEF Stale
<1>2. \A s, n : SymbolEntry(s, n).kind = "symbol"
  BY DEF SymbolEntry
<1>3. \A t, b : RedirectEntry(t, b).kind = "redirect"
  BY DEF RedirectEntry
<1> QED BY <1>1, <1>2, <1>3

LEMMA CodeOfType ==
  ASSUME SetupOK, Kraft(Unused), NEW s \in 0..(NCodes - 1) - n_codes0, NEW l \in 1..MaxLen,
         l = LengthOf(s)
  PROVE  /\ CodeOf(s) \in Nat /\ CodeOf(s) < 2^l
         /\ (2^l - Unused[l]) - CountOf(l) <= CodeOf(s) /\ CodeOf(s) < 2^l - Unused[l]
         /\ CodeOf(s) = ((2^l - Unused[l]) - CountOf(l)) + Seen(l, n_codes0 + s)
         /\ Seen(l, n_codes0 + s) \in Nat
         /\ 2^l \in Nat /\ Unused[l] \in Nat /\ CountOf(l) \in Nat
<1> DEFINE m == n_codes0 + s
<1>1. m \in n_codes0..NCodes - 1 /\ m \in n_codes0..NCodes
  BY CodesFinite, Sizes
<1>2. code_lengths[m] = l
  BY DEF LengthOf
<1>3. Seen(l, m) \in Nat /\ Seen(l, m) < CountOf(l)
  BY <1>1, <1>2, SeenType, SeenNext
<1>4. CountOf(l) \in Nat
  BY CountType
<1>5. (2^l - Unused[l]) - CountOf(l) \in Nat /\ 2^l \in Nat /\ Unused[l] \in Nat
  BY <1>4, CodeBounds
<1>6. CodeOf(s) = ((2^l - Unused[l]) - CountOf(l)) + Seen(l, m)
  BY DEF CodeOf
<1> QED BY <1>3, <1>4, <1>5, <1>6

LEMMA CurrentCode ==
  ASSUME SetupOK, Kraft(Unused), AllSorted, InOrder, LengthOf(symbols[i]) = prev_cl
  PROVE  CodeOf(symbols[i]) = code
<1> DEFINE L == prev_cl
           s == symbols[i]
<1>1. /\ L \in 1..MaxLen /\ i \in Nat /\ i < n_symbols /\ n_symbols <= NCodes
      /\ s \in 0..(NCodes - 1) - n_codes0 /\ counts[L] \in Nat
  BY PutFacts
<1>2. Sorted(i)
  <2>1. n_symbols \in Nat
    BY CountType DEF AllSorted
  <2> QED BY <1>1, <2>1 DEF AllSorted
<1>3. Rank(s) = i
  BY <1>2 DEF Sorted
<1>4. Rank(s) = Total(L - 1) + Seen(L, n_codes0 + s)
  BY DEF Rank
<1>5. i = Total(L) - counts[L] /\ code = (2^L - Unused[L]) - counts[L]
  BY DEF InOrder
<1>6. Total(L) = Total(L - 1) + CountOf(L)
  BY <1>1, TotalStep
<1>7. Total(L) \in Nat /\ Total(L - 1) \in Nat
  BY CountType
<1>8. /\ CodeOf(s) = ((2^L - Unused[L]) - CountOf(L)) + Seen(L, n_codes0 + s)
      /\ Seen(L, n_codes0 + s) \in Nat
      /\ 2^L \in Nat /\ Unused[L] \in Nat /\ CountOf(L) \in Nat
  BY <1>1, CodeOfType
<1>9. CodeOf(s) = code
  <2> DEFINE y == 2^L
             u == Unused[L]
             n == CountOf(L)
             k == Seen(L, n_codes0 + s)
             a == Total(L - 1)
             z == Total(L)
             d == counts[L]
             c == CodeOf(s)
  <2>1. /\ c = ((y - u) - n) + k /\ code = (y - u) - d /\ z - d = a + k /\ z = a + n
        /\ y \in Nat /\ u \in Nat /\ n \in Nat /\ k \in Nat /\ a \in Nat /\ z \in Nat /\ d \in Nat
    BY <1>1, <1>3, <1>4, <1>5, <1>6, <1>7, <1>8
  <2> HIDE DEF y, u, n, k, a, z, d, c
  <2>2. c = code
    BY <2>1
  <2> QED BY <2>2 DEF c
<1> QED BY <1>9

LEMMA ReverseType ==
  ASSUME NEW k \in Nat
  PROVE  Reverse(k) \in Slots /\ Reverse(k) \in Nat /\ Reverse(k) < 2^Primary
<1>1. Reverse(k) \in Nat /\ Reverse(k) < 2^Primary
  BY DepthType, ReversedType DEF Reverse
<1> QED BY <1>1, DepthType, Sizes DEF Slots

(* What is in the table stays if only stale slots are written.             *)
LEMMA PlacedKept ==
  ASSUME NEW t, NEW u, \A x \in Slots : t[x] # Stale => u[x] = t[x],
         NEW w \in 0..Primary, NEW s, NEW l \in 1..MaxLen, NEW c \in Nat, c < 2^l,
         PlacedIn(t, w, s, l, c)
  PROVE  PlacedIn(u, w, s, l, c)
<1>1. CASE l <= Primary
  <2>1. ASSUME NEW x \in 0..2^w - 1, Reversed(x, l) = c PROVE u[x] = SymbolEntry(s, l)
    <3>1. t[x] = SymbolEntry(s, l)
      BY <1>1, <2>1 DEF PlacedIn
    <3>2. x \in Slots
      <4>1. w \in 0..MaxLen + 1 /\ w \in Nat /\ w <= Primary
        BY Sizes
      <4>2. 2^w \in Nat /\ 2^w <= 2^Primary
        BY <4>1, PowType, PowMono, DepthType
      <4> QED BY <4>2, DepthType, Sizes DEF Slots
    <3> QED BY <3>1, <3>2, EntryNotStale
  <2> QED BY <1>1, <2>1 DEF PlacedIn
<1>2. CASE ~(l <= Primary)
  <2>1. PICK base \in Nat, b \in l - Primary..Depth :
         /\ base + 2^b <= TableSize
         /\ t[Reverse(c \div 2^(l - Primary))] = RedirectEntry(base, b)
         /\ \A y \in 0..2^b - 1 : Reversed(y, l - Primary) = c % 2^(l - Primary) =>
              t[base + y] = SymbolEntry(s, l - Primary)
    BY <1>2 DEF PlacedIn
  <2>2. l \in Primary + 1..MaxLen
    BY <1>2, Sizes
  <2>3. SecondLevel(c, l) = c \div 2^(l - Primary) /\ SecondLevel(c, l) \in Nat
    BY <2>2, LongCode
  <2>4. Reverse(c \div 2^(l - Primary)) \in Slots
    BY <2>3, ReverseType
  <2>5. u[Reverse(c \div 2^(l - Primary))] = RedirectEntry(base, b)
    BY <2>1, <2>4, EntryNotStale
  <2>6. ASSUME NEW y \in 0..2^b - 1, Reversed(y, l - Primary) = c % 2^(l - Primary)
        PROVE  u[base + y] = SymbolEntry(s, l - Primary)
    <3>1. t[base + y] = SymbolEntry(s, l - Primary)
      BY <2>1, <2>6
    <3>2. base + y \in Slots
      <4>1. b \in 0..MaxLen + 1
        BY <2>2, DepthType, Sizes
      <4>2. 2^b \in Nat
        BY <4>1, PowType
      <4> QED BY <2>1, <4>2, Sizes DEF Slots
    <3> QED BY <3>1, <3>2, EntryNotStale
  <2> QED BY <1>2, <2>1, <2>5, <2>6 DEF PlacedIn
<1> QED BY <1>1, <1>2

LEMMA CodeSame ==
  ASSUME UNCHANGED setup
  PROVE  \A s : CodeOf(s)' = CodeOf(s) /\ LengthOf(s)' = LengthOf(s)
<1>1. /\ \A l : CountOf(l)' = CountOf(l)
      /\ \A l, m : Seen(l, m)' = Seen(l, m)
      /\ \A s : LengthOf(s)' = LengthOf(s)
  BY SetupSame
<1>2. Unused' = Unused /\ n_codes0' = n_codes0
  BY UnusedSame DEF setup
<1>3. ASSUME NEW s PROVE CodeOf(s)' = CodeOf(s)
  <2>1. PICK l : l = LengthOf(s)
    OBVIOUS
  <2>2. LengthOf(s)' = l
    BY <1>1, <2>1
  <2>3. CountOf(LengthOf(s))' = CountOf(l) /\ Seen(LengthOf(s), n_codes0 + s)' = Seen(l, n_codes0 + s)
    BY <1>2, <2>1, <2>2 DEF CountOf, CodesOf, Codes0, Seen, SeenOf, setup
  <2> QED BY <1>2, <2>1, <2>2, <2>3 DEF CodeOf
<1> QED BY <1>1, <1>3

(* The symbols that are in the table stay there.                           *)
LEMMA AllPlacedKept ==
  ASSUME SetupOK, Kraft(Unused), AllSorted, Widths, NEW n \in Nat, n <= n_symbols, AllPlaced(n),
         WritesStale, UNCHANGED <<setup, symbols, n_huffs_bits>>
  PROVE  AllPlaced(n)'
<1>1. ASSUME NEW j \in 0..n - 1 PROVE Placed(symbols[j])'
  <2>1. PICK s : s = symbols[j]
    OBVIOUS
  <2>2. PICK l : l = LengthOf(s)
    OBVIOUS
  <2>3. PICK c : c = CodeOf(s)
    OBVIOUS
  <2>4. n_symbols \in Nat
    BY CountType DEF AllSorted
  <2>5. Sorted(j)
    BY <2>4 DEF AllSorted
  <2>6. s \in 0..(NCodes - 1) - n_codes0 /\ l \in 1..MaxLen
    BY <2>1, <2>2, <2>5 DEF Sorted
  <2>7. c \in Nat /\ c < 2^l
    BY <2>2, <2>3, <2>6, CodeOfType
  <2>8. PlacedIn(huffs, n_huffs_bits, s, l, c)
    BY <2>1, <2>2, <2>3 DEF AllPlaced, Placed
  <2>9. \A x \in Slots : huffs[x] # Stale => huffs'[x] = huffs[x]
    BY DEF WritesStale
  <2>10. PlacedIn(huffs', n_huffs_bits, s, l, c)
    BY <2>6, <2>7, <2>8, <2>9, PlacedKept DEF Widths
  <2>11. LengthOf(s)' = l /\ CodeOf(s)' = c
    BY <2>2, <2>3, CodeSame
  <2>12. symbols'[j] = s
    BY <2>1
  <2>13. LengthOf(symbols[j])' = l /\ CodeOf(symbols[j])' = c
    <3>1. LengthOf(symbols[j])' = LengthOf(s)' /\ CodeOf(symbols[j])' = CodeOf(s)'
      BY <2>12 DEF LengthOf, CodeOf, Seen, SeenOf, CountOf, CodesOf
    <3> QED BY <2>11, <3>1
  <2> QED BY <2>10, <2>12, <2>13 DEF Placed
<1> QED BY <1>1 DEF AllPlaced

(* The current table is wide enough for every code with its key.           *)
LEMMA WideEnough ==
  ASSUME SetupOK, NEW r, Kraft(r), NEW L \in Primary + 1..MaxLen, NEW c \in Nat,
         (2^L - r[L]) - CountOf(L) <= c, NEW K, K = c \div 2^(L - Primary), NEW b \in 1..Depth,
         (K + 1) * 2^b <= 2^(Primary + b) - r[Primary + b]
  PROVE  L - Primary <= b
<1> DEFINE a == Primary + b
           e == 2^(L - Primary)
           f == 2^b
           g == 2^(L - a)
           x == 2^a - r[a]
           y == (2^L - r[L]) - CountOf(L)
<1>0. L - Primary \in Nat /\ L - Primary \in 0..MaxLen + 1 /\ b \in Nat /\ a \in Lengths /\ L \in Lengths
      /\ b \in 0..MaxLen + 1
  BY DepthType, Sizes DEF Lengths
<1>1. SUFFICES ASSUME b < L - Primary PROVE FALSE
  BY <1>0
<1>2. a < L /\ (L - Primary) - b = L - a /\ b <= L - Primary
  BY <1>0, <1>1, Sizes
<1>3. e = f * g /\ e \in Nat /\ 1 <= e /\ f \in Nat /\ g \in Nat
  <2>1. 2^(L - Primary) = 2^b * 2^((L - Primary) - b) /\ 2^b \in Nat /\ 2^((L - Primary) - b) \in Nat
        /\ 2^(L - Primary) \in Nat /\ 1 <= 2^(L - Primary)
    BY <1>0, <1>2, PowSplit
  <2> QED BY <1>2, <2>1
<1>4. x * g <= y
  BY <1>0, <1>2, KraftAfter
<1>5. x \in Int /\ y \in Int
  <2>1. a \in 0..MaxLen + 1 /\ L \in 0..MaxLen + 1
    BY <1>0, Sizes DEF Lengths
  <2>2. 2^a \in Nat /\ 2^L \in Nat /\ r[a] \in Nat /\ r[L] \in Nat /\ CountOf(L) \in Nat
    BY <1>0, <2>1, PowType, KraftType, CountType
  <2> QED BY <2>2
<1>6. (K + 1) * f <= x /\ y <= c
  OBVIOUS
<1> HIDE DEF x, y, e, f, g
<1>7. K \in Nat /\ K * e \in Nat /\ c < K * e + e
  <2>1. K = c \div e
    BY DEF e
  <2> QED BY <1>3, <2>1, DivFacts, ZenonT(60)
<1>8. ((K + 1) * f) * g <= x * g
  <2>1. (K + 1) * f \in Int
    BY <1>3, <1>7
  <2> QED BY <1>3, <1>5, <1>6, <2>1, MulMono
<1>9. ((K + 1) * f) * g = (K + 1) * (f * g) /\ (K + 1) * e = K * e + e
  BY <1>3, <1>7
<1>10. x * g \in Int
  BY <1>3, <1>5
<1>11. (K + 1) * e <= x * g
  BY <1>3, <1>8, <1>9
<1> QED BY <1>3, <1>4, <1>5, <1>6, <1>7, <1>9, <1>10, <1>11

LEMMA CurrentKept ==
  ASSUME Current, Levels, WritesStale,
         UNCHANGED <<setup, top, initial_high_bits, prev_redirect_key>>
  PROVE  Current'
<1>1. Unused' = Unused
  BY UnusedSame
<1>2. ASSUME 2^Primary <= top
      PROVE  \E b \in 1..Depth :
               CurrentIs(huffs', top, initial_high_bits, prev_redirect_key, b)
  <2>1. PICK b \in 1..Depth : CurrentIs(huffs, top, initial_high_bits, prev_redirect_key, b)
    BY <1>2 DEF Current
  <2>2. prev_redirect_key \in Nat
    <3>1. top # 0
      BY <1>2, DepthType
    <3> QED BY <3>1 DEF Levels
  <2>3. Reverse(prev_redirect_key) \in Slots
    BY <2>2, ReverseType
  <2>4. huffs[Reverse(prev_redirect_key)] = RedirectEntry(top, b)
    BY <2>1 DEF CurrentIs
  <2>5. huffs'[Reverse(prev_redirect_key)] = RedirectEntry(top, b)
    BY <2>3, <2>4, EntryNotStale DEF WritesStale
  <2> QED BY <2>1, <2>5 DEF CurrentIs
<1> QED BY <1>1, <1>2 DEF Current, CurrentIs

(* Put inserts the symbol.                                                 *)
LEMMA PutPlaces ==
  ASSUME Inv, Fresh, Built, Put, NEW s, s = symbols[i], NEW L, L = prev_cl, NEW c, c = code
  PROVE  PlacedIn(huffs', n_huffs_bits, s, L, c)
<1>1. /\ pc = "put" /\ SetupOK /\ Kraft(Unused)
      /\ AllSorted /\ InOrder /\ Room /\ Keyed /\ LengthOf(symbols[i]) = prev_cl
      /\ Levels /\ Widths /\ Current
  BY DEF Inv, Inserting, Fresh, Built, Put
<1>2. /\ L \in 1..MaxLen /\ c \in Nat /\ c < 2^L
      /\ 1 <= counts[L] /\ counts[L] \in Nat /\ counts[L] <= CountOf(L)
      /\ s \in 0..(NCodes - 1) - n_codes0
      /\ PutLength \in 1..Primary /\ PutKey \in Nat /\ PutKey < 2^PutLength
  BY <1>1, PutFacts
<1> DEFINE to == SlotsOfKey(PutKey, PutLength)
<1>3. huffs' = [x \in Slots |-> IF x \in to THEN SymbolEntry(s, PutLength) ELSE huffs[x]]
      /\ WritesStale
  BY PutStep, FreshPut
<1>4. to \subseteq Slots
  BY <1>1, <1>2, SlotsInTable
<1>5. top \in Nat /\ initial_high_bits \in Nat
  BY <1>1 DEF Room
<1>6. CASE L <= Primary
  <2>1. PutLength = L /\ PutKey = c /\ L \in 1..Primary
    BY <1>2, <1>6, Sizes DEF PutLength, PutKey
  <2>2. top = 0 /\ initial_high_bits = 2^n_huffs_bits
    BY <1>1, <1>6, DepthType DEF Levels
  <2>3. n_huffs_bits \in 0..Primary /\ L <= n_huffs_bits
    <3>1. CountOf(L) # 0
      <4>1. CountOf(L) \in Nat
        BY <1>1, CountType
      <4> QED BY <1>2, <4>1
    <3> QED BY <1>1, <1>2, <1>6, <3>1 DEF Widths
  <2>4. ASSUME NEW x \in 0..2^n_huffs_bits - 1, Reversed(x, L) = c PROVE huffs'[x] = SymbolEntry(s, L)
    <3>1. 2^n_huffs_bits \in Nat
      <4>1. n_huffs_bits \in 0..MaxLen + 1
        BY <2>3, Sizes
      <4> QED BY <4>1, PowType
    <3>2. x \in Nat /\ x < 2^n_huffs_bits
      BY <3>1
    <3>3. top + x \in SlotsOfKey(c, L)
      BY <1>2, <1>5, <2>1, <2>2, <2>3, <2>4, <3>2, KeyInSlots
    <3>4. x \in to
      BY <2>1, <2>2, <3>2, <3>3
    <3> QED BY <1>3, <1>4, <2>1, <3>4
  <2> QED BY <1>6, <2>4 DEF PlacedIn
<1>7. CASE ~(L <= Primary)
  <2> DEFINE l == L - Primary
  <2>1. PutLength = l /\ PutKey = c % 2^l /\ L \in Primary + 1..MaxLen
    BY <1>2, <1>7, Sizes DEF PutLength, PutKey
  <2>k. PICK K : K = SecondLevel(c, L)
    OBVIOUS
  <2>2. prev_redirect_key = K /\ K \in Nat /\ K = c \div 2^l /\ l \in 1..Depth
    <3>1. prev_cl > Primary
      BY <2>1, Sizes
    <3> QED BY <1>1, <1>2, <2>1, <2>k, <3>1, LongCode DEF Keyed
  <2>3. 2^Primary <= top /\ top + initial_high_bits = next_top
    <3>1. prev_redirect_key # NoKey
      BY <2>2 DEF NoKey
    <3> QED BY <1>1, <3>1 DEF Levels
  <2>4. PICK b \in 1..Depth : CurrentIs(huffs, top, initial_high_bits, prev_redirect_key, b)
    BY <1>1, <2>3 DEF Current
  <2>5. /\ initial_high_bits = 2^b /\ huffs[Reverse(K)] = RedirectEntry(top, b)
        /\ (K + 1) * 2^b <= 2^(Primary + b) - Unused[Primary + b]
    BY <2>2, <2>4 DEF CurrentIs
  <2>6. (2^L - Unused[L]) - CountOf(L) <= c
    <3>1. CodeOf(s) = c /\ LengthOf(s) = L
      BY <1>1, CurrentCode
    <3> QED BY <1>1, <1>2, <3>1, CodeOfType
  <2>7. l <= b /\ b \in l..Depth
    <3>1. L - Primary <= b
      BY <1>1, <1>2, <2>1, <2>2, <2>5, <2>6, WideEnough
    <3> QED BY <2>2, <3>1, DepthType
  <2>8. b \in 0..Primary /\ b \in 0..MaxLen + 1 /\ l \in 1..Primary
    BY <2>2, DepthType, Sizes
  <2>9. top + 2^b <= TableSize
    BY <1>1, <2>3, <2>5 DEF Room
  <2>10. huffs'[Reverse(c \div 2^l)] = RedirectEntry(top, b)
    <3>1. Reverse(K) \in Slots
      BY <2>2, ReverseType
    <3>2. huffs'[Reverse(K)] = RedirectEntry(top, b)
      BY <1>3, <2>5, <3>1, EntryNotStale DEF WritesStale
    <3> QED BY <2>2, <3>2
  <2>11. ASSUME NEW y \in 0..2^b - 1, Reversed(y, l) = c % 2^l PROVE huffs'[top + y] = SymbolEntry(s, l)
    <3>1. 2^b \in Nat
      BY <2>8, PowType
    <3>2. y \in Nat /\ y < 2^b
      BY <3>1
    <3> DEFINE key == c % 2^l
    <3>3. key \in Nat /\ key < 2^l /\ PutKey = key
      BY <1>2, <2>1
    <3>4. Reversed(y, l) = key
      BY <2>11
    <3> HIDE DEF key, l
    <3>5. top + y \in SlotsOfKey(key, l)
      BY <1>5, <2>5, <2>7, <2>8, <3>2, <3>3, <3>4, KeyInSlots
    <3>6. top + y \in to
      BY <2>1, <3>3, <3>5
    <3> QED BY <1>3, <1>4, <2>1, <3>6
  <2>12. \E t \in Nat, d \in L - Primary..Depth :
         /\ t + 2^d <= TableSize
         /\ huffs'[Reverse(c \div 2^(L - Primary))] = RedirectEntry(t, d)
         /\ \A y \in 0..2^d - 1 : Reversed(y, L - Primary) = c % 2^(L - Primary) =>
              huffs'[t + y] = SymbolEntry(s, L - Primary)
    BY <1>5, <2>7, <2>9, <2>10, <2>11
  <2> QED BY <1>7, <2>12 DEF PlacedIn
<1> QED BY <1>6, <1>7

LEMMA AllSortedSame ==
  ASSUME UNCHANGED <<setup, sorted>>
  PROVE  AllSorted => AllSorted'
<1>1. UNCHANGED setup /\ UNCHANGED <<symbols, n_symbols>>
  BY DEF sorted
<1>2. \A l : Total(l)' = Total(l)
  BY <1>1, SetupSame
<1>3. \A j : Sorted(j)' <=> Sorted(j)
  BY <1>1, SortedSame
<1> QED BY <1>1, <1>2, <1>3 DEF AllSorted

LEMMA BuiltPut == Inv /\ Fresh /\ Built /\ Put => Built'
<1> SUFFICES ASSUME Inv, Fresh, Built, Put PROVE Built'
  OBVIOUS
<1>1. /\ pc = "put" /\ SetupOK /\ Kraft(Unused)
      /\ AllSorted /\ InOrder /\ LengthOf(symbols[i]) = prev_cl
      /\ Levels /\ Widths /\ Current /\ AllPlaced(i)
  BY DEF Inv, Inserting, Fresh, Built, Put
<1>2. /\ i' = i + 1
      /\ IF i + 1 >= n_symbols THEN pc' = "done" /\ status' = "ok"
         ELSE pc' = "code" /\ UNCHANGED status
      /\ UNCHANGED <<setup, sorted, n_huffs_bits, prev_redirect_key, top, initial_high_bits>>
  BY PutStep
<1>3. WritesStale
  BY FreshPut
<1>4. i \in Nat /\ i < n_symbols /\ n_symbols \in Nat
  <2>1. n_symbols \in Nat
    BY <1>1, CountType DEF AllSorted
  <2> QED BY <1>1, <2>1, PutFacts
<1>5. UNCHANGED <<symbols, n_symbols>>
  BY <1>2 DEF sorted
<1>6. AllPlaced(i)'
  <2>n. PICK n \in Nat : n = i
    BY <1>4
  <2>1. AllPlaced(n)'
    <3>1. n <= n_symbols /\ AllPlaced(n)
      BY <1>1, <1>4, <2>n
    <3> QED BY <1>1, <1>2, <1>3, <1>5, <3>1, AllPlacedKept
  <2>2. PICK s : s = symbols[n]
    OBVIOUS
  <2>3. PICK L : L = LengthOf(s)
    OBVIOUS
  <2>4. PICK c : c = CodeOf(s)
    OBVIOUS
  <2>5. L = prev_cl /\ c = code
    BY <1>1, <2>n, <2>2, <2>3, <2>4, CurrentCode
  <2>6. PlacedIn(huffs', n_huffs_bits, s, L, c)
    BY <2>n, <2>2, <2>5, PutPlaces
  <2>7. LengthOf(s)' = L /\ CodeOf(s)' = c
    BY <1>2, <2>3, <2>4, CodeSame
  <2>8. Placed(s)'
    BY <1>2, <2>6, <2>7 DEF Placed
  <2>9. symbols'[n] = s
    BY <1>5, <2>2
  <2>10. \A j \in 0..n : j \in 0..n - 1 \/ j = n
    OBVIOUS
  <2>11. \A j \in 0..n : Placed(symbols[j])'
    <3>1. Placed(symbols[n])'
      BY <2>8, <2>9 DEF Placed, LengthOf, CodeOf, Seen, SeenOf, CountOf, CodesOf
    <3> QED BY <2>1, <2>10, <3>1 DEF AllPlaced
  <2>12. i' = n + 1 /\ (n + 1) - 1 = n
    BY <1>2, <2>n
  <2>13. \A j \in 0..(n + 1) - 1 : Placed(symbols[j])'
    BY <2>11, <2>12
  <2> QED BY <2>12, <2>13 DEF AllPlaced
<1>7. CASE i + 1 >= n_symbols
  <2>1. pc' = "done" /\ status' = "ok" /\ i' = n_symbols'
    BY <1>2, <1>4, <1>5, <1>7
  <2>2. Kraft(Unused)'
    BY <1>1, <1>2, UnusedSame
  <2>3. AllSorted' /\ Widths'
    BY <1>1, <1>2, AllSortedSame, WidthsSame
  <2>4. AllPlaced(n_symbols)'
    BY <1>6, <2>1 DEF AllPlaced
  <2> QED BY <2>1, <2>2, <2>3, <2>4 DEF Built
<1>8. CASE ~(i + 1 >= n_symbols)
  <2>1. pc' = "code" /\ status' = status
    BY <1>2, <1>8
  <2>2. status # "ok"
    BY <1>1 DEF Built
  <2>3. Current'
    BY <1>1, <1>2, <1>3, CurrentKept
  <2> QED BY <1>6, <2>1, <2>2, <2>3 DEF Built
<1> QED BY <1>7, <1>8

(* A new table is as wide as the codes that start with its key need.       *)
LEMMA BuiltRedirect == Inv /\ Fresh /\ Built /\ Redirect => Built'
<1> SUFFICES ASSUME Inv, Fresh, Built, Redirect PROVE Built'
  OBVIOUS
<1>1. /\ pc = "redirect" /\ SetupOK /\ Kraft(Unused)
      /\ AllSorted /\ InOrder /\ LengthOf(symbols[i]) = prev_cl
      /\ huffs = [s \in Slots |-> huffs[s]]
      /\ Widths /\ AllPlaced(i) /\ status # "ok"
  BY DEF Inv, Inserting, Fresh, Built, Redirect
<1>2. CASE Fail("no_room")
  BY <1>2 DEF Fail, Built
<1>3. CASE ~Fail("no_room")
  <2>b. PICK b : b = TableBits
    OBVIOUS
  <2>k. PICK K : K = SecondLevel(code, prev_cl)
    OBVIOUS
  <2>t. PICK t : t = next_top
    OBVIOUS
  <2>1. /\ prev_redirect_key' = K
        /\ initial_high_bits' = 2^b
        /\ top' = t
        /\ huffs' = [huffs EXCEPT ![Reverse(K)] = RedirectEntry(t, b)]
        /\ pc' = "put"
        /\ UNCHANGED <<status, setup, sorted, i, n_huffs_bits>>
    BY <1>3, <2>b, <2>k, <2>t, RedirectStep
  <2>2. /\ prev_cl \in Primary + 1..MaxLen /\ code \in Nat /\ code < 2^prev_cl
        /\ Aligned(code, prev_cl)
        /\ Primary + b \in LastLength(prev_cl) /\ Primary + b \in prev_cl..MaxLen
        /\ b \in 1..Depth
    BY <1>1, <2>b, RedirectFacts
  <2>3. K \in Nat /\ code = K * 2^(prev_cl - Primary)
    BY <2>2, <2>k, LongCode, AlignedRange
  <2> DEFINE n == Primary + b
  <2>4. (K + 1) * 2^b <= 2^n - Unused[n]
    <3>1. prev_cl > Primary /\ n - Primary = b
      BY <2>2, Sizes
    <3>2. Left(prev_cl)[n] = (K + 1) * 2^(n - Primary) - ((2^n - Unused[n]) - counts[n])
      BY <1>1, <2>2, <2>3, <3>1, LeftExact
    <3>3. Left(prev_cl)[n] <= counts[n]
      BY <2>2 DEF LastLength
    <3>4. n \in Lengths /\ n \in 0..MaxLen + 1 /\ b \in 0..MaxLen + 1
      BY <2>2, DepthType, Sizes DEF Lengths
    <3>5. 2^n \in Nat /\ 2^b \in Nat /\ Unused[n] \in Nat /\ counts[n] \in Nat
      BY <1>1, <3>4, PowType, KraftType DEF InOrder
    <3> DEFINE x == (K + 1) * 2^b
               y == 2^n
               u == Unused[n]
               c == counts[n]
    <3>6. x - ((y - u) - c) <= c /\ x \in Nat /\ y \in Nat /\ u \in Nat /\ c \in Nat
      BY <2>3, <3>1, <3>2, <3>3, <3>5
    <3> HIDE DEF x, y, u, c
    <3>7. x <= y - u
      BY <3>6
    <3> QED BY <3>7 DEF x, y, u
  <2>5. huffs'[Reverse(K)] = RedirectEntry(t, b)
    <3>1. Reverse(K) \in Slots
      BY <2>3, ReverseType
    <3> QED BY <1>1, <2>1, <3>1
  <2>6. Current'
    <3>1. Unused' = Unused
      BY <2>1, UnusedSame
    <3>2. CurrentIs(huffs, top, initial_high_bits, prev_redirect_key, b)'
      BY <2>1, <2>4, <2>5, <3>1 DEF CurrentIs
    <3> QED BY <2>2, <3>2 DEF Current
  <2>7. WritesStale
    BY FreshRedirect
  <2>8. AllPlaced(i)'
    <3>1. n_symbols \in Nat /\ UNCHANGED symbols
      BY <1>1, <2>1, CountType DEF AllSorted, sorted
    <3>2. i \in Nat /\ i <= n_symbols
      BY <1>1, <3>1, PutFacts
    <3>n. PICK m \in Nat : m = i
      BY <3>2
    <3>3. AllPlaced(m)'
      BY <1>1, <2>1, <2>7, <3>1, <3>2, <3>n, AllPlacedKept
    <3>4. m = i'
      BY <2>1, <3>n
    <3> QED BY <3>3, <3>4 DEF AllPlaced
  <2> QED BY <1>1, <2>1, <2>6, <2>8 DEF Built
<1> QED BY <1>2, <1>3

LEMMA BuiltCanonical == Inv /\ Fresh /\ Built /\ Canonical => Built'
<1> SUFFICES ASSUME Inv, Fresh, Built, Canonical PROVE Built'
  OBVIOUS
<1>1. /\ pc = "code" /\ SetupOK /\ Kraft(Unused) /\ AllSorted /\ InOrder
      /\ Levels /\ Widths /\ AllPlaced(i) /\ Current /\ status # "ok"
  BY DEF Inv, Inserting, Fresh, Built, Canonical
<1>2. /\ pc' \in {"redirect", "put"}
      /\ UNCHANGED <<status, setup, sorted, i, n_huffs_bits, prev_redirect_key, top,
                     initial_high_bits, huffs>>
  BY CanonicalStep
<1>3. WritesStale
  BY <1>2 DEF WritesStale
<1>4. Current'
  BY <1>1, <1>2, <1>3, CurrentKept
<1>5. n_symbols \in Nat /\ UNCHANGED symbols
  BY <1>1, <1>2, CountType DEF AllSorted, sorted
<1>6. i \in Nat /\ i <= n_symbols
  BY <1>1, <1>5, NextSymbol
<1>n. PICK m \in Nat : m = i
  BY <1>6
<1>7. AllPlaced(m)'
  BY <1>1, <1>2, <1>3, <1>5, <1>6, <1>n, AllPlacedKept
<1>8. m = i'
  BY <1>2, <1>n
<1>9. AllPlaced(i)'
  BY <1>7, <1>8 DEF AllPlaced
<1> QED BY <1>1, <1>2, <1>4, <1>9 DEF Built

LEMMA BuiltPrepare == Inv /\ Built /\ Prepare => Built'
<1> SUFFICES ASSUME Inv, Built, Prepare PROVE Built'
  OBVIOUS
<1>1. pc = "symbols" /\ status # "ok"
  BY DEF Built, Prepare
<1>2. top' = 0 /\ i' = 0 /\ pc' = "code" /\ status' = status
  BY PrepareStep
<1>3. ~(2^Primary <= top')
  BY <1>2, DepthType
<1>4. Current' /\ AllPlaced(i)'
  BY <1>2, <1>3 DEF Current, AllPlaced
<1> QED BY <1>1, <1>2, <1>4 DEF Built

LEMMA BuiltEarly == Built /\ (Count \/ Cover \/ Offsets \/ SortSymbol) => Built'
<1> SUFFICES ASSUME Built, Count \/ Cover \/ Offsets \/ SortSymbol PROVE Built'
  OBVIOUS
<1>1. pc \in {"count", "cover", "offsets", "symbols"} /\ status # "ok"
  BY DEF Built, Count, Cover, Offsets, SortSymbol
<1>2. pc' \in {"cover", "offsets", "symbols", "error"} /\ status' # "ok"
  BY <1>1 DEF Count, Cover, Offsets, SortSymbol, Fail
<1> QED BY <1>2 DEF Built

LEMMA BuiltStutter == Built /\ UNCHANGED vars => Built'
<1> SUFFICES ASSUME Built, UNCHANGED vars PROVE Built'
  OBVIOUS
<1>1. /\ UNCHANGED <<pc, status, i, symbols, n_symbols, n_huffs_bits, prev_redirect_key, top,
                     initial_high_bits, huffs>>
      /\ UNCHANGED setup /\ UNCHANGED sorted
  BY DEF vars, setup, sorted
<1>2. \A s : CodeOf(s)' = CodeOf(s) /\ LengthOf(s)' = LengthOf(s)
  BY <1>1, CodeSame
<1>3. Unused' = Unused /\ (Kraft(Unused) => Kraft(Unused)')
  BY <1>1, UnusedSame
<1>4. (AllSorted => AllSorted') /\ (Widths => Widths')
  BY <1>1, AllSortedSame, WidthsSame
<1>5. \A s : Placed(s)' <=> Placed(s)
  BY <1>1, <1>2 DEF Placed
<1>6. \A n : AllPlaced(n)' <=> AllPlaced(n)
  BY <1>1, <1>5 DEF AllPlaced
<1>7. Current => Current'
  BY <1>1, <1>3 DEF Current, CurrentIs
<1> QED BY <1>1, <1>3, <1>4, <1>6, <1>7 DEF Built

LEMMA BuiltNext == Inv /\ Fresh /\ Built /\ [Next]_vars => Built'
BY BuiltEarly, BuiltPrepare, BuiltCanonical, BuiltRedirect, BuiltPut, BuiltStutter
   DEF Next, Returned

(* Every symbol that the loop of init_huff has passed is in the table      *)
(* where the bits of its code lead.                                        *)
THEOREM BuiltAlways == Spec => []Built
<1>1. Init => Built
  BY DEF Init, Built
<1>2. Inv /\ Fresh /\ Built /\ [Next]_vars => Built'
  BY BuiltNext
<1> QED BY <1>1, <1>2, InductiveInvariant, FreshAlways, PTL DEF Spec

-----------------------------------------------------------------------------
(* Every stream of bits starts with the code of exactly one symbol.        *)
Starts(bits, s) == CodeOf(s) = Reversed(bits, LengthOf(s))

(* The length: the least one for which the codes pass the bits.            *)
LEMMA CodeLength ==
  ASSUME SetupOK, NEW r, Kraft(r), NEW bits \in Nat
  PROVE  \E l \in 1..MaxLen : /\ (2^l - r[l]) - CountOf(l) <= Reversed(bits, l)
                              /\ Reversed(bits, l) < 2^l - r[l]
<1> DEFINE T == {l \in Lengths : Reversed(bits, l) < 2^l - r[l]}
<1>1. \A l \in Lengths : l \in Nat /\ l \in 0..MaxLen /\ l \in 0..MaxLen + 1
  BY Sizes DEF Lengths
<1>2. MaxLen \in T
  <2>1. MaxLen \in Lengths /\ r[MaxLen] = 0
    BY Sizes DEF Lengths, Kraft
  <2>2. Reversed(bits, MaxLen) \in Nat /\ Reversed(bits, MaxLen) < 2^MaxLen /\ 2^MaxLen \in Nat
    BY <1>1, <2>1, ReversedType, PowType
  <2> QED BY <2>1, <2>2
<1>3. PICK l \in T : \A k \in T : l <= k
  <2>1. T \subseteq Nat /\ T # {}
    BY <1>1, <1>2
  <2> HIDE DEF T
  <2> QED BY <2>1, LeastElement
<1>4. l \in Lengths /\ Reversed(bits, l) < 2^l - r[l]
  BY <1>3
<1>5. l # 0
  <2>1. ASSUME l = 0 PROVE FALSE
    <3>1. Reversed(bits, 0) = 0 /\ r[0] = 1
      BY ReversedStep DEF Kraft
    <3>2. 2^0 = 1
      OBVIOUS
    <3> QED BY <1>4, <2>1, <3>1, <3>2
  <2> QED BY <2>1
<1>6. l \in 1..MaxLen /\ l - 1 \in Lengths /\ l - 1 < l /\ (l - 1) + 1 = l /\ l - 1 \in 0..MaxLen
  BY <1>4, <1>5, Sizes DEF Lengths
<1> DEFINE a == Reversed(bits, l - 1)
           b == Reversed(bits, l)
           x == 2^(l - 1)
           y == 2^l
           u == r[l - 1]
           v == r[l]
           n == CountOf(l)
<1>7. y = 2 * x
  <2>1. 2^((l - 1) + 1) = 2 * 2^(l - 1)
    BY <1>6, PowDouble
  <2> QED BY <1>6, <2>1
<1>8. /\ a \in Nat /\ b \in Nat /\ x \in Nat /\ y \in Nat /\ u \in Nat /\ v \in Nat /\ n \in Nat
  BY <1>1, <1>4, <1>6, ReversedType, PowType, KraftType, CountType
<1>9. b = 2 * a + Bit(bits, l - 1) /\ Bit(bits, l - 1) \in {0, 1}
  BY <1>6, ReversedStep, BitType
<1>10. v = 2 * u - n
  BY <1>6 DEF Kraft
<1>11. l - 1 \notin T
  <2> HIDE DEF T
  <2>1. ASSUME l - 1 \in T PROVE FALSE
    <3>1. l <= l - 1
      BY <1>3, <2>1
    <3> QED BY <1>6, <3>1
  <2> QED BY <2>1
<1>12. ~(a < x - u)
  BY <1>6, <1>11
<1> HIDE DEF a, b, x, y, u, v, n
<1>13. (y - v) - n <= b
  BY <1>7, <1>8, <1>9, <1>10, <1>12
<1>14. b < y - v
  BY <1>4 DEF b, y, v
<1> QED BY <1>6, <1>13, <1>14 DEF b, y, v, n

LEMMA SomeCode ==
  ASSUME SetupOK, Kraft(Unused), AllSorted, NEW bits \in Nat
  PROVE  \E j \in 0..n_symbols - 1 :
           /\ symbols[j] \in InUse /\ LengthOf(symbols[j]) \in 1..MaxLen
           /\ Starts(bits, symbols[j])
<1>1. PICK l \in 1..MaxLen : /\ (2^l - Unused[l]) - CountOf(l) <= Reversed(bits, l)
                             /\ Reversed(bits, l) < 2^l - Unused[l]
  BY CodeLength
<1>2. l \in Lengths /\ l \in Nat /\ l \in 0..MaxLen /\ l \in 0..MaxLen + 1 /\ l - 1 \in Nat /\ l <= MaxLen
      /\ 1 <= l /\ MaxLen \in Nat
  BY Sizes DEF Lengths
<1> DEFINE y == 2^l
           u == Unused[l]
           n == CountOf(l)
           c == Reversed(bits, l)
           k == c - ((y - u) - n)
           a == Total(l - 1)
           j == a + k
<1>3. y \in Nat /\ u \in Nat /\ n \in Nat /\ c \in Nat
  BY <1>2, PowType, KraftType, CountType, ReversedType
<1>4. Total(l) = a + n /\ a \in Nat /\ Total(l) <= Total(MaxLen) /\ n_symbols = Total(MaxLen)
      /\ n_symbols \in Nat
  BY <1>2, TotalStep, CountType, TotalMono DEF AllSorted
<1>5. (y - u) - n <= c /\ c < y - u
  BY <1>1
<1> HIDE DEF y, u, n, c, a
<1>6. k \in Nat /\ k < n
  BY <1>3, <1>5
<1>7. j \in Nat /\ a <= j /\ j < Total(l) /\ j \in 0..n_symbols - 1
  BY <1>3, <1>4, <1>6
<1>8. Sorted(j)
  BY <1>7 DEF AllSorted
<1> HIDE DEF j
<1> DEFINE s == symbols[j]
           m == LengthOf(s)
<1>9. s \in 0..(NCodes - 1) - n_codes0 /\ m \in 1..MaxLen /\ Rank(s) = j
  BY <1>8 DEF Sorted
<1>10. Total(m - 1) <= j /\ j < Total(m)
  BY <1>9, RankBounds
<1>11. m = l
  <2> HIDE DEF s, m
  <2>0. m \in Nat /\ m - 1 \in Nat
    BY <1>9
  <2>1. Total(m - 1) \in Nat /\ Total(m) \in Nat /\ Total(l) \in Nat
    BY CountType
  <2>2. ASSUME m < l PROVE FALSE
    <3>1. m <= l - 1
      BY <1>2, <2>0, <2>2
    <3>2. Total(m) <= a
      BY <1>2, <2>0, <3>1, TotalMono DEF a
    <3> QED BY <1>4, <1>7, <1>10, <2>1, <3>2
  <2>3. ASSUME l < m PROVE FALSE
    <3>1. l <= m - 1
      BY <1>2, <2>0, <2>3
    <3>2. Total(l) <= Total(m - 1)
      BY <1>2, <2>0, <3>1, TotalMono
    <3> QED BY <1>4, <1>7, <1>10, <2>1, <3>2
  <2> QED BY <1>2, <2>0, <2>2, <2>3
<1>12. Rank(s) = a + Seen(l, n_codes0 + s)
  BY <1>11 DEF Rank, a
<1>13. CodeOf(s) = ((y - u) - n) + Seen(l, n_codes0 + s) /\ Seen(l, n_codes0 + s) \in Nat
  BY <1>1, <1>9, <1>11, CodeOfType DEF y, u, n
<1>14. CodeOf(s) = c
  <2> DEFINE z == Seen(l, n_codes0 + s)
  <2>1. a + z = a + k /\ z \in Nat /\ CodeOf(s) = ((y - u) - n) + z
    BY <1>9, <1>12, <1>13 DEF j
  <2> HIDE DEF z
  <2> QED BY <1>3, <1>4, <1>6, <2>1
<1>15. Starts(bits, s)
  BY <1>11, <1>14 DEF Starts, c
<1>16. s \in InUse
  <2>1. LengthOf(s) # 0
    BY <1>9
  <2> QED BY <1>9, <2>1 DEF InUse, LengthOf
<1> QED BY <1>7, <1>9, <1>15, <1>16

LEMMA SeenStrict ==
  ASSUME SetupOK, NEW s \in 0..(NCodes - 1) - n_codes0, NEW t \in 0..(NCodes - 1) - n_codes0,
         s < t, NEW l, l = LengthOf(s)
  PROVE  Seen(l, n_codes0 + s) < Seen(l, n_codes0 + t)
<1> DEFINE a == n_codes0 + s
           b == n_codes0 + t
<1>1. /\ n_codes0 \in Nat /\ a \in n_codes0..NCodes - 1 /\ a \in n_codes0..NCodes /\ a \in Nat
      /\ b \in n_codes0..NCodes /\ b \in Nat /\ a + 1 <= b /\ a + 1 \in n_codes0..NCodes
  BY CodesFinite, Sizes
<1>2. code_lengths[a] = l
  BY DEF LengthOf
<1> HIDE DEF a, b
<1>3. Seen(l, a + 1) = Seen(l, a) + 1 /\ Seen(l, a) \in Nat
  BY <1>1, <1>2, SeenNext, SeenType
<1>4. SeenOf(l, a + 1) \subseteq SeenOf(l, b)
  <2>1. n_codes0..(a + 1) - 1 \subseteq n_codes0..b - 1
    BY <1>1
  <2> QED BY <2>1 DEF SeenOf
<1>5. IsFiniteSet(SeenOf(l, b)) /\ Seen(l, b) \in Nat
  BY <1>1, SeenType
<1>6. Seen(l, a + 1) <= Seen(l, b)
  BY <1>4, <1>5, FS_Subset DEF Seen
<1> QED BY <1>3, <1>5, <1>6 DEF a, b

(* A code is no prefix of a longer one.                                    *)
LEMMA NoLonger ==
  ASSUME SetupOK, Kraft(Unused), NEW bits \in Nat,
         NEW s \in 0..(NCodes - 1) - n_codes0, NEW t \in 0..(NCodes - 1) - n_codes0,
         NEW a \in 1..MaxLen, NEW b \in 1..MaxLen, a = LengthOf(s), b = LengthOf(t), a < b,
         Starts(bits, s), Starts(bits, t)
  PROVE  FALSE
<1> DEFINE c == Reversed(bits, a)
           d == Reversed(bits, b)
           p == 2^(b - a)
           x == 2^a - Unused[a]
           y == (2^b - Unused[b]) - CountOf(b)
           e == Reversed(bits \div 2^a, b - a)
<1>1. a \in 0..b /\ b \in 0..MaxLen /\ a \in 0..MaxLen /\ b - a \in 0..MaxLen /\ b - a \in 0..MaxLen + 1
      /\ a \in Lengths /\ b \in Lengths
  BY Sizes DEF Lengths
<1>2. d = c * p + e /\ e \in Nat /\ e < p
  <2>1. d = c * p + e /\ bits \div 2^a \in Nat
    BY <1>1, ReversedConcat
  <2> QED BY <1>1, <2>1, ReversedType
<1>3. c \in Nat /\ d \in Nat /\ p \in Nat
  BY <1>1, ReversedType, PowType
<1>4. c < x /\ x \in Int
  <2>1. CodeOf(s) < 2^a - Unused[a] /\ 2^a \in Nat /\ Unused[a] \in Nat
    BY CodeOfType
  <2> QED BY <2>1 DEF Starts
<1>5. y <= d /\ y \in Int
  <2>1. y <= CodeOf(t) /\ 2^b \in Nat /\ Unused[b] \in Nat /\ CountOf(b) \in Nat
    BY CodeOfType
  <2> QED BY <2>1 DEF Starts
<1>6. x * p <= y
  BY <1>1, KraftAfter
<1> HIDE DEF c, d, p, x, y, e
<1>7. c + 1 <= x /\ c + 1 \in Int
  BY <1>3, <1>4
<1>8. (c + 1) * p <= x * p /\ x * p \in Int /\ (c + 1) * p \in Int
  BY <1>3, <1>4, <1>7, MulMono
<1>9. c * p + p = (c + 1) * p /\ c * p \in Nat
  BY <1>3, MulNext
<1> QED BY <1>2, <1>3, <1>5, <1>6, <1>8, <1>9

LEMMA OneCode ==
  ASSUME SetupOK, Kraft(Unused), NEW bits \in Nat, NEW s \in InUse, NEW t \in InUse,
         Starts(bits, s), Starts(bits, t)
  PROVE  s = t
<1> DEFINE a == LengthOf(s)
           b == LengthOf(t)
<1>1. a \in 1..MaxLen /\ b \in 1..MaxLen
  BY ShareType
<1>2. s \in 0..(NCodes - 1) - n_codes0 /\ t \in 0..(NCodes - 1) - n_codes0 /\ s \in Int /\ t \in Int
  BY DEF InUse
<1>3. a = b
  <2>1. ~(a < b)
    BY <1>1, <1>2, NoLonger
  <2>2. ~(b < a)
    BY <1>1, <1>2, NoLonger
  <2> QED BY <1>1, <2>1, <2>2
<1>4. Seen(a, n_codes0 + s) = Seen(a, n_codes0 + t) /\ Seen(a, n_codes0 + t) \in Nat
  <2>1. CodeOf(s) = CodeOf(t)
    BY <1>3 DEF Starts
  <2>2. /\ CodeOf(s) = ((2^a - Unused[a]) - CountOf(a)) + Seen(a, n_codes0 + s)
        /\ Seen(a, n_codes0 + s) \in Nat
        /\ 2^a \in Nat /\ Unused[a] \in Nat /\ CountOf(a) \in Nat
    BY <1>1, <1>2, CodeOfType
  <2>3. /\ CodeOf(t) = ((2^a - Unused[a]) - CountOf(a)) + Seen(a, n_codes0 + t)
        /\ Seen(a, n_codes0 + t) \in Nat
    BY <1>1, <1>2, <1>3, CodeOfType
  <2> DEFINE z == (2^a - Unused[a]) - CountOf(a)
             m == Seen(a, n_codes0 + s)
             n == Seen(a, n_codes0 + t)
  <2>4. CodeOf(s) = z + m /\ CodeOf(t) = z + n
    BY <2>2, <2>3
  <2>5. z \in Int
    BY <2>2
  <2>6. m \in Nat /\ n \in Nat
    BY <2>2, <2>3
  <2> HIDE DEF z, m, n
  <2>7. z + m = z + n
    BY <2>1, <2>4
  <2>8. m = n
    BY <2>5, <2>6, <2>7
  <2> QED BY <2>6, <2>8 DEF m, n
<1>5. ~(s < t)
  <2>1. s < t => Seen(a, n_codes0 + s) < Seen(a, n_codes0 + t)
    BY <1>2, SeenStrict
  <2> QED BY <1>4, <2>1
<1>6. ~(t < s)
  <2>1. t < s => Seen(a, n_codes0 + t) < Seen(a, n_codes0 + s)
    BY <1>2, <1>3, SeenStrict
  <2> QED BY <1>4, <2>1
<1> QED BY <1>2, <1>5, <1>6

(* RFC 1951's interval of a symbol starts with its code.                   *)
LEMMA IntervalOfCode ==
  ASSUME SetupOK, Kraft(Unused), NEW s \in InUse, NEW l, l = LengthOf(s)
  PROVE  Weight(Before(s)) = CodeOf(s) * 2^(MaxLen - l)
<1>1. l \in 1..MaxLen /\ s \in 0..(NCodes - 1) - n_codes0
  BY ShareType DEF InUse
<1>2. Before(s) = Prefix(l, s)
  BY DEF Before, Prefix
<1>3. s \in 0..NCodes - n_codes0
  BY <1>1, CodesFinite, Sizes
<1> DEFINE p == 2^(MaxLen - l)
           w == Weight(Prefix(l, 0))
           k == Seen(l, n_codes0 + s)
<1>4. Weight(Before(s)) = w + k * p /\ w \in Nat /\ k \in Nat
  BY <1>1, <1>2, <1>3, WeightPrefix
<1>5. /\ l - 1 \in Lengths /\ (l - 1) + 1 = l /\ l \in Lengths /\ MaxLen - l \in 0..MaxLen
      /\ MaxLen - (l - 1) = (MaxLen - l) + 1 /\ l \in Nat /\ l <= MaxLen /\ MaxLen \in 0..MaxLen + 1
  BY <1>1, Sizes DEF Lengths
<1>6. w = 2^MaxLen - Unused[l - 1] * 2^(MaxLen - (l - 1))
  <2>1. Balance(Unused)
    BY KraftBalance
  <2>2. Weight(Prefix((l - 1) + 1, 0)) = 2^MaxLen - Unused[l - 1] * 2^(MaxLen - (l - 1))
    BY <1>5, <2>1, WeightUpTo
  <2> QED BY <1>5, <2>2
<1>7. 2^(MaxLen - (l - 1)) = 2 * p
  BY <1>5, PowDouble
<1> DEFINE y == 2^l
           u == Unused[l - 1]
           v == Unused[l]
           n == CountOf(l)
<1>8. 2^MaxLen = y * p /\ y \in Nat /\ p \in Nat
  BY <1>5, PowSplit
<1>9. v = 2 * u - n
  BY <1>1 DEF Kraft
<1>10. u \in Nat /\ v \in Nat /\ n \in Nat
  BY <1>5, KraftType, CountType
<1>11. CodeOf(s) = ((y - v) - n) + k
  BY <1>1, CodeOfType
<1>12. w = y * p - u * (2 * p)
  BY <1>6, <1>7, <1>8
<1> HIDE DEF p, w, k, y, u, v, n
<1>13. w = ((y - v) - n) * p
  <2>1. (y - v) - n = y - 2 * u
    BY <1>8, <1>9, <1>10
  <2>2. (y - 2 * u) * p = y * p - u * (2 * p)
    BY <1>8, <1>10
  <2> QED BY <1>12, <2>1, <2>2
<1> DEFINE z == (y - v) - n
<1>14. z \in Int
  BY <1>8, <1>10
<1> HIDE DEF z
<1>15. (z + k) * p = z * p + k * p
  BY <1>4, <1>8, <1>14
<1>16. Weight(Before(s)) = (z + k) * p
  BY <1>4, <1>13, <1>15 DEF z
<1> QED BY <1>11, <1>16 DEF p, z

(* The bits lie in the interval of a code that they start with, and in no  *)
(* other of that length.                                                   *)
LEMMA InInterval ==
  ASSUME NEW bits \in Nat, NEW n \in 0..MaxLen, NEW m \in 0..n, NEW c \in Nat
  PROVE  (/\ c * 2^(MaxLen - m) <= FromStream(bits, n)
          /\ FromStream(bits, n) < c * 2^(MaxLen - m) + 2^(MaxLen - m))
           <=> c = Reversed(bits, m)
<1> DEFINE p == 2^(n - m)
           g == 2^(MaxLen - n)
           q == 2^(MaxLen - m)
           d == Reversed(bits, m)
           r == Reversed(bits, n)
           e == Reversed(bits \div 2^m, n - m)
           v == FromStream(bits, n)
<1>1. /\ m \in 0..MaxLen /\ n - m \in 0..MaxLen /\ n - m \in Nat /\ MaxLen - n \in Nat
      /\ (n - m) + (MaxLen - n) = MaxLen - m /\ (n - m) + (MaxLen - n) <= MaxLen + 1
      /\ n - m \in 0..MaxLen + 1 /\ MaxLen - n \in 0..MaxLen + 1 /\ MaxLen - m \in 0..MaxLen + 1
  BY Sizes
<1>2. r = d * p + e /\ e \in Nat /\ e < p
  <2>1. r = d * p + e /\ bits \div 2^m \in Nat
    BY ReversedConcat
  <2> QED BY <1>1, <2>1, ReversedType
<1>3. d \in Nat /\ r \in Nat
  BY <1>1, ReversedType
<1>4. p \in Nat /\ g \in Nat /\ 1 <= g /\ q \in Nat /\ 1 <= q
  BY <1>1, PowType
<1>5. q = p * g
  <2>1. 2^((n - m) + (MaxLen - n)) = 2^(n - m) * 2^(MaxLen - n)
    BY <1>1, PowAdd
  <2> QED BY <1>1, <2>1
<1>6. v = r * g
  BY DEF FromStream
<1> HIDE DEF p, g, q, d, r, e, v
<1>7. d * p \in Nat /\ d * p + p = (d + 1) * p
  BY <1>3, <1>4, MulNext
<1>8. d * p <= r /\ r < (d + 1) * p
  BY <1>2, <1>3, <1>4, <1>7
<1>9. d * q <= v /\ v < (d + 1) * q /\ v \in Nat
  BY <1>3, <1>4, <1>5, <1>6, <1>8, Scale
<1>10. d * q + q = (d + 1) * q
  BY <1>3, <1>4, MulNext
<1>11. d * q <= v /\ v < d * q + q
  BY <1>9, <1>10
<1>12. v \div q = d
  BY <1>3, <1>4, <1>9, <1>11, DivUnique
<1>13. ASSUME c * q <= v, v < c * q + q PROVE c = d
  <2>1. v \div q = c
    BY <1>4, <1>9, <1>13, DivUnique
  <2> QED BY <1>12, <2>1
<1> QED BY <1>11, <1>13 DEF q, d, v

Answer(s, l, n) == IF n < l THEN More ELSE Got(s, l)

LEMMA ReferenceFinds ==
  ASSUME SetupOK, Kraft(Unused), NEW bits \in Nat, NEW n \in 0..MaxLen, NEW s \in InUse,
         Starts(bits, s), NEW l, l = LengthOf(s)
  PROVE  Reference(bits, n) = Answer(s, l, n)
<1> DEFINE v == FromStream(bits, n)
           S == {t \in InUse : /\ LengthOf(t) <= n
                               /\ Weight(Before(t)) <= v
                               /\ v < Weight(Before(t)) + 2^(MaxLen - LengthOf(t))}
<1>1. \A t \in InUse : LengthOf(t) \in 1..MaxLen
  BY ShareType
<1>2. ASSUME NEW t \in InUse, LengthOf(t) <= n
      PROVE  (/\ Weight(Before(t)) <= v
              /\ v < Weight(Before(t)) + 2^(MaxLen - LengthOf(t))) <=> Starts(bits, t)
  <2>m. PICK m : m = LengthOf(t)
    OBVIOUS
  <2>1. m \in 0..n /\ m \in 1..MaxLen
    BY <1>1, <1>2, <2>m
  <2>2. t \in 0..(NCodes - 1) - n_codes0
    BY DEF InUse
  <2>3. CodeOf(t) \in Nat
    BY <2>m, <2>1, <2>2, CodeOfType
  <2>4. Weight(Before(t)) = CodeOf(t) * 2^(MaxLen - m)
    BY <2>m, IntervalOfCode
  <2>5. (/\ CodeOf(t) * 2^(MaxLen - m) <= v
         /\ v < CodeOf(t) * 2^(MaxLen - m) + 2^(MaxLen - m)) <=> CodeOf(t) = Reversed(bits, m)
    BY <2>1, <2>3, InInterval
  <2> QED BY <2>m, <2>4, <2>5 DEF Starts
<1> HIDE DEF v
<1>3. S = {t \in InUse : LengthOf(t) <= n /\ Starts(bits, t)}
  BY <1>2
<1>4. \A t \in InUse : Starts(bits, t) => t = s
  BY OneCode
<1>5. Reference(bits, n) =
        IF S = {} THEN More ELSE LET x == CHOOSE t \in S : TRUE IN Got(x, LengthOf(x))
  BY DEF Reference, v
<1> HIDE DEF S
<1>6. l \in 1..MaxLen
  BY <1>1
<1>7. CASE n < l
  <2>1. S = {}
    BY <1>3, <1>4, <1>6, <1>7
  <2> QED BY <1>5, <1>7, <2>1 DEF Answer
<1>8. CASE ~(n < l)
  <2>1. S = {s}
    BY <1>3, <1>4, <1>6, <1>8
  <2>2. (CHOOSE t \in S : TRUE) = s
    BY <2>1
  <2> QED BY <1>5, <1>8, <2>1, <2>2 DEF Answer
<1> QED BY <1>7, <1>8

(* Bits above the key do not change it.                                    *)
LEMMA LowBits ==
  ASSUME NEW v \in Nat, NEW w \in 0..MaxLen, NEW l \in 0..w
  PROVE  /\ v % 2^w \in Nat /\ v % 2^w < 2^w /\ v % 2^w \in 0..2^w - 1
         /\ Reversed(v % 2^w, l) = Reversed(v, l)
<1> DEFINE e == 2^w
           f == 2^l
           g == 2^(w - l)
           q == v \div e
           z == v % e
<1>1. w \in 0..MaxLen + 1 /\ l \in Nat /\ l <= w /\ l \in 0..MaxLen
  BY Sizes
<1>2. e = f * g /\ e \in Nat /\ 1 <= e /\ f \in Nat /\ g \in Nat
  BY <1>1, PowSplit
<1> HIDE DEF e, f, g
<1>3. q \in Nat /\ z \in Nat /\ z < e /\ v = q * e + z
  BY <1>2, DivFacts
<1> HIDE DEF q, z
<1>4. v = (q * g) * f + z /\ q * g \in Nat
  <2>1. q * (f * g) = (q * g) * f /\ q * g \in Nat
    BY <1>2, <1>3
  <2> QED BY <1>2, <1>3, <2>1
<1> DEFINE h == q * g
<1> HIDE DEF h
<1>5. h \in Nat /\ v = h * f + z
  BY <1>4 DEF h
<1>6. Reversed(h * f + z, l) = Reversed(z, l)
  BY <1>1, <1>3, <1>5, ReversedLow DEF f
<1>7. z \in 0..e - 1
  BY <1>2, <1>3
<1> QED BY <1>3, <1>5, <1>6, <1>7 DEF e, z

LEMMA EntryFields ==
  /\ \A s, n : /\ SymbolEntry(s, n).kind = "symbol" /\ SymbolEntry(s, n).symbol = s
               /\ SymbolEntry(s, n).n = n
  /\ \A t, b : /\ RedirectEntry(t, b).kind = "redirect" /\ RedirectEntry(t, b).top = t
               /\ RedirectEntry(t, b).bits = b /\ RedirectEntry(t, b).n = Primary
BY DEF SymbolEntry, RedirectEntry

(* The lookup finds a symbol that is in the first level,                   *)
LEMMA FirstLookup ==
  ASSUME Widths, NEW bits \in Nat, NEW n \in 0..MaxLen, NEW s, NEW l \in 1..Primary,
         CountOf(l) # 0, PlacedIn(huffs, n_huffs_bits, s, l, Reversed(bits, l))
  PROVE  Lookup(bits, n) = Answer(s, l, n)
<1> DEFINE w == n_huffs_bits
           x == bits % 2^w
<1>1. w \in 0..MaxLen /\ l \in 0..w /\ l <= Primary /\ l \in 1..MaxLen
  BY Sizes DEF Widths
<1>2. x \in 0..2^w - 1 /\ Reversed(x, l) = Reversed(bits, l)
  BY <1>1, LowBits
<1>3. huffs[x] = SymbolEntry(s, l)
  BY <1>1, <1>2 DEF PlacedIn
<1>4. huffs[x].kind = "symbol" /\ huffs[x].symbol = s /\ huffs[x].n = l
  BY <1>3, EntryFields
<1> HIDE DEF x
<1>5. Lookup(bits, n) = IF n < huffs[x].n THEN More ELSE Got(huffs[x].symbol, huffs[x].n)
  BY <1>4 DEF Lookup, x
<1> QED BY <1>4, <1>5 DEF Answer

(* and one that is behind a redirect.                                      *)
LEMMA SecondLookup ==
  ASSUME Widths, NEW bits \in Nat, NEW n \in 0..MaxLen, NEW s, NEW l \in Primary + 1..MaxLen,
         CountOf(l) # 0, PlacedIn(huffs, n_huffs_bits, s, l, Reversed(bits, l))
  PROVE  Lookup(bits, n) = Answer(s, l, n)
<1> DEFINE k == l - Primary
           x == bits % 2^Primary
           high == bits \div 2^Primary
           a == Reversed(bits, Primary)
           z == Reversed(high, k)
           c == Reversed(bits, l)
           f == 2^k
<1>1. /\ ~(l <= Primary) /\ l \in 1..MaxLen /\ l \in 0..MaxLen /\ Primary \in 0..l
      /\ k \in Nat /\ k \in 1..MaxLen /\ k \in 0..MaxLen /\ k \in 0..MaxLen + 1 /\ Primary + k = l
  BY Sizes
<1>2. n_huffs_bits = Primary
  BY <1>1 DEF Widths
<1>3. c = a * f + z /\ high \in Nat
  BY <1>1, ReversedConcat
<1>4. a \in Nat /\ z \in Nat /\ z < f /\ c \in Nat
  BY <1>1, <1>3, DepthType, ReversedType
<1>5. f \in Nat /\ 1 <= f
  BY <1>1, PowType
<1>6. x \in Nat /\ x < 2^Primary /\ Reversed(x, Primary) = a
  <2>1. Primary \in 0..Primary
    BY Sizes
  <2> QED BY <2>1, DepthType, LowBits
<1>7. Reverse(a) = x
  BY <1>6, DepthType, ReversedTwice DEF Reverse
<1>8. c \div f = a /\ c % f = z
  <2> HIDE DEF c, a, f, z
  <2>1. a * f <= c /\ c < a * f + f /\ a * f \in Nat
    BY <1>3, <1>4, <1>5
  <2>2. c \div f = a
    BY <1>4, <1>5, <2>1, DivUnique
  <2>3. c = (c \div f) * f + (c % f) /\ c % f \in Nat
    BY <1>4, <1>5, DivFacts
  <2>4. c = a * f + (c % f)
    BY <2>2, <2>3
  <2> QED BY <1>3, <1>4, <2>1, <2>2, <2>3, <2>4
<1>9. PICK t \in Nat, b \in l - Primary..Depth :
         /\ t + 2^b <= TableSize
         /\ huffs[Reverse(c \div 2^(l - Primary))] = RedirectEntry(t, b)
         /\ \A y \in 0..2^b - 1 : Reversed(y, l - Primary) = c % 2^(l - Primary) =>
              huffs[t + y] = SymbolEntry(s, l - Primary)
  BY <1>1 DEF PlacedIn
<1>10. huffs[x] = RedirectEntry(t, b)
  BY <1>7, <1>8, <1>9
<1> DEFINE y == high % 2^b
<1>11. y \in 0..2^b - 1 /\ y \in Nat /\ y < 2^b /\ Reversed(y, k) = z
  <2>1. b \in 0..MaxLen /\ k \in 0..b
    BY <1>1, DepthType
  <2> QED BY <1>3, <2>1, LowBits
<1>12. huffs[t + y] = SymbolEntry(s, k)
  BY <1>8, <1>9, <1>11
<1>13. t + y \in Slots
  <2>1. b \in 0..MaxLen + 1
    BY <1>1, DepthType
  <2>2. 2^b \in Nat
    BY <2>1, PowType
  <2> HIDE DEF y
  <2> QED BY <1>9, <1>11, <2>2, Sizes DEF Slots
<1> DEFINE e == huffs[x]
           slot == e.top + ((bits \div 2^e.n) % 2^e.bits)
           g == huffs[slot]
<1>14. e.kind = "redirect" /\ e.top = t /\ e.bits = b /\ e.n = Primary
  BY <1>10, EntryFields
<1>15. slot = t + y
  BY <1>14
<1>16. g.kind = "symbol" /\ g.symbol = s /\ g.n = k
  BY <1>12, <1>15, EntryFields
<1>17. Lookup(bits, n) = IF n < e.n THEN More
                         ELSE IF n - e.n < g.n THEN More ELSE Got(g.symbol, e.n + g.n)
  <2>1. e.kind # "redirect" <=> FALSE
    BY <1>14
  <2>2. slot \in Slots
    BY <1>13, <1>15
  <2> QED BY <1>2, <1>16, <2>1, <2>2 DEF Lookup
<1>18. Lookup(bits, n) = IF n < Primary THEN More
                         ELSE IF n - Primary < k THEN More ELSE Got(s, Primary + k)
  <2> HIDE DEF e, g
  <2> QED BY <1>14, <1>16, <1>17
<1>19. /\ n < l <=> n < Primary \/ n - Primary < k
       /\ Primary + k = l
  BY <1>1, Sizes
<1> HIDE DEF k
<1> QED BY <1>18, <1>19 DEF Answer

LEMMA LookupFinds ==
  ASSUME SetupOK, Kraft(Unused), Widths, NEW bits \in Nat, NEW n \in 0..MaxLen, NEW s \in InUse,
         Starts(bits, s), Placed(s), NEW l, l = LengthOf(s)
  PROVE  Lookup(bits, n) = Answer(s, l, n)
<1>1. l \in 1..MaxLen /\ s \in 0..(NCodes - 1) - n_codes0
  BY ShareType DEF InUse
<1>2. CountOf(l) # 0
  <2>1. /\ (2^l - Unused[l]) - CountOf(l) <= CodeOf(s) /\ CodeOf(s) < 2^l - Unused[l]
        /\ CodeOf(s) \in Nat /\ 2^l \in Nat /\ Unused[l] \in Nat
    BY <1>1, CodeOfType
  <2> QED BY <2>1
<1>3. PlacedIn(huffs, n_huffs_bits, s, l, Reversed(bits, l))
  BY DEF Placed, Starts
<1>4. CASE l <= Primary
  <2>1. l \in 1..Primary
    BY <1>1, <1>4, Sizes
  <2> QED BY <1>2, <1>3, <2>1, FirstLookup
<1>5. CASE ~(l <= Primary)
  <2>1. l \in Primary + 1..MaxLen
    BY <1>1, <1>5, Sizes
  <2> QED BY <1>2, <1>3, <2>1, SecondLookup
<1> QED BY <1>4, <1>5

LEMMA BuiltLookup == Inv /\ Built => LookupIsCanonical
<1> SUFFICES ASSUME Inv, Built, status = "ok", NEW n \in 0..MaxLen, NEW bits \in 0..2^n - 1
             PROVE  Lookup(bits, n) = Reference(bits, n)
  BY DEF LookupIsCanonical
<1>1. SetupOK /\ Kraft(Unused) /\ AllSorted /\ Widths /\ AllPlaced(n_symbols)
  BY DEF Inv, Built
<1>2. bits \in Nat
  <2>1. n \in 0..MaxLen + 1
    BY Sizes
  <2> QED BY <2>1, PowType
<1>3. PICK j \in 0..n_symbols - 1 : symbols[j] \in InUse /\ Starts(bits, symbols[j])
  BY <1>1, <1>2, SomeCode
<1>4. Placed(symbols[j])
  BY <1>1 DEF AllPlaced
<1> DEFINE s == symbols[j]
           l == LengthOf(s)
<1>5. Lookup(bits, n) = Answer(s, l, n)
  BY <1>1, <1>2, <1>3, <1>4, LookupFinds
<1>6. Reference(bits, n) = Answer(s, l, n)
  BY <1>1, <1>2, <1>3, ReferenceFinds
<1> QED BY <1>5, <1>6

(* Using decoder.bits's low n_huffs_bits as a table key is valid even if   *)
(* decoder.n_bits is less than n_huffs_bits: with any number of bits, and  *)
(* whatever an earlier block left in the table, the lookup of              *)
(* decode_huffman_slow finds the symbol of the canonical code of RFC 1951  *)
(* if the bits hold one, and asks for more bits otherwise.                 *)
THEOREM LookupFindsTheCode == Spec => []LookupIsCanonical
BY BuiltLookup, InductiveInvariant, BuiltAlways, PTL
=============================================================================
