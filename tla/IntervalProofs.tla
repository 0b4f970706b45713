--------------------------- MODULE IntervalProofs ---------------------------
(***************************************************************************)
(* The interval arithmetic of lang/interval, for all integers and all      *)
(* ranges: all eight operations are sound and tight, fail exactly when     *)
(* they must and never panic, and the predicates of a range say what is    *)
(* true of its integers.                                                   *)
(***************************************************************************)
EXTENDS Interval, FiniteSetTheorems, TLAPS

Bounds == Int \cup {nil}
Ranges == [lo : Bounds, hi : Bounds]

-----------------------------------------------------------------------------
(* Addition and subtraction.                                               *)

(* The range that Add returns holds exactly the sums of the integers of    *)
(* its operands: it is neither too small nor too large.                    *)
THEOREM AddExact ==
  ASSUME NEW r \in Ranges, NEW s \in Ranges, NEW c \in Int
  PROVE  Contains(Add(r, s), c) <=>
           \E a \in Int, b \in Int : Contains(r, a) /\ Contains(s, b) /\ c = a + b
<1>nil. nil \notin Int
  BY IntervalAssumption
<1>1. ASSUME NEW a \in Int, NEW b \in Int, Contains(r, a), Contains(s, b)
      PROVE  Contains(Add(r, s), a + b)
  BY <1>1, <1>nil DEF Ranges, Bounds, Contains, Add, Empty, IntRange
<1>2. ASSUME Contains(Add(r, s), c)
      PROVE  \E a \in Int : Contains(r, a) /\ Contains(s, c - a)
  <2>1. ~Empty(r) /\ ~Empty(s)
    BY <1>2, <1>nil DEF Ranges, Bounds, Contains, Add, Empty, empty, IntRange
  <2> DEFINE Works(a) == a \in Int /\ Contains(r, a) /\ Contains(s, c - a)
  <2>2. CASE r.lo # nil /\ s.hi # nil
    <3>1. CASE c - s.hi >= r.lo
      <4>1. Works(c - s.hi)
        BY <1>2, <1>nil, <2>1, <2>2, <3>1 DEF Ranges, Bounds, Contains, Add, Empty, IntRange
      <4> QED BY <4>1
    <3>2. CASE ~(c - s.hi >= r.lo)
      <4>1. Works(r.lo)
        BY <1>2, <1>nil, <2>1, <2>2, <3>2 DEF Ranges, Bounds, Contains, Add, Empty, IntRange
      <4> QED BY <4>1
    <3> QED BY <3>1, <3>2
  <2>3. CASE r.lo # nil /\ s.hi = nil
    <3>1. Works(r.lo)
      BY <1>2, <1>nil, <2>1, <2>3 DEF Ranges, Bounds, Contains, Add, Empty, IntRange
    <3> QED BY <3>1
  <2>4. CASE r.lo = nil /\ s.hi # nil
    <3>1. Works(c - s.hi)
      BY <1>2, <1>nil, <2>1, <2>4 DEF Ranges, Bounds, Contains, Add, Empty, IntRange
    <3> QED BY <3>1
  <2>5. CASE r.lo = nil /\ s.hi = nil
    <3>1. CASE r.hi = nil /\ s.lo = nil
      <4>1. Works(0)
        BY <1>2, <1>nil, <2>5, <3>1 DEF Ranges, Bounds, Contains, Add, Empty, IntRange
      <4> QED BY <4>1
    <3>2. CASE r.hi # nil /\ (s.lo = nil \/ c - r.hi >= s.lo)
      <4>1. Works(r.hi)
        BY <1>2, <1>nil, <2>5, <3>2 DEF Ranges, Bounds, Contains, Add, Empty, IntRange
      <4> QED BY <4>1
    <3>3. CASE s.lo # nil /\ (r.hi = nil \/ ~(c - r.hi >= s.lo))
      <4>1. Works(c - s.lo)
        BY <1>2, <1>nil, <2>5, <3>3 DEF Ranges, Bounds, Contains, Add, Empty, IntRange
      <4> QED BY <4>1
    <3> QED BY <3>1, <3>2, <3>3
  <2> QED BY <2>2, <2>3, <2>4, <2>5
<1>3. ASSUME NEW a \in Int, Contains(r, a), Contains(s, c - a)
      PROVE  \E u \in Int, v \in Int : Contains(r, u) /\ Contains(s, v) /\ c = u + v
  <2>1. c - a \in Int /\ c = a + (c - a)
    OBVIOUS
  <2> QED BY <1>3, <2>1
<1> QED BY <1>1, <1>2, <1>3

(* The range that Sub returns holds the differences of the integers of its *)
(* operands.                                                               *)
THEOREM SubSound ==
  ASSUME NEW r \in Ranges, NEW s \in Ranges, NEW a \in Int, NEW b \in Int,
         Contains(r, a), Contains(s, b)
  PROVE  Contains(Sub(r, s), a - b)
<1>1. nil \notin Int
  BY IntervalAssumption
<1> QED BY <1>1 DEF Ranges, Bounds, Contains, Sub, Empty, IntRange

-----------------------------------------------------------------------------
(* The parts of a range, and the pair of bounds that an operation widens.  *)

(* v is between the bounds of a biggerIntPair.                             *)
AtLeast(m, v) == m.extra < 0 \/ (m.extra = 0 /\ m.i <= v)
AtMost(m, v) == m.extra > 0 \/ (m.extra = 0 /\ v <= m.i)
Covers(p, v) == AtLeast(p.min, v) /\ AtMost(p.max, v)

BiggerInts == {NegInf, PosInf} \cup {Finite(n) : n \in Int}
Pairs == [min : BiggerInts, max : BiggerInts]

(* A biggerInt is an infinity or an integer.                               *)
LEMMA BiggerIntType ==
  ASSUME NEW b \in BiggerInts
  PROVE  \/ b = NegInf /\ b.extra = -1 /\ b.i = nil
         \/ b = PosInf /\ b.extra = 1 /\ b.i = nil
         \/ b.extra = 0 /\ b.i \in Int
  BY DEF BiggerInts, NegInf, PosInf, Finite

(* lowerMin keeps every integer above one of the two bounds above the new one. *)
LEMMA LowerMin ==
  ASSUME NEW m \in BiggerInts, NEW b \in BiggerInts, NEW v \in Int
  PROVE  /\ lowerMin(m, b) \in BiggerInts
         /\ AtLeast(m, v) \/ AtLeast(b, v) => AtLeast(lowerMin(m, b), v)
  BY BiggerIntType DEF lowerMin, AtLeast

(* raiseMax keeps every integer below one of the two bounds below the new one. *)
LEMMA RaiseMax ==
  ASSUME NEW m \in BiggerInts, NEW b \in BiggerInts, NEW v \in Int
  PROVE  /\ raiseMax(m, b) \in BiggerInts
         /\ AtMost(m, v) \/ AtMost(b, v) => AtMost(raiseMax(m, b), v)
  BY BiggerIntType DEF raiseMax, AtMost

(* Widening keeps what was covered, and covers what is between the bounds  *)
(* it widens to.                                                           *)
LEMMA WidenCovers ==
  ASSUME NEW p \in Pairs, NEW c \in BOOLEAN, NEW low, NEW high, NEW v \in Int,
         c => low \in BiggerInts /\ high \in BiggerInts
  PROVE  /\ Widen(p, c, low, high) \in Pairs
         /\ Covers(p, v) => Covers(Widen(p, c, low, high), v)
         /\ c /\ AtLeast(low, v) /\ AtMost(high, v) => Covers(Widen(p, c, low, high), v)
<1>1. p.min \in BiggerInts /\ p.max \in BiggerInts
  BY DEF Pairs
<1>2. CASE ~c
  BY <1>2 DEF Widen
<1>3. CASE c
  <2>1. /\ lowerMin(p.min, low) \in BiggerInts
        /\ AtLeast(p.min, v) \/ AtLeast(low, v) => AtLeast(lowerMin(p.min, low), v)
    BY <1>1, <1>3, LowerMin
  <2>2. /\ raiseMax(p.max, high) \in BiggerInts
        /\ AtMost(p.max, v) \/ AtMost(high, v) => AtMost(raiseMax(p.max, high), v)
    BY <1>1, <1>3, RaiseMax
  <2>3. Widen(p, c, low, high) =
          [min |-> lowerMin(p.min, low), max |-> raiseMax(p.max, high)]
    BY <1>3 DEF Widen
  <2>4. /\ Widen(p, c, low, high).min = lowerMin(p.min, low)
        /\ Widen(p, c, low, high).max = raiseMax(p.max, high)
        /\ Widen(p, c, low, high) \in Pairs
    BY <2>1, <2>2, <2>3 DEF Pairs
  <2> QED BY <2>1, <2>2, <2>4 DEF Covers
<1> QED BY <1>2, <1>3

(* toIntRange keeps what the pair covers.                                  *)
LEMMA ToIntRange ==
  ASSUME NEW p \in Pairs, NEW v \in Int, Covers(p, v)
  PROVE  Contains(toIntRange(p), v)
<1>1. p.min \in BiggerInts /\ p.max \in BiggerInts
  BY DEF Pairs
<1>2. nil \notin Int
  BY IntervalAssumption
<1>3. \/ p.min.extra = -1 /\ p.min.i = nil
      \/ p.min.extra = 0 /\ p.min.i \in Int /\ p.min.i <= v
  <2>1. AtLeast(p.min, v)
    BY DEF Covers
  <2>2. \/ p.min.extra = -1 /\ p.min.i = nil
        \/ p.min.extra = 1 /\ p.min.i = nil
        \/ p.min.extra = 0 /\ p.min.i \in Int
    BY <1>1, BiggerIntType
  <2> QED BY <2>1, <2>2 DEF AtLeast
<1>4. \/ p.max.extra = 1 /\ p.max.i = nil
      \/ p.max.extra = 0 /\ p.max.i \in Int /\ v <= p.max.i
  <2>1. AtMost(p.max, v)
    BY DEF Covers
  <2>2. \/ p.max.extra = -1 /\ p.max.i = nil
        \/ p.max.extra = 1 /\ p.max.i = nil
        \/ p.max.extra = 0 /\ p.max.i \in Int
    BY <1>1, BiggerIntType
  <2> QED BY <2>1, <2>2 DEF AtMost
<1> QED BY <1>2, <1>3, <1>4 DEF toIntRange, Contains, IntRange

(* What split returns: the negative and the positive integers of r, with   *)
(* the bounds that the operations use.                                     *)
Parts(X, r) ==
  /\ X.neg \in Ranges /\ X.pos \in Ranges
  /\ X.negEmpty \in BOOLEAN /\ X.hasZero \in BOOLEAN /\ X.posEmpty \in BOOLEAN
  /\ ~X.negEmpty => X.neg.hi \in Int /\ X.neg.hi < 0 /\ (X.neg.lo = nil \/ X.neg.lo < 0)
  /\ ~X.posEmpty => X.pos.lo \in Int /\ X.pos.lo > 0 /\ (X.pos.hi = nil \/ X.pos.hi > 0)
  /\ \A a \in Int : Contains(r, a) =>
       /\ a < 0 => ~X.negEmpty /\ Contains(X.neg, a)
       /\ a = 0 => X.hasZero
       /\ a > 0 => ~X.posEmpty /\ Contains(X.pos, a)

(* split returns the parts of a range.                                     *)
LEMMA SplitParts ==
  ASSUME NEW r \in Ranges
  PROVE  Parts(split(r), r)
<1>1. nil \notin Int
  BY IntervalAssumption
<1> DEFINE X == split(r)
<1>2. CASE r.lo # nil /\ r.lo > 0
  <2>1. /\ X.neg = empty /\ X.pos = r
        /\ X.negEmpty = TRUE /\ X.hasZero = FALSE /\ X.posEmpty = Empty(r)
    BY <1>2 DEF split
  <2> HIDE DEF X
  <2>2. empty \in Ranges /\ Empty(r) \in BOOLEAN
    BY DEF empty, IntRange, Ranges, Bounds, Empty
  <2>3. \A a \in Int : Contains(r, a) => a > 0 /\ ~Empty(r)
    BY <1>1, <1>2 DEF Ranges, Bounds, Contains, Empty
  <2>4. r.lo \in Int
    BY <1>2 DEF Ranges, Bounds
  <2>5. Parts(X, r)
    <3>1. /\ X.neg \in Ranges /\ X.pos \in Ranges
          /\ X.negEmpty \in BOOLEAN /\ X.hasZero \in BOOLEAN /\ X.posEmpty \in BOOLEAN
      BY <2>1, <2>2
    <3>2. X.negEmpty /\ X.pos.lo \in Int /\ X.pos.lo > 0
      BY <1>2, <2>1, <2>4
    <3>5. ~X.posEmpty => (X.pos.hi = nil \/ X.pos.hi > 0)
      <4>1. ~Empty(r) => (r.hi = nil \/ r.hi > 0)
        BY <1>1, <1>2, <2>4 DEF Empty, Ranges, Bounds
      <4> QED BY <2>1, <4>1
    <3>3. \A a \in Int : Contains(r, a) => a > 0 /\ ~X.posEmpty /\ Contains(X.pos, a)
      BY <2>1, <2>3
    <3>4. \A a \in Int : a > 0 => ~(a < 0) /\ ~(a = 0)
      OBVIOUS
    <3> QED BY <3>1, <3>2, <3>3, <3>4, <3>5 DEF Parts
  <2> QED BY <2>5 DEF X
<1>3. CASE ~(r.lo # nil /\ r.lo > 0) /\ r.hi # nil /\ r.hi < 0
  <2>1. /\ X.neg = r /\ X.pos = empty
        /\ X.negEmpty = Empty(r) /\ X.hasZero = FALSE /\ X.posEmpty = TRUE
    BY <1>3 DEF split
  <2> HIDE DEF X
  <2>2. empty \in Ranges /\ Empty(r) \in BOOLEAN
    BY DEF empty, IntRange, Ranges, Bounds, Empty
  <2>3. \A a \in Int : Contains(r, a) => a < 0 /\ ~Empty(r)
    BY <1>1, <1>3 DEF Ranges, Bounds, Contains, Empty
  <2>4. r.hi \in Int
    BY <1>3 DEF Ranges, Bounds
  <2>5. Parts(X, r)
    <3>1. /\ X.neg \in Ranges /\ X.pos \in Ranges
          /\ X.negEmpty \in BOOLEAN /\ X.hasZero \in BOOLEAN /\ X.posEmpty \in BOOLEAN
      BY <2>1, <2>2
    <3>2. X.posEmpty /\ X.neg.hi \in Int /\ X.neg.hi < 0
      BY <1>3, <2>1, <2>4
    <3>5. ~X.negEmpty => (X.neg.lo = nil \/ X.neg.lo < 0)
      <4>1. ~Empty(r) => (r.lo = nil \/ r.lo < 0)
        BY <1>1, <1>3, <2>4 DEF Empty, Ranges, Bounds
      <4> QED BY <2>1, <4>1
    <3>3. \A a \in Int : Contains(r, a) => a < 0 /\ ~X.negEmpty /\ Contains(X.neg, a)
      BY <2>1, <2>3
    <3>4. \A a \in Int : a < 0 => ~(a > 0) /\ ~(a = 0)
      OBVIOUS
    <3> QED BY <3>1, <3>2, <3>3, <3>4, <3>5 DEF Parts
  <2> QED BY <2>5 DEF X
<1>4. CASE ~(r.lo # nil /\ r.lo > 0) /\ ~(r.hi # nil /\ r.hi < 0)
  <2> DEFINE neg == IntRange(r.lo, IF r.hi # nil /\ r.hi < -1 THEN r.hi ELSE -1)
             pos == IntRange(IF r.lo # nil /\ r.lo > 1 THEN r.lo ELSE 1, r.hi)
  <2>1. /\ X.neg = neg /\ X.pos = pos
        /\ X.negEmpty = Empty(neg) /\ X.hasZero = ContainsZero(r) /\ X.posEmpty = Empty(pos)
    BY <1>4 DEF split
  <2>2. neg.lo = r.lo /\ neg.hi = -1 /\ pos.lo = 1 /\ pos.hi = r.hi
    BY <1>1, <1>4 DEF IntRange, Ranges, Bounds
  <2>3. neg \in Ranges /\ pos \in Ranges
    BY <1>1, <1>4 DEF IntRange, Ranges, Bounds
  <2> HIDE DEF X, neg, pos
  <2>4. Empty(neg) \in BOOLEAN /\ Empty(pos) \in BOOLEAN /\ ContainsZero(r) \in BOOLEAN
    BY DEF Empty, ContainsZero, Contains
  <2>5. ASSUME NEW a \in Int, Contains(r, a)
        PROVE  /\ a < 0 => ~Empty(neg) /\ Contains(neg, a)
               /\ a = 0 => ContainsZero(r)
               /\ a > 0 => ~Empty(pos) /\ Contains(pos, a)
    BY <1>1, <2>2, <2>5 DEF Contains, ContainsZero, Empty, Ranges, Bounds
  <2>6. /\ ~Empty(neg) => (neg.lo = nil \/ neg.lo < 0)
        /\ ~Empty(pos) => (pos.hi = nil \/ pos.hi > 0)
    BY <1>1, <2>2, <2>3 DEF Empty, Ranges, Bounds
  <2>7. Parts(X, r)
    BY <2>1, <2>2, <2>3, <2>4, <2>5, <2>6 DEF Parts
  <2> QED BY <2>7 DEF X
<1> QED BY <1>2, <1>3, <1>4

-----------------------------------------------------------------------------
(* Multiplication.                                                         *)

(* The product of two integers of the same sign grows with their absolute  *)
(* values; of different signs, it falls.                                   *)
LEMMA MulPosPos ==
  ASSUME NEW a \in Int, NEW h \in Int, NEW b \in Int, NEW k \in Int,
         0 <= a, a <= h, 0 <= b, b <= k
  PROVE  a * b <= h * k
<1>1. a * b <= h * b
  <2>1. (h - a) * b >= 0
    BY SMTT(30)
  <2> QED BY <2>1, SMTT(30)
<1>2. h * b <= h * k
  <2>1. h * (k - b) >= 0
    BY SMTT(30)
  <2> QED BY <2>1, SMTT(30)
<1>3. a * b \in Int /\ h * b \in Int /\ h * k \in Int
  OBVIOUS
<1> QED BY <1>1, <1>2, <1>3

(* Both negative.                                                          *)
LEMMA MulNegNeg ==
  ASSUME NEW a \in Int, NEW h \in Int, NEW b \in Int, NEW k \in Int,
         a <= h, h <= 0, b <= k, k <= 0
  PROVE  h * k <= a * b
<1>1. (-h) * (-k) <= (-a) * (-b)
  BY MulPosPos
<1>2. (-h) * (-k) = h * k /\ (-a) * (-b) = a * b
  OBVIOUS
<1> QED BY <1>1, <1>2

(* Negative times positive.                                                *)
LEMMA MulNegPos ==
  ASSUME NEW a \in Int, NEW h \in Int, NEW b \in Int, NEW k \in Int,
         a <= h, h <= 0, 0 <= k, k <= b
  PROVE  a * b <= h * k
<1>1. (-h) * k <= (-a) * b
  BY MulPosPos
<1>2. (-h) * k = -(h * k) /\ (-a) * b = -(a * b)
  OBVIOUS
<1>3. a * b \in Int /\ h * k \in Int
  OBVIOUS
<1> QED BY <1>1, <1>2, <1>3

(* Positive times negative.                                                *)
LEMMA MulPosNeg ==
  ASSUME NEW a \in Int, NEW h \in Int, NEW b \in Int, NEW k \in Int,
         0 <= h, h <= a, b <= k, k <= 0
  PROVE  a * b <= h * k
<1>1. b * a <= k * h
  BY MulNegPos
<1>2. b * a = a * b /\ k * h = h * k
  OBVIOUS
<1> QED BY <1>1, <1>2

(* A bound of mulLsh is a biggerInt.                                       *)
LEMMA BoundType ==
  ASSUME NEW i \in Bounds, NEW j \in Bounds, NEW inf \in BiggerInts
  PROVE  Bound(FALSE, i, j, inf) \in BiggerInts
<1>1. CASE i = nil \/ j = nil
  BY <1>1 DEF Bound
<1>2. CASE ~(i = nil \/ j = nil)
  <2>1. i * j \in Int
    BY <1>2 DEF Bounds
  <2>2. Bound(FALSE, i, j, inf) = Finite(i * j)
    BY <1>2 DEF Bound, combine, bigIntMul
  <2> QED BY <2>1, <2>2 DEF BiggerInts
<1> QED BY <1>1, <1>2

(* A bound that is a product, or infinite, bounds v if the product does.   *)
LEMMA BoundCovers ==
  ASSUME NEW i \in Bounds, NEW j \in Bounds, NEW v \in Int
  PROVE  /\ (i \in Int /\ j \in Int => i * j <= v) => AtLeast(Bound(FALSE, i, j, NegInf), v)
         /\ (i \in Int /\ j \in Int => v <= i * j) => AtMost(Bound(FALSE, i, j, PosInf), v)
  BY DEF Bounds, Bound, combine, bigIntMul, AtLeast, AtMost, NegInf, PosInf, Finite

(* A finite bound bounds what its integer does.                            *)
LEMMA FiniteCovers ==
  ASSUME NEW n \in Int, NEW v \in Int
  PROVE  /\ Finite(n) \in BiggerInts
         /\ n <= v => AtLeast(Finite(n), v)
         /\ v <= n => AtMost(Finite(n), v)
  BY DEF AtLeast, AtMost, Finite, BiggerInts

(* The bounds of one branch of mulLsh, for each choice of signs.           *)
LEMMA BranchNegNeg ==
  ASSUME NEW p \in Ranges, NEW q \in Ranges, NEW a \in Int, NEW b \in Int,
         Contains(p, a), Contains(q, b), a < 0, b < 0,
         p.hi \in Int, p.hi < 0, q.hi \in Int, q.hi < 0
  PROVE  /\ AtLeast(Finite(combine(FALSE, p.hi, q.hi)), a * b)
         /\ AtMost(Bound(FALSE, p.lo, q.lo, PosInf), a * b)
<1>1. nil \notin Int
  BY IntervalAssumption
<1>2. a <= p.hi /\ b <= q.hi
  BY <1>1 DEF Contains
<1>3. p.hi * q.hi <= a * b
  BY <1>2, MulNegNeg
<1>4. ASSUME p.lo \in Int, q.lo \in Int
      PROVE  a * b <= p.lo * q.lo
  <2>1. p.lo <= a /\ q.lo <= b
    BY <1>1, <1>4 DEF Contains
  <2> QED BY <1>4, <2>1, MulNegNeg
<1>5. p.hi * q.hi \in Int /\ a * b \in Int /\ p.lo \in Bounds /\ q.lo \in Bounds
  BY DEF Ranges
<1>6. AtLeast(Finite(p.hi * q.hi), a * b)
  BY <1>3, <1>5, FiniteCovers
<1>7. AtMost(Bound(FALSE, p.lo, q.lo, PosInf), a * b)
  BY <1>4, <1>5, BoundCovers
<1> QED BY <1>6, <1>7 DEF combine, bigIntMul

(* Negative times positive.                                                *)
LEMMA BranchNegPos ==
  ASSUME NEW p \in Ranges, NEW q \in Ranges, NEW a \in Int, NEW b \in Int,
         Contains(p, a), Contains(q, b), a < 0, b > 0,
         p.hi \in Int, p.hi < 0, q.lo \in Int, q.lo > 0
  PROVE  /\ AtLeast(Bound(FALSE, p.lo, q.hi, NegInf), a * b)
         /\ AtMost(Finite(combine(FALSE, p.hi, q.lo)), a * b)
<1>1. nil \notin Int
  BY IntervalAssumption
<1>2. a <= p.hi /\ b >= q.lo
  BY <1>1 DEF Contains
<1>3. a * b <= p.hi * q.lo
  BY <1>2, MulNegPos
<1>4. ASSUME p.lo \in Int, q.hi \in Int
      PROVE  p.lo * q.hi <= a * b
  <2>1. p.lo <= a /\ q.hi >= b
    BY <1>1, <1>4 DEF Contains
  <2> QED BY <1>4, <2>1, MulNegPos
<1>5. p.hi * q.lo \in Int /\ a * b \in Int /\ p.lo \in Bounds /\ q.hi \in Bounds
  BY DEF Ranges
<1>6. AtMost(Finite(p.hi * q.lo), a * b)
  BY <1>3, <1>5, FiniteCovers
<1>7. AtLeast(Bound(FALSE, p.lo, q.hi, NegInf), a * b)
  BY <1>4, <1>5, BoundCovers
<1> QED BY <1>6, <1>7 DEF combine, bigIntMul

(* Positive times negative.                                                *)
LEMMA BranchPosNeg ==
  ASSUME NEW p \in Ranges, NEW q \in Ranges, NEW a \in Int, NEW b \in Int,
         Contains(p, a), Contains(q, b), a > 0, b < 0,
         p.lo \in Int, p.lo > 0, q.hi \in Int, q.hi < 0
  PROVE  /\ AtLeast(Bound(FALSE, p.hi, q.lo, NegInf), a * b)
         /\ AtMost(Finite(combine(FALSE, p.lo, q.hi)), a * b)
<1>1. nil \notin Int
  BY IntervalAssumption
<1>2. a >= p.lo /\ b <= q.hi
  BY <1>1 DEF Contains
<1>3. a * b <= p.lo * q.hi
  BY <1>2, MulPosNeg
<1>4. ASSUME p.hi \in Int, q.lo \in Int
      PROVE  p.hi * q.lo <= a * b
  <2>1. p.hi >= a /\ q.lo <= b
    BY <1>1, <1>4 DEF Contains
  <2> QED BY <1>4, <2>1, MulPosNeg
<1>5. p.lo * q.hi \in Int /\ a * b \in Int /\ p.hi \in Bounds /\ q.lo \in Bounds
  BY DEF Ranges
<1>6. AtMost(Finite(p.lo * q.hi), a * b)
  BY <1>3, <1>5, FiniteCovers
<1>7. AtLeast(Bound(FALSE, p.hi, q.lo, NegInf), a * b)
  BY <1>4, <1>5, BoundCovers
<1> QED BY <1>6, <1>7 DEF combine, bigIntMul

(* Both positive.                                                          *)
LEMMA BranchPosPos ==
  ASSUME NEW p \in Ranges, NEW q \in Ranges, NEW a \in Int, NEW b \in Int,
         Contains(p, a), Contains(q, b), a > 0, b > 0,
         p.lo \in Int, p.lo > 0, q.lo \in Int, q.lo > 0
  PROVE  /\ AtLeast(Finite(combine(FALSE, p.lo, q.lo)), a * b)
         /\ AtMost(Bound(FALSE, p.hi, q.hi, PosInf), a * b)
<1>1. nil \notin Int
  BY IntervalAssumption
<1>2. a >= p.lo /\ b >= q.lo
  BY <1>1 DEF Contains
<1>3. p.lo * q.lo <= a * b
  BY <1>2, MulPosPos
<1>4. ASSUME p.hi \in Int, q.hi \in Int
      PROVE  a * b <= p.hi * q.hi
  <2>1. p.hi >= a /\ q.hi >= b
    BY <1>1, <1>4 DEF Contains
  <2> QED BY <1>4, <2>1, MulPosPos
<1>5. p.lo * q.lo \in Int /\ a * b \in Int /\ p.hi \in Bounds /\ q.hi \in Bounds
  BY DEF Ranges
<1>6. AtLeast(Finite(p.lo * q.lo), a * b)
  BY <1>3, <1>5, FiniteCovers
<1>7. AtMost(Bound(FALSE, p.hi, q.hi, PosInf), a * b)
  BY <1>4, <1>5, BoundCovers
<1> QED BY <1>6, <1>7 DEF combine, bigIntMul

(* The range that Mul returns holds the products of the integers of its    *)
(* operands.                                                               *)
THEOREM MulSound ==
  ASSUME NEW r \in Ranges, NEW s \in Ranges, NEW a \in Int, NEW b \in Int,
         Contains(r, a), Contains(s, b)
  PROVE  Contains(Mul(r, s), a * b)
<1> DEFINE X == split(r)
           Y == split(s)
           start == IF Y.hasZero \/ X.hasZero THEN fromIntRange(zero) ELSE newBiggerIntPair
           cnn == ~X.negEmpty /\ ~Y.negEmpty
           cnp == ~X.negEmpty /\ ~Y.posEmpty
           cpn == ~X.posEmpty /\ ~Y.negEmpty
           cpp == ~X.posEmpty /\ ~Y.posEmpty
           lnn == Finite(combine(FALSE, X.neg.hi, Y.neg.hi))
           hnn == Bound(FALSE, X.neg.lo, Y.neg.lo, PosInf)
           lnp == Bound(FALSE, X.neg.lo, Y.pos.hi, NegInf)
           hnp == Finite(combine(FALSE, X.neg.hi, Y.pos.lo))
           lpn == Bound(FALSE, X.pos.hi, Y.neg.lo, NegInf)
           hpn == Finite(combine(FALSE, X.pos.lo, Y.neg.hi))
           lpp == Finite(combine(FALSE, X.pos.lo, Y.pos.lo))
           hpp == Bound(FALSE, X.pos.hi, Y.pos.hi, PosInf)
           nn == Widen(start, cnn, lnn, hnn)
           np == Widen(nn, cnp, lnp, hnp)
           pn == Widen(np, cpn, lpn, hpn)
           pp == Widen(pn, cpp, lpp, hpp)
           v == a * b
<1>nil. nil \notin Int
  BY IntervalAssumption
<1>v. v \in Int
  OBVIOUS
<1>1. ~Empty(r) /\ ~Empty(s)
  BY <1>nil DEF Ranges, Bounds, Contains, Empty
<1>2. CASE justZero(r) \/ justZero(s)
  <2>1. Mul(r, s) = zero
    BY <1>1, <1>2 DEF Mul, mulLsh
  <2>2. a = 0 \/ b = 0
    BY <1>nil, <1>2 DEF justZero, Contains, Ranges, Bounds
  <2>3. v = 0
    BY <2>2
  <2>4. zero.lo = 0 /\ zero.hi = 0
    BY DEF zero, IntRange
  <2>5. Contains(zero, 0)
    BY <2>4 DEF Contains
  <2> QED BY <2>1, <2>3, <2>5
<1>3. CASE ~(justZero(r) \/ justZero(s))
  <2>1. Mul(r, s) = toIntRange(pp)
    BY <1>1, <1>3, ZenonT(60) DEF Mul, mulLsh
  <2>2. Parts(X, r) /\ Parts(Y, s)
    BY SplitParts
  <2> HIDE DEF X, Y
  <2>3. /\ X.neg.lo \in Bounds /\ X.neg.hi \in Bounds /\ X.pos.lo \in Bounds /\ X.pos.hi \in Bounds
        /\ Y.neg.lo \in Bounds /\ Y.neg.hi \in Bounds /\ Y.pos.lo \in Bounds /\ Y.pos.hi \in Bounds
    BY <2>2 DEF Parts, Ranges
  <2>4. cnn \in BOOLEAN /\ cnp \in BOOLEAN /\ cpn \in BOOLEAN /\ cpp \in BOOLEAN
    OBVIOUS
  <2>5. NegInf \in BiggerInts /\ PosInf \in BiggerInts
    BY DEF BiggerInts
  <2>6. cnn => lnn \in BiggerInts /\ hnn \in BiggerInts
    <3>1. hnn \in BiggerInts
      BY <2>3, <2>5, BoundType
    <3>2. ASSUME cnn PROVE combine(FALSE, X.neg.hi, Y.neg.hi) \in Int
      BY <2>2, <3>2 DEF Parts, combine, bigIntMul
    <3> QED BY <3>1, <3>2, FiniteCovers
  <2>7. cnp => lnp \in BiggerInts /\ hnp \in BiggerInts
    <3>1. lnp \in BiggerInts
      BY <2>3, <2>5, BoundType
    <3>2. ASSUME cnp PROVE combine(FALSE, X.neg.hi, Y.pos.lo) \in Int
      BY <2>2, <3>2 DEF Parts, combine, bigIntMul
    <3> QED BY <3>1, <3>2, FiniteCovers
  <2>8. cpn => lpn \in BiggerInts /\ hpn \in BiggerInts
    <3>1. lpn \in BiggerInts
      BY <2>3, <2>5, BoundType
    <3>2. ASSUME cpn PROVE combine(FALSE, X.pos.lo, Y.neg.hi) \in Int
      BY <2>2, <3>2 DEF Parts, combine, bigIntMul
    <3> QED BY <3>1, <3>2, FiniteCovers
  <2>9. cpp => lpp \in BiggerInts /\ hpp \in BiggerInts
    <3>1. hpp \in BiggerInts
      BY <2>3, <2>5, BoundType
    <3>2. ASSUME cpp PROVE combine(FALSE, X.pos.lo, Y.pos.lo) \in Int
      BY <2>2, <3>2 DEF Parts, combine, bigIntMul
    <3> QED BY <3>1, <3>2, FiniteCovers
  <2>10. start \in Pairs
    BY <2>5, <1>nil DEF fromIntRange, newBiggerIntPair, zero, IntRange, Pairs, BiggerInts
  <2>11. a = 0 \/ b = 0 => Covers(start, v)
    <3>1. ASSUME a = 0 \/ b = 0 PROVE v = 0 /\ start = fromIntRange(zero)
      <4>1. X.hasZero \/ Y.hasZero
        BY <2>2, <3>1 DEF Parts
      <4> QED BY <3>1, <4>1
    <3>2. fromIntRange(zero) = [min |-> Finite(0), max |-> Finite(0)]
      BY <1>nil DEF fromIntRange, zero, IntRange
    <3>3. Covers(fromIntRange(zero), 0)
      BY <3>2, FiniteCovers DEF Covers
    <3> QED BY <3>1, <3>3
  <2>12. a < 0 /\ b < 0 => cnn /\ AtLeast(lnn, v) /\ AtMost(hnn, v)
    <3>1. SUFFICES ASSUME a < 0, b < 0
                   PROVE  cnn /\ AtLeast(lnn, v) /\ AtMost(hnn, v)
      OBVIOUS
    <3>2. /\ ~X.negEmpty /\ Contains(X.neg, a) /\ X.neg \in Ranges
          /\ X.neg.hi \in Int /\ X.neg.hi < 0
      BY <2>2, <3>1 DEF Parts
    <3>3. /\ ~Y.negEmpty /\ Contains(Y.neg, b) /\ Y.neg \in Ranges
          /\ Y.neg.hi \in Int /\ Y.neg.hi < 0
      BY <2>2, <3>1 DEF Parts
    <3> QED BY <3>1, <3>2, <3>3, BranchNegNeg
  <2>13. a < 0 /\ b > 0 => cnp /\ AtLeast(lnp, v) /\ AtMost(hnp, v)
    <3>1. SUFFICES ASSUME a < 0, b > 0
                   PROVE  cnp /\ AtLeast(lnp, v) /\ AtMost(hnp, v)
      OBVIOUS
    <3>2. /\ ~X.negEmpty /\ Contains(X.neg, a) /\ X.neg \in Ranges
          /\ X.neg.hi \in Int /\ X.neg.hi < 0
      BY <2>2, <3>1 DEF Parts
    <3>3. /\ ~Y.posEmpty /\ Contains(Y.pos, b) /\ Y.pos \in Ranges
          /\ Y.pos.lo \in Int /\ Y.pos.lo > 0
      BY <2>2, <3>1 DEF Parts
    <3> QED BY <3>1, <3>2, <3>3, BranchNegPos
  <2>14. a > 0 /\ b < 0 => cpn /\ AtLeast(lpn, v) /\ AtMost(hpn, v)
    <3>1. SUFFICES ASSUME a > 0, b < 0
                   PROVE  cpn /\ AtLeast(lpn, v) /\ AtMost(hpn, v)
      OBVIOUS
    <3>2. /\ ~X.posEmpty /\ Contains(X.pos, a) /\ X.pos \in Ranges
          /\ X.pos.lo \in Int /\ X.pos.lo > 0
      BY <2>2, <3>1 DEF Parts
    <3>3. /\ ~Y.negEmpty /\ Contains(Y.neg, b) /\ Y.neg \in Ranges
          /\ Y.neg.hi \in Int /\ Y.neg.hi < 0
      BY <2>2, <3>1 DEF Parts
    <3> QED BY <3>1, <3>2, <3>3, BranchPosNeg
  <2>15. a > 0 /\ b > 0 => cpp /\ AtLeast(lpp, v) /\ AtMost(hpp, v)
    <3>1. SUFFICES ASSUME a > 0, b > 0
                   PROVE  cpp /\ AtLeast(lpp, v) /\ AtMost(hpp, v)
      OBVIOUS
    <3>2. /\ ~X.posEmpty /\ Contains(X.pos, a) /\ X.pos \in Ranges
          /\ X.pos.lo \in Int /\ X.pos.lo > 0
      BY <2>2, <3>1 DEF Parts
    <3>3. /\ ~Y.posEmpty /\ Contains(Y.pos, b) /\ Y.pos \in Ranges
          /\ Y.pos.lo \in Int /\ Y.pos.lo > 0
      BY <2>2, <3>1 DEF Parts
    <3> QED BY <3>1, <3>2, <3>3, BranchPosPos
  <2>20. a = 0 \/ b = 0 \/ (a < 0 /\ b < 0) \/ (a < 0 /\ b > 0) \/ (a > 0 /\ b < 0) \/ (a > 0 /\ b > 0)
    OBVIOUS
  <2> HIDE DEF start, cnn, cnp, cpn, cpp, lnn, hnn, lnp, hnp, lpn, hpn, lpp, hpp, v
  <2>21. /\ nn \in Pairs
         /\ Covers(start, v) \/ (cnn /\ AtLeast(lnn, v) /\ AtMost(hnn, v)) => Covers(nn, v)
    BY <1>v, <2>4, <2>6, <2>10, WidenCovers
  <2> HIDE DEF nn
  <2>22. /\ np \in Pairs
         /\ Covers(nn, v) \/ (cnp /\ AtLeast(lnp, v) /\ AtMost(hnp, v)) => Covers(np, v)
    BY <1>v, <2>4, <2>7, <2>21, WidenCovers
  <2> HIDE DEF np
  <2>23. /\ pn \in Pairs
         /\ Covers(np, v) \/ (cpn /\ AtLeast(lpn, v) /\ AtMost(hpn, v)) => Covers(pn, v)
    BY <1>v, <2>4, <2>8, <2>22, WidenCovers
  <2> HIDE DEF pn
  <2>24. /\ pp \in Pairs
         /\ Covers(pn, v) \/ (cpp /\ AtLeast(lpp, v) /\ AtMost(hpp, v)) => Covers(pp, v)
    BY <1>v, <2>4, <2>9, <2>23, WidenCovers
  <2> HIDE DEF pp
  <2>25. Covers(pp, v)
    BY <2>11, <2>12, <2>13, <2>14, <2>15, <2>20, <2>21, <2>22, <2>23, <2>24
  <2>26. Contains(toIntRange(pp), v)
    BY <1>v, <2>24, <2>25, ToIntRange
  <2> QED BY <2>1, <2>26 DEF v
<1> QED BY <1>2, <1>3

-----------------------------------------------------------------------------
(* Division.                                                               *)

(* The quotient grows with the dividend and falls with the divisor.        *)
LEMMA DivMonotone ==
  ASSUME NEW n \in Nat, NEW m \in Nat, NEW d \in Nat, NEW e \in Nat,
         n <= m, 0 < e, e <= d
  PROVE  /\ n \div d \in Nat /\ m \div e \in Nat
         /\ n \div d <= m \div e
<1> DEFINE q == n \div d
           t == m \div e
<1>1. q \in Nat /\ q * d <= n
  BY SMTT(30)
<1>2. t \in Nat /\ m < t * e + e
  BY SMTT(30)
<1> HIDE DEF q, t
<1>3. CASE q <= t
  BY <1>1, <1>2, <1>3 DEF q, t
<1>4. CASE t + 1 <= q
  <2>1. (t + 1) * e <= q * d
    BY <1>1, <1>2, <1>4, MulPosPos
  <2>2. (t + 1) * e = t * e + e
    BY <1>2
  <2>3. t * e \in Int /\ q * d \in Int
    BY <1>1, <1>2
  <2> QED BY <1>1, <1>2, <2>1, <2>2, <2>3
<1> QED BY <1>1, <1>2, <1>3, <1>4

(* A bound of Quo is a biggerInt, as its divisor is not zero.              *)
LEMMA QuotientType ==
  ASSUME NEW i \in Bounds, NEW j \in Bounds, NEW inf \in BiggerInts, j # 0
  PROVE  Quotient(i, j, inf) \in BiggerInts
<1>1. CASE i = nil
  BY <1>1 DEF Quotient
<1>2. CASE i # nil /\ j = nil
  BY <1>2 DEF Quotient, BiggerInts
<1>3. CASE i # nil /\ j # nil
  <2>1. i \in Int /\ j \in Int
    BY <1>3 DEF Bounds
  <2>2. Abs(i) \in Nat /\ Abs(j) \in Nat /\ 0 < Abs(j)
    BY <2>1 DEF Abs
  <2>3. Abs(i) \div Abs(j) \in Nat
    BY <2>2, DivMonotone
  <2>4. bigIntQuo(i, j) \in Int
    BY <2>3 DEF bigIntQuo
  <2> QED BY <1>3, <2>4 DEF Quotient, BiggerInts
<1> QED BY <1>1, <1>2, <1>3

(* The bounds of one branch of Quo, for each choice of signs.              *)
LEMMA QuoNegNeg ==
  ASSUME NEW p \in Ranges, NEW q \in Ranges, NEW a \in Int, NEW b \in Int,
         Contains(p, a), Contains(q, b), a < 0, b < 0,
         p.hi \in Int, p.hi < 0, q.hi \in Int, q.hi < 0
  PROVE  /\ bigIntQuo(a, b) \in Int
         /\ AtLeast(Quotient(p.hi, q.lo, NegInf), bigIntQuo(a, b))
         /\ AtMost(Quotient(p.lo, q.hi, PosInf), bigIntQuo(a, b))
<1> DEFINE m == Abs(a) \div Abs(b)
<1>1. nil \notin Int
  BY IntervalAssumption
<1>2. /\ Abs(a) \in Nat /\ Abs(b) \in Nat /\ Abs(p.hi) \in Nat /\ Abs(q.hi) \in Nat
      /\ Abs(p.hi) <= Abs(a) /\ Abs(q.hi) <= Abs(b) /\ 0 < Abs(q.hi) /\ 0 < Abs(b)
  BY <1>1 DEF Contains, Abs
<1>3. m \in Nat
  BY <1>2, DivMonotone
<1>4. bigIntQuo(a, b) = m
  BY DEF bigIntQuo
<1> HIDE DEF m
<1>5. AtLeast(Quotient(p.hi, q.lo, NegInf), m)
  <2>1. CASE q.lo = nil
    <3>1. Quotient(p.hi, q.lo, NegInf) = Finite(0)
      BY <1>1, <2>1 DEF Quotient
    <3> QED BY <1>3, <3>1, FiniteCovers
  <2>2. CASE q.lo # nil
    <3>1. q.lo \in Int /\ q.lo <= b
      BY <2>2 DEF Contains, Ranges, Bounds
    <3>2. Abs(q.lo) \in Nat /\ Abs(b) <= Abs(q.lo)
      BY <3>1 DEF Abs
    <3> DEFINE n == Abs(p.hi) \div Abs(q.lo)
    <3>3. n \in Nat /\ n <= m
      BY <1>2, <3>2, DivMonotone DEF m
    <3>4. bigIntQuo(p.hi, q.lo) = n
      BY <3>1 DEF bigIntQuo
    <3> HIDE DEF n
    <3>5. Quotient(p.hi, q.lo, NegInf) = Finite(n)
      BY <1>1, <2>2, <3>4 DEF Quotient
    <3> QED BY <1>3, <3>3, <3>5, FiniteCovers
  <2> QED BY <2>1, <2>2
<1>6. AtMost(Quotient(p.lo, q.hi, PosInf), m)
  <2>1. CASE p.lo = nil
    <3>1. Quotient(p.lo, q.hi, PosInf) = PosInf
      BY <2>1 DEF Quotient
    <3> QED BY <3>1 DEF AtMost, PosInf
  <2>2. CASE p.lo # nil
    <3>1. p.lo \in Int /\ p.lo <= a
      BY <2>2 DEF Contains, Ranges, Bounds
    <3>2. Abs(p.lo) \in Nat /\ Abs(a) <= Abs(p.lo)
      BY <3>1 DEF Abs
    <3> DEFINE n == Abs(p.lo) \div Abs(q.hi)
    <3>3. n \in Nat /\ m <= n
      BY <1>2, <3>2, DivMonotone DEF m
    <3>4. bigIntQuo(p.lo, q.hi) = n
      BY <3>1 DEF bigIntQuo
    <3> HIDE DEF n
    <3>5. Quotient(p.lo, q.hi, PosInf) = Finite(n)
      BY <1>1, <2>2, <3>4 DEF Quotient
    <3> QED BY <1>3, <3>3, <3>5, FiniteCovers
  <2> QED BY <2>1, <2>2
<1>7. m \in Int
  BY <1>3
<1> QED BY <1>4, <1>5, <1>6, <1>7

(* Negative by positive.                                                   *)
LEMMA QuoNegPos ==
  ASSUME NEW p \in Ranges, NEW q \in Ranges, NEW a \in Int, NEW b \in Int,
         Contains(p, a), Contains(q, b), a < 0, b > 0,
         p.hi \in Int, p.hi < 0, q.lo \in Int, q.lo > 0
  PROVE  /\ bigIntQuo(a, b) \in Int
         /\ AtLeast(Quotient(p.lo, q.lo, NegInf), bigIntQuo(a, b))
         /\ AtMost(Quotient(p.hi, q.hi, PosInf), bigIntQuo(a, b))
<1> DEFINE m == Abs(a) \div Abs(b)
<1>1. nil \notin Int
  BY IntervalAssumption
<1>2. /\ Abs(a) \in Nat /\ Abs(b) \in Nat /\ Abs(p.hi) \in Nat /\ Abs(q.lo) \in Nat
      /\ Abs(p.hi) <= Abs(a) /\ Abs(q.lo) <= Abs(b) /\ 0 < Abs(q.lo) /\ 0 < Abs(b)
  BY <1>1 DEF Contains, Abs
<1>3. m \in Nat
  BY <1>2, DivMonotone
<1>4. bigIntQuo(a, b) = -(m)
  BY DEF bigIntQuo
<1> HIDE DEF m
<1>5. AtMost(Quotient(p.hi, q.hi, PosInf), -(m))
  <2>1. CASE q.hi = nil
    <3>1. Quotient(p.hi, q.hi, PosInf) = Finite(0)
      BY <1>1, <2>1 DEF Quotient
    <3> QED BY <1>3, <3>1, FiniteCovers
  <2>2. CASE q.hi # nil
    <3>1. q.hi \in Int /\ q.hi >= b
      BY <2>2 DEF Contains, Ranges, Bounds
    <3>2. Abs(q.hi) \in Nat /\ Abs(b) <= Abs(q.hi)
      BY <3>1 DEF Abs
    <3> DEFINE n == Abs(p.hi) \div Abs(q.hi)
    <3>3. n \in Nat /\ n <= m
      BY <1>2, <3>2, DivMonotone DEF m
    <3>4. bigIntQuo(p.hi, q.hi) = -(n)
      BY <3>1 DEF bigIntQuo
    <3> HIDE DEF n
    <3>5. Quotient(p.hi, q.hi, PosInf) = Finite(-(n))
      BY <1>1, <2>2, <3>4 DEF Quotient
    <3> QED BY <1>3, <3>3, <3>5, FiniteCovers
  <2> QED BY <2>1, <2>2
<1>6. AtLeast(Quotient(p.lo, q.lo, NegInf), -(m))
  <2>1. CASE p.lo = nil
    <3>1. Quotient(p.lo, q.lo, NegInf) = NegInf
      BY <2>1 DEF Quotient
    <3> QED BY <3>1 DEF AtLeast, NegInf
  <2>2. CASE p.lo # nil
    <3>1. p.lo \in Int /\ p.lo <= a
      BY <2>2 DEF Contains, Ranges, Bounds
    <3>2. Abs(p.lo) \in Nat /\ Abs(a) <= Abs(p.lo)
      BY <3>1 DEF Abs
    <3> DEFINE n == Abs(p.lo) \div Abs(q.lo)
    <3>3. n \in Nat /\ m <= n
      BY <1>2, <3>2, DivMonotone DEF m
    <3>4. bigIntQuo(p.lo, q.lo) = -(n)
      BY <3>1 DEF bigIntQuo
    <3> HIDE DEF n
    <3>5. Quotient(p.lo, q.lo, NegInf) = Finite(-(n))
      BY <1>1, <2>2, <3>4 DEF Quotient
    <3> QED BY <1>3, <3>3, <3>5, FiniteCovers
  <2> QED BY <2>1, <2>2
<1>7. -(m) \in Int
  BY <1>3
<1> QED BY <1>4, <1>5, <1>6, <1>7

(* Positive by negative.                                                   *)
LEMMA QuoPosNeg ==
  ASSUME NEW p \in Ranges, NEW q \in Ranges, NEW a \in Int, NEW b \in Int,
         Contains(p, a), Contains(q, b), a > 0, b < 0,
         p.lo \in Int, p.lo > 0, q.hi \in Int, q.hi < 0
  PROVE  /\ bigIntQuo(a, b) \in Int
         /\ AtLeast(Quotient(p.hi, q.hi, NegInf), bigIntQuo(a, b))
         /\ AtMost(Quotient(p.lo, q.lo, PosInf), bigIntQuo(a, b))
<1> DEFINE m == Abs(a) \div Abs(b)
<1>1. nil \notin Int
  BY IntervalAssumption
<1>2. /\ Abs(a) \in Nat /\ Abs(b) \in Nat /\ Abs(p.lo) \in Nat /\ Abs(q.hi) \in Nat
      /\ Abs(p.lo) <= Abs(a) /\ Abs(q.hi) <= Abs(b) /\ 0 < Abs(q.hi) /\ 0 < Abs(b)
  BY <1>1 DEF Contains, Abs
<1>3. m \in Nat
  BY <1>2, DivMonotone
<1>4. bigIntQuo(a, b) = -(m)
  BY DEF bigIntQuo
<1> HIDE DEF m
<1>5. AtMost(Quotient(p.lo, q.lo, PosInf), -(m))
  <2>1. CASE q.lo = nil
    <3>1. Quotient(p.lo, q.lo, PosInf) = Finite(0)
      BY <1>1, <2>1 DEF Quotient
    <3> QED BY <1>3, <3>1, FiniteCovers
  <2>2. CASE q.lo # nil
    <3>1. q.lo \in Int /\ q.lo <= b
      BY <2>2 DEF Contains, Ranges, Bounds
    <3>2. Abs(q.lo) \in Nat /\ Abs(b) <= Abs(q.lo)
      BY <3>1 DEF Abs
    <3> DEFINE n == Abs(p.lo) \div Abs(q.lo)
    <3>3. n \in Nat /\ n <= m
      BY <1>2, <3>2, DivMonotone DEF m
    <3>4. bigIntQuo(p.lo, q.lo) = -(n)
      BY <3>1 DEF bigIntQuo
    <3> HIDE DEF n
    <3>5. Quotient(p.lo, q.lo, PosInf) = Finite(-(n))
      BY <1>1, <2>2, <3>4 DEF Quotient
    <3> QED BY <1>3, <3>3, <3>5, FiniteCovers
  <2> QED BY <2>1, <2>2
<1>6. AtLeast(Quotient(p.hi, q.hi, NegInf), -(m))
  <2>1. CASE p.hi = nil
    <3>1. Quotient(p.hi, q.hi, NegInf) = NegInf
      BY <2>1 DEF Quotient
    <3> QED BY <3>1 DEF AtLeast, NegInf
  <2>2. CASE p.hi # nil
    <3>1. p.hi \in Int /\ p.hi >= a
      BY <2>2 DEF Contains, Ranges, Bounds
    <3>2. Abs(p.hi) \in Nat /\ Abs(a) <= Abs(p.hi)
      BY <3>1 DEF Abs
    <3> DEFINE n == Abs(p.hi) \div Abs(q.hi)
    <3>3. n \in Nat /\ m <= n
      BY <1>2, <3>2, DivMonotone DEF m
    <3>4. bigIntQuo(p.hi, q.hi) = -(n)
      BY <3>1 DEF bigIntQuo
    <3> HIDE DEF n
    <3>5. Quotient(p.hi, q.hi, NegInf) = Finite(-(n))
      BY <1>1, <2>2, <3>4 DEF Quotient
    <3> QED BY <1>3, <3>3, <3>5, FiniteCovers
  <2> QED BY <2>1, <2>2
<1>7. -(m) \in Int
  BY <1>3
<1> QED BY <1>4, <1>5, <1>6, <1>7

(* Both positive.                                                          *)
LEMMA QuoPosPos ==
  ASSUME NEW p \in Ranges, NEW q \in Ranges, NEW a \in Int, NEW b \in Int,
         Contains(p, a), Contains(q, b), a > 0, b > 0,
         p.lo \in Int, p.lo > 0, q.lo \in Int, q.lo > 0
  PROVE  /\ bigIntQuo(a, b) \in Int
         /\ AtLeast(Quotient(p.lo, q.hi, NegInf), bigIntQuo(a, b))
         /\ AtMost(Quotient(p.hi, q.lo, PosInf), bigIntQuo(a, b))
<1> DEFINE m == Abs(a) \div Abs(b)
<1>1. nil \notin Int
  BY IntervalAssumption
<1>2. /\ Abs(a) \in Nat /\ Abs(b) \in Nat /\ Abs(p.lo) \in Nat /\ Abs(q.lo) \in Nat
      /\ Abs(p.lo) <= Abs(a) /\ Abs(q.lo) <= Abs(b) /\ 0 < Abs(q.lo) /\ 0 < Abs(b)
  BY <1>1 DEF Contains, Abs
<1>3. m \in Nat
  BY <1>2, DivMonotone
<1>4. bigIntQuo(a, b) = m
  BY DEF bigIntQuo
<1> HIDE DEF m
<1>5. AtLeast(Quotient(p.lo, q.hi, NegInf), m)
  <2>1. CASE q.hi = nil
    <3>1. Quotient(p.lo, q.hi, NegInf) = Finite(0)
      BY <1>1, <2>1 DEF Quotient
    <3> QED BY <1>3, <3>1, FiniteCovers
  <2>2. CASE q.hi # nil
    <3>1. q.hi \in Int /\ q.hi >= b
      BY <2>2 DEF Contains, Ranges, Bounds
    <3>2. Abs(q.hi) \in Nat /\ Abs(b) <= Abs(q.hi)
      BY <3>1 DEF Abs
    <3> DEFINE n == Abs(p.lo) \div Abs(q.hi)
    <3>3. n \in Nat /\ n <= m
      BY <1>2, <3>2, DivMonotone DEF m
    <3>4. bigIntQuo(p.lo, q.hi) = n
      BY <3>1 DEF bigIntQuo
    <3> HIDE DEF n
    <3>5. Quotient(p.lo, q.hi, NegInf) = Finite(n)
      BY <1>1, <2>2, <3>4 DEF Quotient
    <3> QED BY <1>3, <3>3, <3>5, FiniteCovers
  <2> QED BY <2>1, <2>2
<1>6. AtMost(Quotient(p.hi, q.lo, PosInf), m)
  <2>1. CASE p.hi = nil
    <3>1. Quotient(p.hi, q.lo, PosInf) = PosInf
      BY <2>1 DEF Quotient
    <3> QED BY <3>1 DEF AtMost, PosInf
  <2>2. CASE p.hi # nil
    <3>1. p.hi \in Int /\ p.hi >= a
      BY <2>2 DEF Contains, Ranges, Bounds
    <3>2. Abs(p.hi) \in Nat /\ Abs(a) <= Abs(p.hi)
      BY <3>1 DEF Abs
    <3> DEFINE n == Abs(p.hi) \div Abs(q.lo)
    <3>3. n \in Nat /\ m <= n
      BY <1>2, <3>2, DivMonotone DEF m
    <3>4. bigIntQuo(p.hi, q.lo) = n
      BY <3>1 DEF bigIntQuo
    <3> HIDE DEF n
    <3>5. Quotient(p.hi, q.lo, PosInf) = Finite(n)
      BY <1>1, <2>2, <3>4 DEF Quotient
    <3> QED BY <1>3, <3>3, <3>5, FiniteCovers
  <2> QED BY <2>1, <2>2
<1>7. m \in Int
  BY <1>3
<1> QED BY <1>4, <1>5, <1>6, <1>7

(* When Quo succeeds, the range it returns holds the quotients, rounded    *)
(* towards zero, of the integers of its operands; no divisor is zero.      *)
THEOREM QuoSound ==
  ASSUME NEW r \in Ranges, NEW s \in Ranges, NEW a \in Int, NEW b \in Int,
         Contains(r, a), Contains(s, b), Quo(r, s).ok
  PROVE  b # 0 /\ Contains(Quo(r, s).z, bigIntQuo(a, b))
<1> DEFINE X == split(r)
           Y == split(s)
           start == IF X.hasZero THEN fromIntRange(zero) ELSE newBiggerIntPair
           cnn == ~X.negEmpty /\ ~Y.negEmpty
           cnp == ~X.negEmpty /\ ~Y.posEmpty
           cpn == ~X.posEmpty /\ ~Y.negEmpty
           cpp == ~X.posEmpty /\ ~Y.posEmpty
           lnn == Quotient(X.neg.hi, Y.neg.lo, NegInf)
           hnn == Quotient(X.neg.lo, Y.neg.hi, PosInf)
           lnp == Quotient(X.neg.lo, Y.pos.lo, NegInf)
           hnp == Quotient(X.neg.hi, Y.pos.hi, PosInf)
           lpn == Quotient(X.pos.hi, Y.neg.hi, NegInf)
           hpn == Quotient(X.pos.lo, Y.neg.lo, PosInf)
           lpp == Quotient(X.pos.lo, Y.pos.hi, NegInf)
           hpp == Quotient(X.pos.hi, Y.pos.lo, PosInf)
           nn == Widen(start, cnn, lnn, hnn)
           np == Widen(nn, cnp, lnp, hnp)
           pn == Widen(np, cpn, lpn, hpn)
           pp == Widen(pn, cpp, lpp, hpp)
           v == bigIntQuo(a, b)
<1>nil. nil \notin Int
  BY IntervalAssumption
<1>1. ~Empty(r) /\ ~Empty(s)
  BY <1>nil DEF Ranges, Bounds, Contains, Empty
<1>2. ~ContainsZero(s)
  BY <1>1 DEF Quo, Failure
<1>3. b # 0
  BY <1>2 DEF ContainsZero
<1>4. a = 0 => v = 0
  <2>1. ASSUME NEW d \in Nat, 0 < d PROVE 0 \div d = 0
    BY <2>1, DivMonotone, SMTT(30)
  <2>2. Abs(0) = 0 /\ Abs(b) \in Nat /\ 0 < Abs(b)
    BY <1>3 DEF Abs
  <2>3. Abs(0) \div Abs(b) = 0
    BY <2>1, <2>2
  <2> QED BY <2>3 DEF bigIntQuo
<1>5. CASE justZero(r)
  <2>1. Quo(r, s).z = zero
    BY <1>1, <1>2, <1>5 DEF Quo, Success
  <2>2. a = 0
    BY <1>nil, <1>5 DEF justZero, Contains, Ranges, Bounds
  <2>3. zero.lo = 0 /\ zero.hi = 0
    BY DEF zero, IntRange
  <2>4. Contains(zero, 0)
    BY <2>3 DEF Contains
  <2> QED BY <1>3, <1>4, <2>1, <2>2, <2>4
<1>6. CASE ~justZero(r)
  <2>1. Quo(r, s).z = toIntRange(pp)
    BY <1>1, <1>2, <1>6 DEF Quo, Success
  <2>2. Parts(X, r) /\ Parts(Y, s)
    BY SplitParts
  <2> HIDE DEF X, Y
  <2>3. /\ X.neg.lo \in Bounds /\ X.neg.hi \in Bounds /\ X.pos.lo \in Bounds /\ X.pos.hi \in Bounds
        /\ Y.neg.lo \in Bounds /\ Y.neg.hi \in Bounds /\ Y.pos.lo \in Bounds /\ Y.pos.hi \in Bounds
    BY <2>2 DEF Parts, Ranges
  <2>4. cnn \in BOOLEAN /\ cnp \in BOOLEAN /\ cpn \in BOOLEAN /\ cpp \in BOOLEAN
    OBVIOUS
  <2>5. NegInf \in BiggerInts /\ PosInf \in BiggerInts
    BY DEF BiggerInts
  <2>6. cnn => lnn \in BiggerInts /\ hnn \in BiggerInts
    <3>1. cnn => Y.neg.hi # 0 /\ Y.neg.lo # 0
      BY <1>nil, <2>2 DEF Parts
    <3> QED BY <2>3, <2>5, <3>1, QuotientType
  <2>7. cnp => lnp \in BiggerInts /\ hnp \in BiggerInts
    <3>1. cnp => Y.pos.lo # 0 /\ Y.pos.hi # 0
      BY <1>nil, <2>2 DEF Parts
    <3> QED BY <2>3, <2>5, <3>1, QuotientType
  <2>8. cpn => lpn \in BiggerInts /\ hpn \in BiggerInts
    <3>1. cpn => Y.neg.hi # 0 /\ Y.neg.lo # 0
      BY <1>nil, <2>2 DEF Parts
    <3> QED BY <2>3, <2>5, <3>1, QuotientType
  <2>9. cpp => lpp \in BiggerInts /\ hpp \in BiggerInts
    <3>1. cpp => Y.pos.lo # 0 /\ Y.pos.hi # 0
      BY <1>nil, <2>2 DEF Parts
    <3> QED BY <2>3, <2>5, <3>1, QuotientType
  <2>10. start \in Pairs
    BY <2>5, <1>nil DEF fromIntRange, newBiggerIntPair, zero, IntRange, Pairs, BiggerInts
  <2>11. a = 0 => v \in Int /\ Covers(start, v)
    <3>1. a = 0 => start = fromIntRange(zero)
      BY <2>2 DEF Parts
    <3>2. fromIntRange(zero) = [min |-> Finite(0), max |-> Finite(0)]
      BY <1>nil DEF fromIntRange, zero, IntRange
    <3>3. Covers(fromIntRange(zero), 0)
      BY <3>2, FiniteCovers DEF Covers
    <3> HIDE DEF v, start
    <3> QED BY <1>4, <3>1, <3>3
  <2>12. a < 0 /\ b < 0 =>
          v \in Int /\ cnn /\ AtLeast(lnn, v) /\ AtMost(hnn, v)
    <3>1. SUFFICES ASSUME a < 0, b < 0
                   PROVE  v \in Int /\ cnn /\ AtLeast(lnn, v) /\ AtMost(hnn, v)
      OBVIOUS
    <3>2. /\ ~X.negEmpty /\ Contains(X.neg, a) /\ X.neg \in Ranges
          /\ X.neg.hi \in Int /\ X.neg.hi < 0
      BY <2>2, <3>1 DEF Parts
    <3>3. /\ ~Y.negEmpty /\ Contains(Y.neg, b) /\ Y.neg \in Ranges
          /\ Y.neg.hi \in Int /\ Y.neg.hi < 0
      BY <2>2, <3>1 DEF Parts
    <3> QED BY <3>1, <3>2, <3>3, QuoNegNeg
  <2>13. a < 0 /\ b > 0 =>
          v \in Int /\ cnp /\ AtLeast(lnp, v) /\ AtMost(hnp, v)
    <3>1. SUFFICES ASSUME a < 0, b > 0
                   PROVE  v \in Int /\ cnp /\ AtLeast(lnp, v) /\ AtMost(hnp, v)
      OBVIOUS
    <3>2. /\ ~X.negEmpty /\ Contains(X.neg, a) /\ X.neg \in Ranges
          /\ X.neg.hi \in Int /\ X.neg.hi < 0
      BY <2>2, <3>1 DEF Parts
    <3>3. /\ ~Y.posEmpty /\ Contains(Y.pos, b) /\ Y.pos \in Ranges
          /\ Y.pos.lo \in Int /\ Y.pos.lo > 0
      BY <2>2, <3>1 DEF Parts
    <3> QED BY <3>1, <3>2, <3>3, QuoNegPos
  <2>14. a > 0 /\ b < 0 =>
          v \in Int /\ cpn /\ AtLeast(lpn, v) /\ AtMost(hpn, v)
    <3>1. SUFFICES ASSUME a > 0, b < 0
                   PROVE  v \in Int /\ cpn /\ AtLeast(lpn, v) /\ AtMost(hpn, v)
      OBVIOUS
    <3>2. /\ ~X.posEmpty /\ Contains(X.pos, a) /\ X.pos \in Ranges
          /\ X.pos.lo \in Int /\ X.pos.lo > 0
      BY <2>2, <3>1 DEF Parts
    <3>3. /\ ~Y.negEmpty /\ Contains(Y.neg, b) /\ Y.neg \in Ranges
          /\ Y.neg.hi \in Int /\ Y.neg.hi < 0
      BY <2>2, <3>1 DEF Parts
    <3> QED BY <3>1, <3>2, <3>3, QuoPosNeg
  <2>15. a > 0 /\ b > 0 =>
          v \in Int /\ cpp /\ AtLeast(lpp, v) /\ AtMost(hpp, v)
    <3>1. SUFFICES ASSUME a > 0, b > 0
                   PROVE  v \in Int /\ cpp /\ AtLeast(lpp, v) /\ AtMost(hpp, v)
      OBVIOUS
    <3>2. /\ ~X.posEmpty /\ Contains(X.pos, a) /\ X.pos \in Ranges
          /\ X.pos.lo \in Int /\ X.pos.lo > 0
      BY <2>2, <3>1 DEF Parts
    <3>3. /\ ~Y.posEmpty /\ Contains(Y.pos, b) /\ Y.pos \in Ranges
          /\ Y.pos.lo \in Int /\ Y.pos.lo > 0
      BY <2>2, <3>1 DEF Parts
    <3> QED BY <3>1, <3>2, <3>3, QuoPosPos
  <2>16. a = 0 \/ (a < 0 /\ b < 0) \/ (a < 0 /\ b > 0) \/ (a > 0 /\ b < 0) \/ (a > 0 /\ b > 0)
    BY <1>3
  <2> HIDE DEF start, cnn, cnp, cpn, cpp, lnn, hnn, lnp, hnp, lpn, hpn, lpp, hpp, v
  <2>17. v \in Int
    BY <2>11, <2>12, <2>13, <2>14, <2>15, <2>16
  <2>21. /\ nn \in Pairs
         /\ Covers(start, v) \/ (cnn /\ AtLeast(lnn, v) /\ AtMost(hnn, v)) => Covers(nn, v)
    BY <2>17, <2>4, <2>6, <2>10, WidenCovers
  <2> HIDE DEF nn
  <2>22. /\ np \in Pairs
         /\ Covers(nn, v) \/ (cnp /\ AtLeast(lnp, v) /\ AtMost(hnp, v)) => Covers(np, v)
    BY <2>17, <2>4, <2>7, <2>21, WidenCovers
  <2> HIDE DEF np
  <2>23. /\ pn \in Pairs
         /\ Covers(np, v) \/ (cpn /\ AtLeast(lpn, v) /\ AtMost(hpn, v)) => Covers(pn, v)
    BY <2>17, <2>4, <2>8, <2>22, WidenCovers
  <2> HIDE DEF pn
  <2>24. /\ pp \in Pairs
         /\ Covers(pn, v) \/ (cpp /\ AtLeast(lpp, v) /\ AtMost(hpp, v)) => Covers(pp, v)
    BY <2>17, <2>4, <2>9, <2>23, WidenCovers
  <2> HIDE DEF pp
  <2>25. Covers(pp, v)
    BY <2>11, <2>12, <2>13, <2>14, <2>15, <2>16, <2>21, <2>22, <2>23, <2>24
  <2>26. Contains(toIntRange(pp), v)
    BY <2>17, <2>24, <2>25, ToIntRange
  <2> QED BY <1>3, <2>1, <2>26 DEF v
<1> QED BY <1>5, <1>6

-----------------------------------------------------------------------------
(* Shifts.                                                                 *)

(* What Lsh and Rsh shift by when they succeed: no negative integer, and   *)
(* bounds whose powers of two are known to grow with them.                 *)
Shifts(s) == s.lo \in Exponents /\ (s.hi = nil \/ s.hi \in Exponents)

(* Powers of two are positive and grow with their exponents.               *)
LEMMA Powers ==
  ASSUME NEW n \in Exponents, NEW m \in Exponents, n <= m
  PROVE  /\ n \in Int /\ m \in Int
         /\ 2^n \in Int /\ 2^m \in Int /\ 1 <= 2^n /\ 1 <= 2^m /\ 2^n <= 2^m
<1>1. 2^n \in Nat /\ 2^m \in Nat /\ 2^n >= 1 /\ 2^m >= 1 /\ 2^n <= 2^m
  BY PowerAssumption
<1>2. n \in Int /\ m \in Int
  BY IntervalAssumption DEF Exponents
<1> HIDE DEF Exponents
<1> QED BY <1>1, <1>2

(* The quotient of negative integers, rounded down, grows with both.       *)
LEMMA DivNegative ==
  ASSUME NEW n \in Int, NEW m \in Int, NEW d \in Int, NEW e \in Int,
         n <= m, m < 0, 0 < d, d <= e
  PROVE  /\ n \div d \in Int /\ m \div e \in Int
         /\ n \div d <= m \div e /\ m \div e <= -1
<1> DEFINE q == n \div d
           t == m \div e
<1>1. q \in Int /\ q * d <= n /\ n < q * d + d
  BY SMTT(30)
<1>2. t \in Int /\ t * e <= m /\ m < t * e + e
  BY SMTT(30)
<1> HIDE DEF q, t
<1>3. t <= -1
  <2>1. CASE 0 <= t
    <3>1. 0 * 0 <= t * e
      BY <1>2, <2>1, MulPosPos
    <3>2. t * e \in Int
      BY <1>2
    <3> QED BY <1>2, <3>1, <3>2
  <2> QED BY <1>2, <2>1
<1>4. q <= t
  <2>1. CASE t + 1 <= q
    <3>1. q <= -1
      <4>1. CASE 0 <= q
        <5>1. 0 * 0 <= q * d
          BY <1>1, <4>1, MulPosPos
        <5>2. q * d \in Int
          BY <1>1
        <5> QED BY <1>1, <5>1, <5>2
      <4> QED BY <1>1, <4>1
    <3>2. (t + 1) * e <= q * d
      BY <1>1, <1>2, <2>1, <3>1, MulNegPos
    <3>3. (t + 1) * e = t * e + e
      BY <1>2
    <3>4. t * e \in Int /\ q * d \in Int
      BY <1>1, <1>2
    <3> QED BY <1>1, <1>2, <3>2, <3>3, <3>4
  <2> QED BY <1>1, <1>2, <2>1
<1> QED BY <1>1, <1>2, <1>3, <1>4 DEF q, t

(* A shift that succeeds, of a range that is not empty, is not negative.   *)
LEMMA ShiftsOf ==
  ASSUME NEW s \in Ranges, IsSmall(s), NEW b \in Int, Contains(s, b), b <= 2 * Width,
         ~ContainsNegative(s)
  PROVE  Shifts(s) /\ b \in Exponents
<1>1. nil \notin Int /\ Small \in Nat /\ Width \in Nat
  BY IntervalAssumption
<1>2. /\ s.lo \in (-Small)..Small \/ s.lo = nil
      /\ s.hi \in (-Small)..Small \/ s.hi = nil
  BY DEF IsSmall
<1>3. s.lo \in Int /\ 0 <= s.lo /\ s.lo <= b /\ s.lo <= Small
  BY <1>1, <1>2 DEF ContainsNegative, Contains
<1>4. s.hi = nil \/ (s.hi \in Int /\ b <= s.hi /\ s.hi <= Small)
  BY <1>1, <1>2 DEF Contains
<1> QED BY <1>1, <1>3, <1>4 DEF Shifts, Exponents

(* The positive part of the shifts.                                        *)
LEMMA SplitShifts ==
  ASSUME NEW s \in Ranges, Shifts(s), NEW b \in Int, Contains(s, b)
  PROVE  /\ split(s).negEmpty
         /\ split(s).hasZero <=> s.lo = 0
         /\ split(s).pos.hi = s.hi
         /\ split(s).pos.lo \in Exponents /\ split(s).pos.lo >= 1
         /\ b > 0 => split(s).pos.lo <= b
<1>1. nil \notin Int /\ Small \in Nat /\ Width \in Nat
  BY IntervalAssumption
<1>2. s.lo \in Int /\ 0 <= s.lo /\ s.lo <= b /\ (s.hi = nil \/ (s.hi \in Int /\ b <= s.hi))
  BY <1>1 DEF Shifts, Exponents, Contains
<1>3. CASE s.lo > 0
  <2>1. split(s).negEmpty = TRUE /\ split(s).hasZero = FALSE /\ split(s).pos = s
    BY <1>1, <1>2, <1>3 DEF split
  <2> QED BY <1>2, <1>3, <2>1 DEF Shifts
<1>4. CASE s.lo = 0
  <2>1. /\ split(s).negEmpty = Empty(IntRange(s.lo, -1))
        /\ split(s).hasZero = ContainsZero(s)
        /\ split(s).pos = IntRange(1, s.hi)
    <3>1. ~(s.lo > 0) /\ ~(s.lo > 1)
      BY <1>4
    <3>2. ~(s.hi # nil /\ s.hi < 0) /\ ~(s.hi # nil /\ s.hi < -1)
      BY <1>2, <1>4
    <3> QED BY <3>1, <3>2 DEF split
  <2>2. Empty(IntRange(s.lo, -1))
    BY <1>1, <1>4 DEF Empty, IntRange
  <2>3. ContainsZero(s)
    BY <1>1, <1>2, <1>4 DEF ContainsZero, Contains
  <2>4. 1 \in Exponents
    BY <1>1 DEF Exponents
  <2> QED BY <1>2, <1>4, <2>1, <2>2, <2>3, <2>4 DEF IntRange
<1> QED BY <1>2, <1>3, <1>4

(* fromIntRange covers the integers of the range.                          *)
LEMMA FromIntRange ==
  ASSUME NEW r \in Ranges, NEW a \in Int, Contains(r, a)
  PROVE  fromIntRange(r) \in Pairs /\ Covers(fromIntRange(r), a)
<1>1. nil \notin Int
  BY IntervalAssumption
<1>2. NegInf \in BiggerInts /\ PosInf \in BiggerInts /\ AtLeast(NegInf, a) /\ AtMost(PosInf, a)
  BY DEF BiggerInts, NegInf, PosInf, AtLeast, AtMost
<1>3. /\ r.lo = nil \/ (r.lo \in Int /\ r.lo <= a)
      /\ r.hi = nil \/ (r.hi \in Int /\ a <= r.hi)
  BY DEF Ranges, Bounds, Contains
<1> DEFINE low == IF r.lo # nil THEN Finite(r.lo) ELSE NegInf
           high == IF r.hi # nil THEN Finite(r.hi) ELSE PosInf
<1>4. low \in BiggerInts /\ AtLeast(low, a)
  BY <1>2, <1>3, FiniteCovers
<1>5. high \in BiggerInts /\ AtMost(high, a)
  BY <1>2, <1>3, FiniteCovers
<1>6. fromIntRange(r) = [min |-> low, max |-> high]
  BY DEF fromIntRange
<1> HIDE DEF low, high
<1> QED BY <1>4, <1>5, <1>6 DEF Pairs, Covers

(* The bounds of a shift are biggerInts.                                   *)
LEMMA LshTypes ==
  ASSUME NEW i \in Bounds, NEW j \in Exponents \cup {nil}, NEW inf \in BiggerInts
  PROVE  /\ Bound(TRUE, i, j, inf) \in BiggerInts
         /\ i \in Int /\ j \in Exponents => Finite(combine(TRUE, i, j)) \in BiggerInts
<1>1. ASSUME i \in Int, j \in Exponents PROVE Finite(combine(TRUE, i, j)) \in BiggerInts
  <2>1. j \in Int
    BY <1>1, IntervalAssumption DEF Exponents
  <2>2. 2^j \in Int
    BY <1>1, <2>1, Powers
  <2>3. combine(TRUE, i, j) \in Int
    BY <1>1, <2>2 DEF combine, bigIntLsh
  <2> QED BY <2>3, FiniteCovers
<1>2. Bound(TRUE, i, j, inf) \in BiggerInts
  <2>1. CASE i = nil \/ j = nil
    BY <2>1 DEF Bound
  <2>2. CASE i # nil /\ j # nil
    <3>1. Bound(TRUE, i, j, inf) = Finite(combine(TRUE, i, j))
      BY <2>2 DEF Bound
    <3>2. i \in Int /\ j \in Exponents
      BY <2>2 DEF Bounds
    <3> QED BY <1>1, <3>1, <3>2
  <2> QED BY <2>1, <2>2
<1> QED BY <1>1, <1>2

LEMMA ShiftedType ==
  ASSUME NEW i \in Bounds, NEW j \in Exponents \cup {nil}, NEW inf \in BiggerInts,
         NEW limit \in Int
  PROVE  Shifted(i, j, inf, limit) \in BiggerInts
<1>1. CASE i = nil
  BY <1>1 DEF Shifted
<1>2. CASE i # nil /\ j = nil
  <2>1. Shifted(i, j, inf, limit) = Finite(limit)
    BY <1>2 DEF Shifted
  <2> QED BY <2>1, FiniteCovers
<1>3. CASE i # nil /\ j # nil
  <2>1. i \in Int /\ j \in Exponents
    BY <1>3 DEF Bounds
  <2>2. j \in Int
    BY <2>1, IntervalAssumption DEF Exponents
  <2>3. 2^j \in Int /\ 1 <= 2^j
    BY <2>1, <2>2, Powers
  <2>4. i \div 2^j \in Int
    BY <2>1, <2>3, SMTT(30)
  <2>5. Shifted(i, j, inf, limit) = Finite(i \div 2^j)
    BY <1>3 DEF Shifted, bigIntRsh
  <2> QED BY <2>4, <2>5, FiniteCovers
<1> QED BY <1>1, <1>2, <1>3

(* The bounds of one branch of mulLsh for a shift.                         *)
LEMMA LshNegative ==
  ASSUME NEW p \in Ranges, NEW a \in Int, Contains(p, a), a < 0, p.hi \in Int, p.hi < 0,
         NEW lo \in Exponents, NEW hi \in Exponents \cup {nil},
         NEW b \in Exponents, lo <= b, hi = nil \/ b <= hi
  PROVE  /\ Bound(TRUE, p.lo, hi, NegInf) \in BiggerInts
         /\ AtLeast(Bound(TRUE, p.lo, hi, NegInf), a * 2^b)
         /\ AtMost(Finite(combine(TRUE, p.hi, lo)), a * 2^b)
<1>1. nil \notin Int
  BY IntervalAssumption
<1>2. a <= p.hi
  BY <1>1 DEF Contains
<1>3. 2^lo \in Int /\ 2^b \in Int /\ 1 <= 2^lo /\ 2^lo <= 2^b
  BY Powers
<1>4. a * 2^b <= p.hi * 2^lo
  BY <1>2, <1>3, MulNegPos
<1>5. p.hi * 2^lo \in Int /\ a * 2^b \in Int
  BY <1>3
<1>6. AtMost(Finite(p.hi * 2^lo), a * 2^b)
  BY <1>4, <1>5, FiniteCovers
<1>7. CASE p.lo = nil \/ hi = nil
  <2>1. Bound(TRUE, p.lo, hi, NegInf) = NegInf
    BY <1>7 DEF Bound
  <2>2. NegInf \in BiggerInts /\ AtLeast(NegInf, a * 2^b)
    BY DEF AtLeast, NegInf, BiggerInts
  <2> QED BY <1>6, <2>1, <2>2 DEF combine, bigIntLsh
<1>8. CASE p.lo # nil /\ hi # nil
  <2>1. p.lo \in Int /\ p.lo <= a /\ hi \in Exponents /\ b <= hi
    BY <1>1, <1>8 DEF Ranges, Bounds, Contains
  <2>2. 2^hi \in Int /\ 2^b <= 2^hi
    BY <2>1, Powers
  <2>3. p.lo * 2^hi <= a * 2^b
    BY <1>3, <2>1, <2>2, MulNegPos
  <2>4. p.lo * 2^hi \in Int
    BY <2>1, <2>2
  <2>5. Bound(TRUE, p.lo, hi, NegInf) = Finite(p.lo * 2^hi)
    BY <1>8 DEF Bound, combine, bigIntLsh
  <2> QED BY <1>5, <1>6, <2>3, <2>4, <2>5, FiniteCovers DEF combine, bigIntLsh
<1> QED BY <1>7, <1>8

(* The same for positive integers.                                         *)
LEMMA LshPositive ==
  ASSUME NEW p \in Ranges, NEW a \in Int, Contains(p, a), a > 0, p.lo \in Int, p.lo > 0,
         NEW lo \in Exponents, NEW hi \in Exponents \cup {nil},
         NEW b \in Exponents, lo <= b, hi = nil \/ b <= hi
  PROVE  /\ Bound(TRUE, p.hi, hi, PosInf) \in BiggerInts
         /\ AtMost(Bound(TRUE, p.hi, hi, PosInf), a * 2^b)
         /\ AtLeast(Finite(combine(TRUE, p.lo, lo)), a * 2^b)
<1>1. nil \notin Int
  BY IntervalAssumption
<1>2. p.lo <= a
  BY <1>1 DEF Contains
<1>3. 2^lo \in Int /\ 2^b \in Int /\ 1 <= 2^lo /\ 2^lo <= 2^b
  BY Powers
<1>4. p.lo * 2^lo <= a * 2^b
  BY <1>2, <1>3, MulPosPos
<1>5. p.lo * 2^lo \in Int /\ a * 2^b \in Int
  BY <1>3
<1>6. AtLeast(Finite(p.lo * 2^lo), a * 2^b)
  BY <1>4, <1>5, FiniteCovers
<1>7. CASE p.hi = nil \/ hi = nil
  <2>1. Bound(TRUE, p.hi, hi, PosInf) = PosInf
    BY <1>7 DEF Bound
  <2>2. PosInf \in BiggerInts /\ AtMost(PosInf, a * 2^b)
    BY DEF AtMost, PosInf, BiggerInts
  <2> QED BY <1>6, <2>1, <2>2 DEF combine, bigIntLsh
<1>8. CASE p.hi # nil /\ hi # nil
  <2>1. p.hi \in Int /\ p.hi >= a /\ hi \in Exponents /\ b <= hi
    BY <1>1, <1>8 DEF Ranges, Bounds, Contains
  <2>2. 2^hi \in Int /\ 2^b <= 2^hi
    BY <2>1, Powers
  <2>3. a * 2^b <= p.hi * 2^hi
    BY <1>3, <2>1, <2>2, MulPosPos
  <2>4. p.hi * 2^hi \in Int
    BY <2>1, <2>2
  <2>5. Bound(TRUE, p.hi, hi, PosInf) = Finite(p.hi * 2^hi)
    BY <1>8 DEF Bound, combine, bigIntLsh
  <2> QED BY <1>5, <1>6, <2>3, <2>4, <2>5, FiniteCovers DEF combine, bigIntLsh
<1> QED BY <1>7, <1>8

(* When Lsh succeeds, the range it returns holds the integers of its first *)
(* operand shifted left by those of the second.                            *)
THEOREM LshSound ==
  ASSUME NEW r \in Ranges, NEW s \in Ranges, Shifts(s),
         NEW a \in Int, NEW b \in Exponents, Contains(r, a), Contains(s, b)
  PROVE  Contains(mulLsh(r, s, TRUE), a * 2^b)
<1> DEFINE X == split(r)
           Y == split(s)
           start == IF Y.hasZero THEN fromIntRange(r)
                    ELSE IF X.hasZero THEN fromIntRange(zero) ELSE newBiggerIntPair
           cn == ~X.negEmpty /\ ~Y.posEmpty
           cp == ~X.posEmpty /\ ~Y.posEmpty
           ln == Bound(TRUE, X.neg.lo, Y.pos.hi, NegInf)
           hn == Finite(combine(TRUE, X.neg.hi, Y.pos.lo))
           lp == Finite(combine(TRUE, X.pos.lo, Y.pos.lo))
           hp == Bound(TRUE, X.pos.hi, Y.pos.hi, PosInf)
           np == Widen(start, cn, ln, hn)
           pp == Widen(np, cp, lp, hp)
           v == a * 2^b
<1>nil. nil \notin Int
  BY IntervalAssumption
<1>b. b \in Int /\ 0 <= b /\ 2^b \in Int
  <2>1. b \in Int /\ 0 <= b
    BY IntervalAssumption DEF Exponents
  <2>2. 2^b \in Int
    BY <2>1, Powers
  <2> QED BY <2>1, <2>2
<1>v. v \in Int
  BY <1>b
<1>1. ~Empty(r) /\ ~Empty(s)
  BY <1>nil, <1>b DEF Ranges, Bounds, Contains, Empty
<1>2. CASE justZero(r)
  <2>1. mulLsh(r, s, TRUE) = zero
    BY <1>1, <1>2 DEF mulLsh
  <2>2. a = 0
    BY <1>nil, <1>2 DEF justZero, Contains, Ranges, Bounds
  <2>3. v = 0
    BY <1>b, <2>2
  <2>4. zero.lo = 0 /\ zero.hi = 0
    BY DEF zero, IntRange
  <2>5. Contains(zero, 0)
    BY <2>4 DEF Contains
  <2> QED BY <2>1, <2>3, <2>5
<1>3. CASE ~justZero(r)
  <2>y. /\ Y.negEmpty
        /\ Y.hasZero <=> s.lo = 0
        /\ Y.pos.hi = s.hi
        /\ Y.pos.lo \in Exponents /\ Y.pos.lo >= 1
        /\ b > 0 => Y.pos.lo <= b
    BY <1>b, SplitShifts
  <2>1. mulLsh(r, s, TRUE) = toIntRange(pp)
    BY <1>1, <1>3, <2>y DEF mulLsh, Widen
  <2>2. Parts(X, r) /\ Parts(Y, s)
    BY SplitParts
  <2> HIDE DEF X, Y
  <2>4. cn \in BOOLEAN /\ cp \in BOOLEAN
    OBVIOUS
  <2>5. NegInf \in BiggerInts /\ PosInf \in BiggerInts
    BY DEF BiggerInts
  <2>6. Y.pos.hi \in Exponents \cup {nil}
    BY <2>y DEF Shifts
  <2>7. cn => ln \in BiggerInts /\ hn \in BiggerInts
    <3>1. SUFFICES ASSUME cn PROVE ln \in BiggerInts /\ hn \in BiggerInts
      OBVIOUS
    <3>2. X.neg.hi \in Int /\ X.neg.hi \in Bounds /\ X.neg.lo \in Bounds
      BY <2>2, <3>1 DEF Parts, Ranges
    <3>3. ln \in BiggerInts
      BY <2>5, <2>6, <3>2, LshTypes
    <3>4. Y.pos.lo \in Exponents \cup {nil}
      BY <2>y
    <3>5. hn \in BiggerInts
      BY <2>5, <2>y, <3>2, <3>4, LshTypes
    <3> QED BY <3>3, <3>5
  <2>8. cp => lp \in BiggerInts /\ hp \in BiggerInts
    <3>1. SUFFICES ASSUME cp PROVE lp \in BiggerInts /\ hp \in BiggerInts
      OBVIOUS
    <3>2. X.pos.lo \in Int /\ X.pos.lo \in Bounds /\ X.pos.hi \in Bounds
      BY <2>2, <3>1 DEF Parts, Ranges
    <3>3. hp \in BiggerInts
      BY <2>5, <2>6, <3>2, LshTypes
    <3>4. Y.pos.lo \in Exponents \cup {nil}
      BY <2>y
    <3>5. lp \in BiggerInts
      BY <2>5, <2>y, <3>2, <3>4, LshTypes
    <3> QED BY <3>3, <3>5
  <2>9. fromIntRange(r) \in Pairs /\ Covers(fromIntRange(r), a)
    BY FromIntRange
  <2>10. fromIntRange(zero) \in Pairs /\ Covers(fromIntRange(zero), 0)
    <3>1. zero \in Ranges /\ Contains(zero, 0)
      BY DEF zero, IntRange, Ranges, Bounds, Contains
    <3> QED BY <3>1, FromIntRange
  <2>11. newBiggerIntPair \in Pairs
    BY <2>5 DEF newBiggerIntPair, Pairs
  <2>12. start \in Pairs
    BY <2>9, <2>10, <2>11
  <2>13. b = 0 => Covers(start, v)
    <3>1. ASSUME b = 0 PROVE v = a
      BY <3>1, PowerAssumption
    <3>2. b = 0 => start = fromIntRange(r)
      BY <2>2 DEF Parts
    <3> HIDE DEF start, v
    <3> QED BY <2>9, <3>1, <3>2
  <2>14. a = 0 => Covers(start, v)
    <3>1. a = 0 => v = 0
      BY <1>b
    <3>2. a = 0 => X.hasZero
      BY <2>2 DEF Parts
    <3>3. a = 0 => start = fromIntRange(r) \/ start = fromIntRange(zero)
      BY <3>2
    <3> HIDE DEF start, v
    <3> QED BY <2>9, <2>10, <3>1, <3>3
  <2>15. b > 0 => ~Y.posEmpty /\ Y.pos.lo <= b /\ (Y.pos.hi = nil \/ b <= Y.pos.hi)
    <3>1. b > 0 => ~Y.posEmpty /\ Contains(Y.pos, b)
      BY <1>b, <2>2 DEF Parts
    <3>2. Y.pos.hi = nil \/ Y.pos.hi \in Int
      BY <2>2 DEF Parts, Ranges, Bounds
    <3> QED BY <1>b, <2>y, <3>1, <3>2 DEF Contains
  <2>16. a < 0 /\ b > 0 => cn /\ AtLeast(ln, v) /\ AtMost(hn, v)
    <3>1. SUFFICES ASSUME a < 0, b > 0 PROVE cn /\ AtLeast(ln, v) /\ AtMost(hn, v)
      OBVIOUS
    <3>2. /\ ~X.negEmpty /\ Contains(X.neg, a) /\ X.neg \in Ranges
          /\ X.neg.hi \in Int /\ X.neg.hi < 0
      BY <2>2, <3>1 DEF Parts
    <3> QED BY <2>6, <2>15, <2>y, <3>1, <3>2, LshNegative, ZenonT(60)
  <2>17. a > 0 /\ b > 0 => cp /\ AtLeast(lp, v) /\ AtMost(hp, v)
    <3>1. SUFFICES ASSUME a > 0, b > 0 PROVE cp /\ AtLeast(lp, v) /\ AtMost(hp, v)
      OBVIOUS
    <3>2. /\ ~X.posEmpty /\ Contains(X.pos, a) /\ X.pos \in Ranges
          /\ X.pos.lo \in Int /\ X.pos.lo > 0
      BY <2>2, <3>1 DEF Parts
    <3> QED BY <2>6, <2>15, <2>y, <3>1, <3>2, LshPositive, ZenonT(60)
  <2>18. b = 0 \/ a = 0 \/ (a < 0 /\ b > 0) \/ (a > 0 /\ b > 0)
    BY <1>b
  <2> HIDE DEF start, cn, cp, ln, hn, lp, hp, v
  <2>21. /\ np \in Pairs
         /\ Covers(start, v) \/ (cn /\ AtLeast(ln, v) /\ AtMost(hn, v)) => Covers(np, v)
    BY <1>v, <2>4, <2>7, <2>12, WidenCovers
  <2> HIDE DEF np
  <2>22. /\ pp \in Pairs
         /\ Covers(np, v) \/ (cp /\ AtLeast(lp, v) /\ AtMost(hp, v)) => Covers(pp, v)
    BY <1>v, <2>4, <2>8, <2>21, WidenCovers
  <2> HIDE DEF pp
  <2>23. Covers(pp, v)
    BY <2>13, <2>14, <2>16, <2>17, <2>18, <2>21, <2>22
  <2>24. Contains(toIntRange(pp), v)
    BY <1>v, <2>22, <2>23, ToIntRange
  <2> QED BY <2>1, <2>24 DEF v
<1> QED BY <1>2, <1>3

(* The bounds of one branch of Rsh.                                        *)
LEMMA RshNegative ==
  ASSUME NEW p \in Ranges, NEW s \in Ranges, Shifts(s), NEW a \in Int, NEW b \in Exponents,
         Contains(p, a), Contains(s, b), a < 0, p.hi \in Int, p.hi < 0
  PROVE  /\ a \div 2^b \in Int
         /\ AtLeast(Shifted(p.lo, s.lo, NegInf, -1), a \div 2^b)
         /\ AtMost(Shifted(p.hi, s.hi, PosInf, -1), a \div 2^b)
<1>1. nil \notin Int
  BY IntervalAssumption
<1>2. b \in Int /\ s.lo \in Exponents /\ s.lo \in Int
  BY IntervalAssumption DEF Exponents, Shifts
<1>3. s.lo <= b /\ a <= p.hi
  BY <1>1, <1>2 DEF Contains
<1>4. 2^(s.lo) \in Int /\ 2^b \in Int /\ 1 <= 2^(s.lo) /\ 2^(s.lo) <= 2^b
  BY <1>2, <1>3, Powers
<1> DEFINE v == a \div 2^b
<1>5. v \in Int /\ v <= -1
  BY <1>4, DivNegative
<1>6. AtLeast(Shifted(p.lo, s.lo, NegInf, -1), v)
  <2>1. CASE p.lo = nil
    <3>1. Shifted(p.lo, s.lo, NegInf, -1) = NegInf
      BY <2>1 DEF Shifted
    <3>2. AtLeast(NegInf, v)
      BY DEF AtLeast, NegInf
    <3> QED BY <3>1, <3>2
  <2>2. CASE p.lo # nil
    <3>1. p.lo \in Int /\ p.lo <= a
      BY <1>1, <2>2 DEF Ranges, Bounds, Contains
    <3>2. p.lo \div 2^(s.lo) \in Int /\ p.lo \div 2^(s.lo) <= v
      BY <1>4, <3>1, DivNegative
    <3>3. Shifted(p.lo, s.lo, NegInf, -1) = Finite(p.lo \div 2^(s.lo))
      BY <1>1, <1>2, <2>2 DEF Shifted, bigIntRsh
    <3> HIDE DEF v
    <3> QED BY <1>5, <3>2, <3>3, FiniteCovers
  <2> QED BY <2>1, <2>2
<1>7. AtMost(Shifted(p.hi, s.hi, PosInf, -1), v)
  <2>1. CASE s.hi = nil
    <3>1. Shifted(p.hi, s.hi, PosInf, -1) = Finite(-1)
      BY <1>1, <2>1 DEF Shifted
    <3> HIDE DEF v
    <3> QED BY <1>5, <3>1, FiniteCovers
  <2>2. CASE s.hi # nil
    <3>1. s.hi \in Exponents /\ b <= s.hi
      BY <1>2, <2>2 DEF Shifts, Contains
    <3>2. 2^(s.hi) \in Int /\ 2^b <= 2^(s.hi)
      BY <3>1, Powers
    <3>3. p.hi \div 2^(s.hi) \in Int /\ v <= p.hi \div 2^(s.hi)
      BY <1>3, <1>4, <3>2, DivNegative
    <3>4. Shifted(p.hi, s.hi, PosInf, -1) = Finite(p.hi \div 2^(s.hi))
      BY <1>1, <2>2 DEF Shifted, bigIntRsh
    <3> HIDE DEF v
    <3> QED BY <1>5, <3>3, <3>4, FiniteCovers
  <2> QED BY <2>1, <2>2
<1> QED BY <1>5, <1>6, <1>7

(* The same for positive integers.                                         *)
LEMMA RshPositive ==
  ASSUME NEW p \in Ranges, NEW s \in Ranges, Shifts(s), NEW a \in Int, NEW b \in Exponents,
         Contains(p, a), Contains(s, b), a > 0, p.lo \in Int, p.lo > 0
  PROVE  /\ a \div 2^b \in Int
         /\ AtLeast(Shifted(p.lo, s.hi, NegInf, 0), a \div 2^b)
         /\ AtMost(Shifted(p.hi, s.lo, PosInf, 0), a \div 2^b)
<1>1. nil \notin Int
  BY IntervalAssumption
<1>2. b \in Int /\ s.lo \in Exponents /\ s.lo \in Int
  BY IntervalAssumption DEF Exponents, Shifts
<1>3. s.lo <= b /\ p.lo <= a
  BY <1>1, <1>2 DEF Contains
<1>4. /\ 2^(s.lo) \in Int /\ 2^b \in Int /\ 1 <= 2^(s.lo) /\ 2^(s.lo) <= 2^b
  BY <1>2, <1>3, Powers
<1>p. 2^(s.lo) \in Nat /\ 2^b \in Nat /\ 0 < 2^(s.lo) /\ 0 < 2^b
  BY <1>4
<1>n. a \in Nat /\ p.lo \in Nat
  OBVIOUS
<1> DEFINE v == a \div 2^b
<1>5. v \in Nat
  BY <1>n, <1>p, <1>4, DivMonotone
<1>6. AtMost(Shifted(p.hi, s.lo, PosInf, 0), v)
  <2>1. CASE p.hi = nil
    <3>1. Shifted(p.hi, s.lo, PosInf, 0) = PosInf
      BY <2>1 DEF Shifted
    <3>2. AtMost(PosInf, v)
      BY DEF AtMost, PosInf
    <3> QED BY <3>1, <3>2
  <2>2. CASE p.hi # nil
    <3>1. p.hi \in Nat /\ a <= p.hi
      BY <1>1, <2>2 DEF Ranges, Bounds, Contains
    <3>2. p.hi \div 2^(s.lo) \in Nat /\ v <= p.hi \div 2^(s.lo)
      BY <1>4, <1>n, <1>p, <3>1, DivMonotone
    <3>3. Shifted(p.hi, s.lo, PosInf, 0) = Finite(p.hi \div 2^(s.lo))
      BY <1>1, <1>2, <2>2 DEF Shifted, bigIntRsh
    <3>4. p.hi \div 2^(s.lo) \in Int
      BY <3>2
    <3> HIDE DEF v
    <3> QED BY <1>5, <3>2, <3>3, <3>4, FiniteCovers
  <2> QED BY <2>1, <2>2
<1>7. AtLeast(Shifted(p.lo, s.hi, NegInf, 0), v)
  <2>1. CASE s.hi = nil
    <3>1. Shifted(p.lo, s.hi, NegInf, 0) = Finite(0)
      BY <1>1, <2>1 DEF Shifted
    <3> HIDE DEF v
    <3> QED BY <1>5, <3>1, FiniteCovers
  <2>2. CASE s.hi # nil
    <3>1. s.hi \in Exponents /\ b <= s.hi
      BY <1>2, <2>2 DEF Shifts, Contains
    <3>2. 2^(s.hi) \in Int /\ 2^b <= 2^(s.hi)
      BY <3>1, Powers
    <3>p. 2^(s.hi) \in Nat
      BY <1>4, <3>2
    <3>3. p.lo \div 2^(s.hi) \in Nat /\ p.lo \div 2^(s.hi) <= v
      BY <1>3, <1>n, <1>p, <3>2, <3>p, DivMonotone
    <3>4. Shifted(p.lo, s.hi, NegInf, 0) = Finite(p.lo \div 2^(s.hi))
      BY <1>1, <2>2 DEF Shifted, bigIntRsh
    <3>5. p.lo \div 2^(s.hi) \in Int
      BY <3>3
    <3> HIDE DEF v
    <3> QED BY <1>5, <3>3, <3>4, <3>5, FiniteCovers
  <2> QED BY <2>1, <2>2
<1>8. v \in Int
  BY <1>5
<1> QED BY <1>6, <1>7, <1>8

(* When Rsh succeeds, the range it returns holds the integers of its first *)
(* operand shifted right by those of the second.                           *)
THEOREM RshSound ==
  ASSUME NEW r \in Ranges, NEW s \in Ranges, Shifts(s), ~ContainsNegative(s),
         NEW a \in Int, NEW b \in Exponents, Contains(r, a), Contains(s, b)
  PROVE  Contains(Rsh(r, s).z, a \div 2^b)
<1> DEFINE X == split(r)
           start == IF X.hasZero THEN fromIntRange(zero) ELSE newBiggerIntPair
           cn == ~X.negEmpty
           cp == ~X.posEmpty
           ln == Shifted(X.neg.lo, s.lo, NegInf, -1)
           hn == Shifted(X.neg.hi, s.hi, PosInf, -1)
           lp == Shifted(X.pos.lo, s.hi, NegInf, 0)
           hp == Shifted(X.pos.hi, s.lo, PosInf, 0)
           neg == Widen(start, cn, ln, hn)
           pos == Widen(neg, cp, lp, hp)
           v == a \div 2^b
<1>nil. nil \notin Int
  BY IntervalAssumption
<1>b. b \in Int /\ 0 <= b /\ 2^b \in Int /\ 1 <= 2^b
  <2>1. b \in Int /\ 0 <= b
    BY IntervalAssumption DEF Exponents
  <2>2. 2^b \in Int /\ 1 <= 2^b
    BY <2>1, Powers
  <2> QED BY <2>1, <2>2
<1>1. ~Empty(r) /\ ~Empty(s)
  BY <1>nil, <1>b DEF Ranges, Bounds, Contains, Empty
<1>z. a = 0 => v = 0
  <2>1. ASSUME NEW d \in Nat, 0 < d PROVE 0 \div d = 0
    BY <2>1, DivMonotone, SMTT(30)
  <2>2. 2^b \in Nat /\ 0 < 2^b
    BY <1>b
  <2> QED BY <2>1, <2>2
<1>2. zero \in Ranges /\ Contains(zero, 0)
  BY DEF zero, IntRange, Ranges, Bounds, Contains
<1>3. CASE justZero(r)
  <2>1. Rsh(r, s).z = zero
    BY <1>1, <1>3 DEF Rsh, Success
  <2>2. a = 0
    BY <1>nil, <1>3 DEF justZero, Contains, Ranges, Bounds
  <2> QED BY <1>2, <1>z, <2>1, <2>2
<1>4. CASE ~justZero(r)
  <2>1. Rsh(r, s).z = toIntRange(pos)
    BY <1>1, <1>4 DEF Rsh, Success
  <2>2. Parts(X, r)
    BY SplitParts
  <2> HIDE DEF X
  <2>4. cn \in BOOLEAN /\ cp \in BOOLEAN
    OBVIOUS
  <2>5. NegInf \in BiggerInts /\ PosInf \in BiggerInts
    BY DEF BiggerInts
  <2>6. s.lo \in Exponents \cup {nil} /\ s.hi \in Exponents \cup {nil}
    BY DEF Shifts
  <2>7. /\ X.neg.lo \in Bounds /\ X.neg.hi \in Bounds
        /\ X.pos.lo \in Bounds /\ X.pos.hi \in Bounds
    BY <2>2 DEF Parts, Ranges
  <2>8. ln \in BiggerInts /\ hn \in BiggerInts /\ lp \in BiggerInts /\ hp \in BiggerInts
    <3>1. -1 \in Int /\ 0 \in Int
      OBVIOUS
    <3>2. ln \in BiggerInts
      BY <2>5, <2>6, <2>7, <3>1, ShiftedType
    <3>3. hn \in BiggerInts
      BY <2>5, <2>6, <2>7, <3>1, ShiftedType
    <3>4. lp \in BiggerInts
      BY <2>5, <2>6, <2>7, <3>1, ShiftedType
    <3>5. hp \in BiggerInts
      BY <2>5, <2>6, <2>7, <3>1, ShiftedType
    <3> QED BY <3>2, <3>3, <3>4, <3>5
  <2>9. fromIntRange(zero) \in Pairs /\ Covers(fromIntRange(zero), 0)
    BY <1>2, FromIntRange
  <2>10. newBiggerIntPair \in Pairs
    BY <2>5 DEF newBiggerIntPair, Pairs
  <2>11. start \in Pairs
    BY <2>9, <2>10
  <2>12. a = 0 => v \in Int /\ Covers(start, v)
    <3>1. a = 0 => start = fromIntRange(zero)
      BY <2>2 DEF Parts
    <3> HIDE DEF start, v
    <3> QED BY <1>z, <2>9, <3>1
  <2>13. a < 0 => v \in Int /\ cn /\ AtLeast(ln, v) /\ AtMost(hn, v)
    <3>1. SUFFICES ASSUME a < 0 PROVE v \in Int /\ cn /\ AtLeast(ln, v) /\ AtMost(hn, v)
      OBVIOUS
    <3>2. /\ ~X.negEmpty /\ Contains(X.neg, a) /\ X.neg \in Ranges
          /\ X.neg.hi \in Int /\ X.neg.hi < 0
      BY <2>2, <3>1 DEF Parts
    <3> QED BY <3>1, <3>2, RshNegative
  <2>14. a > 0 => v \in Int /\ cp /\ AtLeast(lp, v) /\ AtMost(hp, v)
    <3>1. SUFFICES ASSUME a > 0 PROVE v \in Int /\ cp /\ AtLeast(lp, v) /\ AtMost(hp, v)
      OBVIOUS
    <3>2. /\ ~X.posEmpty /\ Contains(X.pos, a) /\ X.pos \in Ranges
          /\ X.pos.lo \in Int /\ X.pos.lo > 0
      BY <2>2, <3>1 DEF Parts
    <3> QED BY <3>1, <3>2, RshPositive
  <2>15. a = 0 \/ a < 0 \/ a > 0
    OBVIOUS
  <2> HIDE DEF start, cn, cp, ln, hn, lp, hp, v
  <2>16. v \in Int
    BY <2>12, <2>13, <2>14, <2>15
  <2>21. /\ neg \in Pairs
         /\ Covers(start, v) \/ (cn /\ AtLeast(ln, v) /\ AtMost(hn, v)) => Covers(neg, v)
    BY <2>4, <2>8, <2>11, <2>16, WidenCovers
  <2> HIDE DEF neg
  <2>22. /\ pos \in Pairs
         /\ Covers(neg, v) \/ (cp /\ AtLeast(lp, v) /\ AtMost(hp, v)) => Covers(pos, v)
    BY <2>4, <2>8, <2>16, <2>21, WidenCovers
  <2> HIDE DEF pos
  <2>23. Covers(pos, v)
    BY <2>12, <2>13, <2>14, <2>15, <2>21, <2>22
  <2>24. Contains(toIntRange(pos), v)
    BY <2>16, <2>22, <2>23, ToIntRange
  <2> QED BY <2>1, <2>24 DEF v
<1> QED BY <1>3, <1>4

-----------------------------------------------------------------------------
(* Ranges as sets of integers: the box is larger than the bounds, so that  *)
(* it tells a finite bound from an infinite one.                           *)

LEMMA BoxFacts ==
  ASSUME NEW r \in IntRanges
  PROVE  /\ r.lo = nil \/ (r.lo \in Int /\ r.lo >= -Below /\ r.lo <= Above)
         /\ r.hi = nil \/ (r.hi \in Int /\ r.hi >= -Below /\ r.hi <= Above)
         /\ nil \notin Int /\ Below \in Nat /\ Above \in Nat /\ Box \in Nat
         /\ Box > Below /\ Box > Above /\ Box > 0
BY IntervalAssumption DEF IntRanges, Ends

LEMMA InElements ==
  ASSUME NEW r \in IntRanges, NEW i
  PROVE  i \in Elements(r) <=> i \in Int /\ -Box <= i /\ i <= Box /\ Contains(r, i)
BY IntervalAssumption DEF Elements

(* Empty means without elements, and a finite bound is an element.         *)
LEMMA EmptyMeansNoElements ==
  ASSUME NEW r \in IntRanges
  PROVE  /\ Empty(r) <=> Elements(r) = {}
         /\ ~Empty(r) /\ r.lo # nil => r.lo \in Elements(r)
         /\ ~Empty(r) /\ r.hi # nil => r.hi \in Elements(r)
         /\ ~Empty(r) /\ r.lo = nil => -Box \in Elements(r)
         /\ ~Empty(r) /\ r.hi = nil => Box \in Elements(r)
<1>1. /\ r.lo = nil \/ (r.lo \in Int /\ r.lo >= -Below /\ r.lo <= Above)
      /\ r.hi = nil \/ (r.hi \in Int /\ r.hi >= -Below /\ r.hi <= Above)
      /\ nil \notin Int /\ Below \in Nat /\ Above \in Nat /\ Box \in Nat
      /\ Box > Below /\ Box > Above /\ Box > 0
  BY BoxFacts
<1>2. ~Empty(r) /\ r.lo # nil => r.lo \in Elements(r)
  <2>1. ~Empty(r) /\ r.lo # nil => r.lo \in Int /\ -Box <= r.lo /\ r.lo <= Box /\ Contains(r, r.lo)
    BY <1>1 DEF Empty, Contains
  <2> QED BY <2>1, InElements
<1>3. ~Empty(r) /\ r.hi # nil => r.hi \in Elements(r)
  <2>1. ~Empty(r) /\ r.hi # nil => r.hi \in Int /\ -Box <= r.hi /\ r.hi <= Box /\ Contains(r, r.hi)
    BY <1>1 DEF Empty, Contains
  <2> QED BY <2>1, InElements
<1>4. ~Empty(r) /\ r.lo = nil => -Box \in Elements(r)
  <2>1. ~Empty(r) /\ r.lo = nil => -Box \in Int /\ -Box <= -Box /\ -Box <= Box /\ Contains(r, -Box)
    BY <1>1 DEF Empty, Contains
  <2> QED BY <2>1, InElements
<1>5. ~Empty(r) /\ r.hi = nil => Box \in Elements(r)
  <2>1. ~Empty(r) /\ r.hi = nil => Box \in Int /\ -Box <= Box /\ Box <= Box /\ Contains(r, Box)
    BY <1>1 DEF Empty, Contains
  <2> QED BY <2>1, InElements
<1>6. Empty(r) => Elements(r) = {}
  <2>1. ASSUME Empty(r), NEW i \in Elements(r) PROVE FALSE
    <3>1. i \in Int /\ Contains(r, i) BY <2>1, InElements
    <3> QED BY <2>1, <3>1, <1>1 DEF Empty, Contains
  <2> QED BY <2>1
<1> QED BY <1>2, <1>3, <1>4, <1>5, <1>6

(* The tests of the signs agree with the elements.                         *)
LEMMA Signs ==
  ASSUME NEW r \in IntRanges
  PROVE  /\ ContainsNegative(r) <=> \E i \in Elements(r) : i < 0
         /\ ContainsPositive(r) <=> \E i \in Elements(r) : i > 0
<1>1. /\ r.lo = nil \/ (r.lo \in Int /\ r.lo >= -Below /\ r.lo <= Above)
      /\ r.hi = nil \/ (r.hi \in Int /\ r.hi >= -Below /\ r.hi <= Above)
      /\ nil \notin Int /\ Below \in Nat /\ Above \in Nat /\ Box \in Nat
      /\ Box > Below /\ Box > Above /\ Box > 0
  BY BoxFacts
<1>2. ASSUME ContainsNegative(r) PROVE \E i \in Elements(r) : i < 0
  <2>1. ~Empty(r) BY <1>1, <1>2 DEF ContainsNegative, Empty
  <2>2. CASE r.lo = nil
    <3>1. -Box \in Elements(r) BY <2>1, <2>2, EmptyMeansNoElements
    <3>2. -Box < 0 BY <1>1
    <3> QED BY <3>1, <3>2
  <2>3. CASE r.lo # nil
    <3>1. r.lo \in Elements(r) BY <2>1, <2>3, EmptyMeansNoElements
    <3>2. r.lo < 0 BY <1>2, <2>3 DEF ContainsNegative
    <3> QED BY <3>1, <3>2
  <2> QED BY <2>2, <2>3
<1>3. ASSUME ContainsPositive(r) PROVE \E i \in Elements(r) : i > 0
  <2>1. ~Empty(r) BY <1>1, <1>3 DEF ContainsPositive, Empty
  <2>2. CASE r.hi = nil
    <3>1. Box \in Elements(r) BY <2>1, <2>2, EmptyMeansNoElements
    <3> QED BY <3>1, <1>1
  <2>3. CASE r.hi # nil
    <3>1. r.hi \in Elements(r) BY <2>1, <2>3, EmptyMeansNoElements
    <3>2. r.hi > 0 BY <1>3, <2>3 DEF ContainsPositive
    <3> QED BY <3>1, <3>2
  <2> QED BY <2>2, <2>3
<1>4. ASSUME NEW i \in Elements(r) PROVE (i < 0 => ContainsNegative(r)) /\ (i > 0 => ContainsPositive(r))
  <2>1. i \in Int /\ Contains(r, i) BY InElements
  <2> QED BY <2>1, <1>1 DEF Contains, ContainsNegative, ContainsPositive
<1> QED BY <1>2, <1>3, <1>4

(* Equal ranges are those with the same elements.                          *)
LEMMA SameElements ==
  ASSUME NEW r \in IntRanges, NEW s \in IntRanges
  PROVE  Eq(r, s) <=> Elements(r) = Elements(s)
<1>1. CASE Empty(r) \/ Empty(s)
  <2>1. (Empty(r) <=> Elements(r) = {}) /\ (Empty(s) <=> Elements(s) = {}) BY EmptyMeansNoElements
  <2>2. Eq(r, s) <=> (Empty(r) <=> Empty(s)) BY <1>1 DEF Eq, Empty
  <2> QED BY <1>1, <2>1, <2>2
<1>2. CASE ~Empty(r) /\ ~Empty(s)
  <2>1. Eq(r, s) <=> r.lo = s.lo /\ r.hi = s.hi BY <1>2 DEF Eq
  <2>2. ASSUME r.lo = s.lo, r.hi = s.hi PROVE Elements(r) = Elements(s)
    BY <2>2 DEF Elements, Contains
  <2>3. ASSUME Elements(r) = Elements(s) PROVE r.lo = s.lo /\ r.hi = s.hi
    <3>1. /\ r.lo = nil \/ (r.lo \in Int /\ r.lo >= -Below /\ r.lo <= Above)
          /\ r.hi = nil \/ (r.hi \in Int /\ r.hi >= -Below /\ r.hi <= Above)
          /\ nil \notin Int /\ Below \in Nat /\ Above \in Nat /\ Box \in Nat
          /\ Box > Below /\ Box > Above
      BY BoxFacts
    <3>2. /\ s.lo = nil \/ (s.lo \in Int /\ s.lo >= -Below /\ s.lo <= Above)
          /\ s.hi = nil \/ (s.hi \in Int /\ s.hi >= -Below /\ s.hi <= Above)
      BY BoxFacts
    <3>3. /\ r.lo # nil => r.lo \in Elements(s)
          /\ r.hi # nil => r.hi \in Elements(s)
          /\ r.lo = nil => -Box \in Elements(s)
          /\ r.hi = nil => Box \in Elements(s)
      BY <1>2, <2>3, EmptyMeansNoElements
    <3>4. /\ s.lo # nil => s.lo \in Elements(r)
          /\ s.hi # nil => s.hi \in Elements(r)
          /\ s.lo = nil => -Box \in Elements(r)
          /\ s.hi = nil => Box \in Elements(r)
      BY <1>2, <2>3, EmptyMeansNoElements
    <3>5. /\ r.lo # nil => Contains(s, r.lo)
          /\ r.hi # nil => Contains(s, r.hi)
          /\ r.lo = nil => Contains(s, -Box)
          /\ r.hi = nil => Contains(s, Box)
      BY <3>3, InElements
    <3>6. /\ s.lo # nil => Contains(r, s.lo)
          /\ s.hi # nil => Contains(r, s.hi)
          /\ s.lo = nil => Contains(r, -Box)
          /\ s.hi = nil => Contains(r, Box)
      BY <3>4, InElements
    <3>7. r.lo = s.lo BY <3>1, <3>2, <3>5, <3>6 DEF Contains
    <3>8. r.hi = s.hi BY <3>1, <3>2, <3>5, <3>6 DEF Contains
    <3> QED BY <3>7, <3>8
  <2> QED BY <2>1, <2>2, <2>3
<1> QED BY <1>1, <1>2

(* An element of each of two ranges.                                       *)
LEMMA SomeElement ==
  ASSUME NEW r \in IntRanges, ~Empty(r)
  PROVE  \E i \in Elements(r) : i \in Int
<1>1. Elements(r) # {} BY EmptyMeansNoElements
<1> QED BY <1>1, InElements

-----------------------------------------------------------------------------
(* When an operation succeeds.                                             *)

LEMMA Succeeds ==
  ASSUME NEW r, NEW s
  PROVE  /\ Quo(r, s).ok <=> Empty(r) \/ Empty(s) \/ ~ContainsZero(s)
         /\ Lsh(r, s).ok <=> Empty(r) \/ ~ContainsNegative(s)
         /\ Rsh(r, s).ok <=> Empty(r) \/ Empty(s) \/ ~ContainsNegative(s)
         /\ And(r, s).ok <=> Empty(r) \/ Empty(s) \/ (~ContainsNegative(r) /\ ~ContainsNegative(s))
<1>1. \A a : Success(a).ok = TRUE BY DEF Success
<1>2. Failure.ok = FALSE BY DEF Failure
<1>3. Quo(r, s).ok <=> Empty(r) \/ Empty(s) \/ ~ContainsZero(s) BY <1>1, <1>2 DEF Quo
<1>4. Lsh(r, s).ok <=> Empty(r) \/ ~ContainsNegative(s) BY <1>1, <1>2 DEF Lsh
<1>5. Rsh(r, s).ok <=> Empty(r) \/ Empty(s) \/ ~ContainsNegative(s) BY <1>1, <1>2 DEF Rsh
<1>6. And(r, s).ok <=> Empty(r) \/ Empty(s) \/ (~ContainsNegative(r) /\ ~ContainsNegative(s))
  BY <1>1, <1>2 DEF And
<1> QED BY <1>3, <1>4, <1>5, <1>6

(* The panics of Or are unreachable: of two ranges without negative        *)
(* integers, of which one at least is not bounded and neither holds the    *)
(* lower bound of the other, the bounded one is below the other.           *)
LEMMA OrUnboundedSucceeds ==
  ASSUME NEW r \in Ranges, NEW s \in Ranges, ~Empty(r), ~Empty(s),
         ~ContainsNegative(r), ~ContainsNegative(s), r.hi = nil \/ s.hi = nil
  PROVE  OrUnbounded(r, s).ok /\ \E a, b : OrUnbounded(r, s) = Success(IntRange(a, b))
<1>1. nil \notin Int BY IntervalAssumption
<1>2. r.lo \in Int /\ s.lo \in Int BY DEF Ranges, Bounds, ContainsNegative
<1>3. (r.hi = nil \/ r.hi \in Int) /\ (s.hi = nil \/ s.hi \in Int) BY DEF Ranges, Bounds
<1>4. \A a : Success(a).ok = TRUE BY DEF Success
<1>5. CASE Contains(r, s.lo) \/ Contains(s, r.lo) BY <1>4, <1>5 DEF OrUnbounded
<1>6. CASE ~Contains(r, s.lo) /\ ~Contains(s, r.lo)
  <2>1. CASE r.hi = nil /\ s.hi = nil BY <1>1, <1>2, <1>6, <2>1 DEF Contains
  <2>2. CASE r.hi = nil /\ s.hi # nil
    <3>1. ~(s.hi >= r.lo) BY <1>1, <1>2, <1>3, <1>6, <2>2 DEF Contains
    <3>2. OrUnbounded(r, s) = OrMinBelow(s, r) BY <1>6, <2>2 DEF OrUnbounded
    <3>3. \E a, b : OrMinBelow(s, r) = Success(IntRange(a, b)) BY <3>1 DEF OrMinBelow
    <3> QED BY <1>4, <3>2, <3>3
  <2>3. CASE r.hi # nil /\ s.hi = nil
    <3>1. ~(r.hi >= s.lo) BY <1>1, <1>2, <1>3, <1>6, <2>3 DEF Contains
    <3>2. OrUnbounded(r, s) = OrMinBelow(r, s) BY <1>6, <2>3 DEF OrUnbounded
    <3>3. \E a, b : OrMinBelow(r, s) = Success(IntRange(a, b)) BY <3>1 DEF OrMinBelow
    <3> QED BY <1>4, <3>2, <3>3
  <2> QED BY <2>1, <2>2, <2>3
<1> QED BY <1>5, <1>6

LEMMA OrSucceeds ==
  ASSUME NEW r \in Ranges, NEW s \in Ranges
  PROVE  Or(r, s).ok <=> Empty(r) \/ Empty(s) \/ (~ContainsNegative(r) /\ ~ContainsNegative(s))
<1>1. \A a : Success(a).ok = TRUE BY DEF Success
<1>2. Failure.ok = FALSE BY DEF Failure
<1>3. CASE Empty(r) \/ Empty(s) BY <1>1, <1>3 DEF Or
<1>4. CASE ~Empty(r) /\ ~Empty(s) /\ (ContainsNegative(r) \/ ContainsNegative(s))
  BY <1>2, <1>4 DEF Or
<1>5. CASE ~Empty(r) /\ ~Empty(s) /\ ~ContainsNegative(r) /\ ~ContainsNegative(s)
  <2>1. CASE r.hi # nil /\ s.hi # nil BY <1>1, <1>5, <2>1 DEF Or
  <2>2. CASE r.hi = nil \/ s.hi = nil
    <3>1. OrUnbounded(r, s).ok BY <1>5, <2>2, OrUnboundedSucceeds
    <3>2. Or(r, s) = OrUnbounded(r, s) BY <1>5, <2>2 DEF Or
    <3> QED BY <1>5, <3>1, <3>2
  <2> QED BY <2>1, <2>2
<1> QED BY <1>3, <1>4, <1>5

(* What an operation returns is a range: it has a lower and an upper bound.*)
IsRange(t) == \E a, b : t = IntRange(a, b)

LEMMA RangeIsNoPanic ==
  ASSUME NEW t, IsRange(t)
  PROVE  t # panic
<1>1. PICK a, b : t = [lo |-> a, hi |-> b] BY DEF IsRange, IntRange
<1>2. DOMAIN t = {"lo", "hi"} BY <1>1
<1>3. DOMAIN panic = {"panic"} BY DEF panic
<1> QED BY <1>2, <1>3

LEMMA ReturnsRange ==
  ASSUME NEW r, NEW s
  PROVE  /\ IsRange(Add(r, s)) /\ IsRange(Sub(r, s)) /\ IsRange(Mul(r, s))
         /\ IsRange(Lsh(r, s).z) /\ IsRange(Quo(r, s).z) /\ IsRange(Rsh(r, s).z)
         /\ IsRange(And(r, s).z)
<1>1. \A a, b : IsRange(IntRange(a, b)) BY DEF IsRange
<1>2. IsRange(empty) /\ IsRange(zero) /\ IsRange(unbounded) BY <1>1 DEF empty, zero, unbounded
<1>3. \A p : IsRange(toIntRange(p)) BY <1>1, <1>2 DEF toIntRange
<1>4. \A t : Success(t).z = t BY DEF Success
<1>5. IsRange(Failure.z) BY <1>2 DEF Failure
<1>6. IsRange(Add(r, s)) BY <1>1, <1>2 DEF Add
<1>7. IsRange(Sub(r, s)) BY <1>1, <1>2 DEF Sub
<1>8. IsRange(mulLsh(r, s, TRUE)) BY <1>2, <1>3, ZenonT(60) DEF mulLsh
<1>9. IsRange(mulLsh(r, s, FALSE)) BY <1>2, <1>3, ZenonT(60) DEF mulLsh
<1>10. IsRange(Mul(r, s)) BY <1>9 DEF Mul
<1>11. IsRange(Lsh(r, s).z) BY <1>4, <1>5, <1>8 DEF Lsh
<1>12. IsRange(Quo(r, s).z) BY <1>2, <1>3, <1>4, <1>5 DEF Quo
<1>13. IsRange(Rsh(r, s).z) BY <1>2, <1>3, <1>4, <1>5 DEF Rsh
<1>14. IsRange(And(r, s).z) BY <1>1, <1>2, <1>4, <1>5 DEF And
<1> QED BY <1>6, <1>7, <1>10, <1>11, <1>12, <1>13, <1>14

LEMMA OrReturnsRange ==
  ASSUME NEW r \in Ranges, NEW s \in Ranges
  PROVE  IsRange(Or(r, s).z)
<1>1. \A a, b : IsRange(IntRange(a, b)) BY DEF IsRange
<1>2. IsRange(empty) /\ IsRange(unbounded) BY <1>1 DEF empty, unbounded
<1>3. \A t : Success(t).z = t BY DEF Success
<1>4. IsRange(Failure.z) BY <1>2 DEF Failure
<1>5. CASE Empty(r) \/ Empty(s) BY <1>2, <1>3, <1>5 DEF Or
<1>6. CASE ~Empty(r) /\ ~Empty(s) /\ (ContainsNegative(r) \/ ContainsNegative(s))
  BY <1>4, <1>6 DEF Or
<1>7. CASE ~Empty(r) /\ ~Empty(s) /\ ~ContainsNegative(r) /\ ~ContainsNegative(s)
  <2>1. CASE r.hi # nil /\ s.hi # nil BY <1>1, <1>3, <1>7, <2>1 DEF Or
  <2>2. CASE r.hi = nil \/ s.hi = nil
    <3>1. \E a, b : OrUnbounded(r, s) = Success(IntRange(a, b)) BY <1>7, <2>2, OrUnboundedSucceeds
    <3>2. Or(r, s) = OrUnbounded(r, s) BY <1>7, <2>2 DEF Or
    <3> QED BY <1>1, <1>3, <3>1, <3>2
  <2> QED BY <2>1, <2>2
<1> QED BY <1>5, <1>6, <1>7

-----------------------------------------------------------------------------
(* The specification.                                                      *)

(* What a call leaves in the variables.                                    *)
Returned ==
  /\ x \in IntRanges /\ y \in IntRanges
  /\ op \in {"None", "Add", "Sub", "Mul", "Lsh", "Quo", "Rsh", "And", "Or"}
  /\ op \notin {"None", "And", "Or"} => IsSmall(x) /\ IsSmall(y)
  /\ op = "None" => z = unbounded
  /\ op = "Add" => z = Add(x, y) /\ ok = TRUE
  /\ op = "Sub" => z = Sub(x, y) /\ ok = TRUE
  /\ op = "Mul" => z = Mul(x, y) /\ ok = TRUE
  /\ op = "Lsh" => z = Lsh(x, y).z /\ ok = Lsh(x, y).ok
  /\ op = "Quo" => z = Quo(x, y).z /\ ok = Quo(x, y).ok
  /\ op = "Rsh" => z = Rsh(x, y).z /\ ok = Rsh(x, y).ok
  /\ op = "And" => z = And(x, y).z /\ ok = And(x, y).ok
  /\ op = "Or" => z = Or(x, y).z /\ ok = Or(x, y).ok

(* A call leaves the result of its operation, which never changes.         *)
LEMMA ReturnedInvariant == Spec => []Returned
<1>1. Init => Returned
  BY DEF Init, Returned
<1>2. Returned /\ [Next]_vars => Returned'
  <2>1. SUFFICES ASSUME Returned, [Next]_vars PROVE Returned'
    OBVIOUS
  <2>2. CASE UNCHANGED vars
    BY <2>1, <2>2 DEF Returned, vars, IsSmall
  <2>3. CASE Next
    BY <2>1, <2>3, ZenonT(60)
       DEF Next, CallAdd, CallSub, CallMul, CallLsh, CallQuo, CallRsh, CallAnd, CallOr,
           Call, Success, Returned, IsSmall
  <2> QED BY <2>1, <2>2, <2>3
<1> QED BY <1>1, <1>2, PTL DEF Spec

LEMMA RunRanges == IntRanges \subseteq Ranges
BY IntervalAssumption DEF IntRanges, Ranges, Bounds, Ends

(* Eq, Empty, ContainsNegative and ContainsPositive say of every pair of   *)
(* ranges what they say of the sets of integers.                           *)
THEOREM SetSemanticsInvariant == Spec => []SetSemantics
<1>1. Returned => SetSemantics
  <2>1. SUFFICES ASSUME Returned PROVE SetSemantics OBVIOUS
  <2>2. x \in IntRanges /\ y \in IntRanges BY <2>1 DEF Returned
  <2> QED BY <2>2, SameElements, Signs, EmptyMeansNoElements DEF SetSemantics
<1> QED BY <1>1, ReturnedInvariant, PTL

(* The two panics of Or that its comments call unreachable are, for all    *)
(* ranges.                                                                 *)
THEOREM NoPanicInvariant == Spec => []NoPanic
<1>1. Returned => NoPanic
  <2>1. SUFFICES ASSUME Returned PROVE z # panic BY DEF NoPanic
  <2>2. x \in Ranges /\ y \in Ranges BY <2>1, RunRanges DEF Returned
  <2>3. IsRange(unbounded) BY DEF unbounded, IsRange
  <2>4. IsRange(Or(x, y).z) BY <2>2, OrReturnsRange
  <2>5. IsRange(z) BY <2>1, <2>3, <2>4, ReturnsRange DEF Returned
  <2> QED BY <2>5, RangeIsNoPanic
<1> QED BY <1>1, ReturnedInvariant, PTL

(* An operation fails exactly if it is not defined for two integers of its *)
(* operands, for all ranges and all eight operations.                      *)
THEOREM FailsIfUndefinedInvariant == Spec => []FailsIfUndefined
<1>1. Returned => FailsIfUndefined
  <2> DEFINE Total == \A i \in Elements(x), j \in Operands(y) : Defined(i, j)
  <2>1. SUFFICES ASSUME Returned, op # "None" PROVE ok <=> Total
    BY DEF FailsIfUndefined, Called
  <2>2. x \in IntRanges /\ y \in IntRanges /\ x \in Ranges /\ y \in Ranges
    BY <2>1, RunRanges DEF Returned
  <2>3. /\ ~Empty(x) <=> \E i \in Elements(x) : i \in Int
        /\ ~Empty(y) <=> \E j \in Elements(y) : j \in Int
    BY <2>2, EmptyMeansNoElements, SomeElement
  <2>4. /\ ContainsNegative(x) <=> \E i \in Elements(x) : i < 0
        /\ ContainsNegative(y) <=> \E j \in Elements(y) : j < 0
    BY <2>2, Signs
  <2>5. \A i : i \in Elements(x) \/ i \in Elements(y) => i \in Int BY <2>2, InElements
  <2>6. CASE op \in {"Add", "Sub", "Mul"} BY <2>1, <2>6 DEF Returned, Defined
  <2>7. CASE op = "Quo"
    <3>1. ok <=> Empty(x) \/ Empty(y) \/ ~ContainsZero(y) BY <2>1, <2>7, Succeeds DEF Returned
    <3>2. Total <=> \A i \in Elements(x), j \in Elements(y) : j # 0 BY <2>7 DEF Defined, Operands
    <3>3. ContainsZero(y) <=> 0 \in Elements(y)
      <4>1. 0 \in Int /\ -Box <= 0 /\ 0 <= Box BY IntervalAssumption
      <4> QED BY <2>2, <4>1, InElements DEF ContainsZero
    <3> QED BY <2>3, <2>5, <3>1, <3>2, <3>3
  <2>8. CASE op \in {"Lsh", "Rsh"}
    <3>1. ok <=> Empty(x) \/ Empty(y) \/ ~ContainsNegative(y)
      <4>1. CASE op = "Lsh"
        <5>1. ok <=> Empty(x) \/ ~ContainsNegative(y) BY <2>1, <4>1, Succeeds DEF Returned
        <5>2. Empty(y) => ~ContainsNegative(y) BY <2>3, <2>4, <2>5
        <5> QED BY <5>1, <5>2
      <4>2. CASE op = "Rsh" BY <2>1, <4>2, Succeeds DEF Returned
      <4> QED BY <2>8, <4>1, <4>2
    <3>2. Total <=> \A i \in Elements(x), j \in Elements(y) : j <= 2 * Width => j >= 0
      BY <2>8 DEF Defined, Operands
    <3>3. \A j \in Int : (j <= 2 * Width => j >= 0) <=> ~(j < 0) BY IntervalAssumption
    <3> QED BY <2>3, <2>4, <2>5, <3>1, <3>2, <3>3
  <2>9. CASE op \in {"And", "Or"}
    <3>1. ok <=> Empty(x) \/ Empty(y) \/ (~ContainsNegative(x) /\ ~ContainsNegative(y))
      BY <2>1, <2>2, <2>9, Succeeds, OrSucceeds DEF Returned
    <3>2. Total <=> \A i \in Elements(x), j \in Elements(y) : i >= 0 /\ j >= 0
      BY <2>9 DEF Defined, Operands
    <3>3. \A j \in Int : j >= 0 <=> ~(j < 0) OBVIOUS
    <3> QED BY <2>3, <2>4, <2>5, <3>1, <3>2, <3>3
  <2> QED BY <2>1, <2>6, <2>7, <2>8, <2>9 DEF Returned
<1> QED BY <1>1, ReturnedInvariant, PTL

Arithmetic == {"Add", "Sub", "Mul", "Quo", "Lsh", "Rsh"}

(* For all ranges, whatever the bounds of a run: a call of Add, Sub, Mul,  *)
(* Quo, Lsh or Rsh that succeeds returns a range that holds the results    *)
(* for all integers of its operands.                                       *)
LEMMA ArithmeticSound == Spec => [](op \in Arithmetic => Sound)
<1>1. Returned => (op \in Arithmetic => Sound)
  <2>1. SUFFICES ASSUME Returned, op \in Arithmetic, ok,
                        NEW i \in Elements(x), NEW j \in Operands(y)
                 PROVE  Contains(z, Apply(i, j))
    BY DEF Sound
  <2>2. x \in Ranges /\ y \in Ranges
    BY <2>1, RunRanges DEF Returned
  <2>3. i \in Int /\ j \in Int /\ Contains(x, i) /\ Contains(y, j)
    BY <2>1, IntervalAssumption DEF Elements, Operands
  <2>4. CASE op = "Add"
    <3>1. Contains(Add(x, y), i + j)
      BY <2>2, <2>3, AddExact
    <3> QED BY <2>1, <2>4, <3>1 DEF Returned, Apply
  <2>5. CASE op = "Sub"
    <3>1. Contains(Sub(x, y), i - j)
      BY <2>2, <2>3, SubSound
    <3> QED BY <2>1, <2>5, <3>1 DEF Returned, Apply
  <2>6. CASE op = "Mul"
    <3>1. Contains(Mul(x, y), i * j)
      BY <2>2, <2>3, MulSound
    <3> QED BY <2>1, <2>6, <3>1 DEF Returned, Apply
  <2>7. CASE op = "Quo"
    <3>1. Quo(x, y).ok
      BY <2>1, <2>7 DEF Returned
    <3>2. Contains(Quo(x, y).z, bigIntQuo(i, j))
      BY <2>2, <2>3, <3>1, QuoSound
    <3> QED BY <2>1, <2>7, <3>2 DEF Returned, Apply
  <2>8. CASE op \in {"Lsh", "Rsh"}
    <3>1. ~Empty(x) /\ ~Empty(y)
      <4>1. nil \notin Int
        BY IntervalAssumption
      <4> QED BY <2>2, <2>3, <4>1 DEF Ranges, Bounds, Contains, Empty
    <3>2. ~ContainsNegative(y)
      <4>1. CASE op = "Lsh"
        BY <2>1, <3>1, <4>1, Succeeds DEF Returned
      <4>2. CASE op = "Rsh"
        BY <2>1, <3>1, <4>2, Succeeds DEF Returned
      <4> QED BY <2>8, <4>1, <4>2
    <3>3. IsSmall(y) /\ j <= 2 * Width
      BY <2>1, <2>8 DEF Returned, Operands
    <3>4. Shifts(y) /\ j \in Exponents
      BY <2>2, <2>3, <3>2, <3>3, ShiftsOf
    <3>5. CASE op = "Lsh"
      <4>1. Contains(mulLsh(x, y, TRUE), i * 2^j)
        BY <2>2, <2>3, <3>4, LshSound
      <4>2. Lsh(x, y).z = mulLsh(x, y, TRUE)
        BY <3>2 DEF Lsh, Success
      <4>3. z = mulLsh(x, y, TRUE)
        BY <2>1, <3>5, <4>2 DEF Returned
      <4>4. Apply(i, j) = i * 2^j
        BY <3>5 DEF Apply
      <4> QED BY <4>1, <4>3, <4>4
    <3>6. CASE op = "Rsh"
      <4>1. Contains(Rsh(x, y).z, i \div 2^j)
        BY <2>2, <2>3, <3>2, <3>4, RshSound
      <4>2. z = Rsh(x, y).z
        BY <2>1, <3>6 DEF Returned
      <4>3. Apply(i, j) = i \div 2^j
        BY <3>6 DEF Apply
      <4> QED BY <4>1, <4>2, <4>3
    <3> QED BY <2>8, <3>5, <3>6
  <2> QED BY <2>1, <2>4, <2>5, <2>6, <2>7, <2>8 DEF Arithmetic
<1> QED BY <1>1, ReturnedInvariant, PTL

-----------------------------------------------------------------------------
(* Tightness.  V is the set of the results for the integers of the         *)
(* operands, F is beyond all finite bounds.                                *)

(* A bound of a pair is a result, or some result is beyond F.              *)
LowReached(m, V, F) ==
  /\ m \in BiggerInts
  /\ m.extra = 0 => m.i \in V
  /\ m.extra < 0 => \E v \in V : v < -F
HighReached(m, V, F) ==
  /\ m \in BiggerInts
  /\ m.extra = 0 => m.i \in V
  /\ m.extra > 0 => \E v \in V : v > F
PairReached(p, V, F) == LowReached(p.min, V, F) /\ HighReached(p.max, V, F)

(* The same for a range.                                                   *)
RangeReached(t, V, F) ==
  /\ IF t.lo = nil THEN \E v \in V : v < -F ELSE t.lo \in V
  /\ IF t.hi = nil THEN \E v \in V : v > F ELSE t.hi \in V

(* The bounds of a pair that are reached.                                  *)
LEMMA FiniteReached ==
  ASSUME NEW n \in Int, NEW V, NEW F, n \in V
  PROVE  LowReached(Finite(n), V, F) /\ HighReached(Finite(n), V, F)
<1>1. Finite(n).extra = 0 /\ Finite(n).i = n /\ Finite(n) \in BiggerInts
  BY DEF Finite, BiggerInts
<1> QED BY <1>1 DEF LowReached, HighReached

LEMMA InfiniteReached ==
  ASSUME NEW V, NEW F, NEW v \in V
  PROVE  /\ v < -F => LowReached(NegInf, V, F)
         /\ v > F => HighReached(PosInf, V, F)
<1>1. NegInf.extra = -1 /\ PosInf.extra = 1 /\ NegInf \in BiggerInts /\ PosInf \in BiggerInts
  BY DEF NegInf, PosInf, BiggerInts
<1> QED BY <1>1 DEF LowReached, HighReached

(* A pair that no branch has widened yet claims nothing.                   *)
LEMMA StartReached ==
  ASSUME NEW V, NEW F
  PROVE  /\ PairReached(newBiggerIntPair, V, F)
         /\ 0 \in V => PairReached(fromIntRange(zero), V, F)
<1>1. /\ newBiggerIntPair.min = PosInf /\ newBiggerIntPair.max = NegInf
      /\ NegInf.extra = -1 /\ PosInf.extra = 1 /\ NegInf \in BiggerInts /\ PosInf \in BiggerInts
  BY DEF NegInf, PosInf, BiggerInts, newBiggerIntPair
<1>2. PairReached(newBiggerIntPair, V, F)
  BY <1>1 DEF PairReached, LowReached, HighReached
<1>3. fromIntRange(zero) = [min |-> Finite(0), max |-> Finite(0)]
  BY IntervalAssumption DEF fromIntRange, zero, IntRange
<1> QED BY <1>2, <1>3, FiniteReached DEF PairReached

(* lowerMin and raiseMax choose one of two bounds.                         *)
LEMMA WidenReached ==
  ASSUME NEW p, NEW c \in BOOLEAN, NEW low, NEW high, NEW V, NEW F,
         PairReached(p, V, F),
         c => LowReached(low, V, F) /\ HighReached(high, V, F)
  PROVE  PairReached(Widen(p, c, low, high), V, F)
<1>1. CASE ~c
  BY <1>1 DEF Widen
<1>2. CASE c
  <2>1. Widen(p, c, low, high) = [min |-> lowerMin(p.min, low), max |-> raiseMax(p.max, high)]
    BY <1>2 DEF Widen
  <2>2. lowerMin(p.min, low) \in {p.min, low} /\ raiseMax(p.max, high) \in {p.max, high}
    BY DEF lowerMin, raiseMax
  <2>3. LowReached(lowerMin(p.min, low), V, F) /\ HighReached(raiseMax(p.max, high), V, F)
    BY <1>2, <2>2 DEF PairReached
  <2>4. /\ Widen(p, c, low, high).min = lowerMin(p.min, low)
        /\ Widen(p, c, low, high).max = raiseMax(p.max, high)
    BY <2>1
  <2> QED BY <2>3, <2>4 DEF PairReached
<1> QED BY <1>1, <1>2

(* A range that is not empty has the bounds of its pair.                   *)
LEMMA ToIntRangeReached ==
  ASSUME NEW p, NEW V, NEW F, PairReached(p, V, F), NEW v \in Int, Contains(toIntRange(p), v)
  PROVE  RangeReached(toIntRange(p), V, F)
<1>1. nil \notin Int
  BY IntervalAssumption
<1>2. p.min \in BiggerInts /\ p.max \in BiggerInts
  BY DEF PairReached, LowReached, HighReached
<1>3. ~Contains(empty, v)
  BY <1>1 DEF Contains, empty, IntRange
<1>4. ~(p.min.extra > 0) /\ ~(p.max.extra < 0) /\ toIntRange(p) = IntRange(p.min.i, p.max.i)
  BY <1>3 DEF toIntRange
<1>5. IF p.min.i = nil THEN p.min.extra < 0 ELSE p.min.extra = 0
  BY <1>1, <1>2, <1>4, BiggerIntType
<1>6. IF p.max.i = nil THEN p.max.extra > 0 ELSE p.max.extra = 0
  BY <1>1, <1>2, <1>4, BiggerIntType
<1>7. toIntRange(p).lo = p.min.i /\ toIntRange(p).hi = p.max.i
  BY <1>4 DEF IntRange
<1> QED BY <1>5, <1>6, <1>7 DEF RangeReached, PairReached, LowReached, HighReached

(* What split returns, seen from inside: its bounds are integers of r, and *)
(* where one is infinite an end of the box is.                             *)
NegPart(p, E) ==
  /\ p.hi \in Int /\ p.hi \in E /\ p.hi < 0 /\ -(Small + 1) <= p.hi
  /\ p.lo = nil => -Box \in E
  /\ p.lo # nil => p.lo \in Int /\ p.lo \in E /\ p.lo < 0
PosPart(p, E) ==
  /\ p.lo \in Int /\ p.lo \in E /\ p.lo > 0 /\ p.lo <= Small + 1
  /\ p.hi = nil => Box \in E
  /\ p.hi # nil => p.hi \in Int /\ p.hi \in E /\ p.hi > 0
PartsReached(X, E) ==
  /\ X.negEmpty \in BOOLEAN /\ X.hasZero \in BOOLEAN /\ X.posEmpty \in BOOLEAN
  /\ X.hasZero => 0 \in E
  /\ ~X.negEmpty => NegPart(X.neg, E)
  /\ ~X.posEmpty => PosPart(X.pos, E)

LEMMA SplitReached ==
  ASSUME NEW r \in IntRanges, IsSmall(r)
  PROVE  PartsReached(split(r), Elements(r))
<1> DEFINE X == split(r)
           E == Elements(r)
<1>1. /\ nil \notin Int /\ Box \in Nat /\ Box > 0 /\ Small \in Nat
      /\ r.lo = nil \/ (r.lo \in Int /\ -Small <= r.lo /\ r.lo <= Small)
      /\ r.hi = nil \/ (r.hi \in Int /\ -Small <= r.hi /\ r.hi <= Small)
  <2>1. Small \in Nat /\ Box \in Nat /\ Box > 0 /\ nil \notin Int
    BY IntervalAssumption, BoxFacts
  <2>2. r.lo \in (-Small)..Small \cup {nil} /\ r.hi \in (-Small)..Small \cup {nil}
    BY DEF IsSmall
  <2> QED BY <2>1, <2>2
<1>2. /\ ~Empty(r) /\ r.lo # nil => r.lo \in E
      /\ ~Empty(r) /\ r.hi # nil => r.hi \in E
      /\ ~Empty(r) /\ r.lo = nil => -Box \in E
      /\ ~Empty(r) /\ r.hi = nil => Box \in E
  BY EmptyMeansNoElements
<1>3. \A a \in {-1, 0, 1} : Contains(r, a) => a \in E
  <2>1. ASSUME NEW a \in {-1, 0, 1}, Contains(r, a) PROVE a \in E
    <3>1. a \in Int /\ -Box <= a /\ a <= Box
      BY <1>1
    <3> QED BY <2>1, <3>1, InElements
  <2> QED BY <2>1
<1>4. CASE r.lo # nil /\ r.lo > 0
  <2>1. /\ X.pos = r /\ X.negEmpty = TRUE /\ X.hasZero = FALSE /\ X.posEmpty = Empty(r)
    BY <1>4 DEF split
  <2>2. Empty(r) \in BOOLEAN /\ (~Empty(r) => (r.hi = nil \/ r.hi > 0))
    BY <1>1, <1>4 DEF Empty
  <2> HIDE DEF X, E
  <2>4. ~Empty(r) => PosPart(r, E)
    BY <1>1, <1>2, <1>4, <2>2 DEF PosPart
  <2>5. X.negEmpty \in BOOLEAN /\ X.hasZero \in BOOLEAN /\ X.posEmpty \in BOOLEAN
    BY <2>1, <2>2
  <2>6. X.negEmpty /\ ~X.hasZero /\ (X.posEmpty <=> Empty(r))
    BY <2>1, <2>2
  <2>3. PartsReached(X, E)
    BY <2>1, <2>4, <2>5, <2>6 DEF PartsReached
  <2> QED BY <2>3 DEF X, E
<1>5. CASE ~(r.lo # nil /\ r.lo > 0) /\ r.hi # nil /\ r.hi < 0
  <2>1. /\ X.neg = r /\ X.negEmpty = Empty(r) /\ X.hasZero = FALSE /\ X.posEmpty = TRUE
    BY <1>5 DEF split
  <2>2. Empty(r) \in BOOLEAN /\ (~Empty(r) => (r.lo = nil \/ r.lo < 0))
    BY <1>1, <1>5 DEF Empty
  <2> HIDE DEF X, E
  <2>4. ~Empty(r) => NegPart(r, E)
    BY <1>1, <1>2, <1>5, <2>2 DEF NegPart
  <2>5. X.negEmpty \in BOOLEAN /\ X.hasZero \in BOOLEAN /\ X.posEmpty \in BOOLEAN
    BY <2>1, <2>2
  <2>6. X.posEmpty /\ ~X.hasZero /\ (X.negEmpty <=> Empty(r))
    BY <2>1, <2>2
  <2>3. PartsReached(X, E)
    BY <2>1, <2>4, <2>5, <2>6 DEF PartsReached
  <2> QED BY <2>3 DEF X, E
<1>6. CASE ~(r.lo # nil /\ r.lo > 0) /\ ~(r.hi # nil /\ r.hi < 0)
  <2> DEFINE neg == IntRange(r.lo, IF r.hi # nil /\ r.hi < -1 THEN r.hi ELSE -1)
             pos == IntRange(IF r.lo # nil /\ r.lo > 1 THEN r.lo ELSE 1, r.hi)
  <2>1. /\ X.neg = neg /\ X.pos = pos
        /\ X.negEmpty = Empty(neg) /\ X.hasZero = ContainsZero(r) /\ X.posEmpty = Empty(pos)
    BY <1>6 DEF split
  <2>2. neg.lo = r.lo /\ neg.hi = -1 /\ pos.lo = 1 /\ pos.hi = r.hi
    BY <1>1, <1>6 DEF IntRange
  <2> HIDE DEF X, neg, pos, E
  <2>3. Empty(neg) \in BOOLEAN /\ Empty(pos) \in BOOLEAN /\ ContainsZero(r) \in BOOLEAN
    BY DEF Empty, ContainsZero, Contains
  <2>4. ~Empty(r)
    BY <1>1, <1>6 DEF Empty
  <2>5. ASSUME ~Empty(neg) PROVE (r.lo = nil \/ r.lo < 0) /\ Contains(r, -1)
    BY <1>1, <1>6, <2>2, <2>5 DEF Empty, Contains
  <2>6. ASSUME ~Empty(pos) PROVE (r.hi = nil \/ r.hi > 0) /\ Contains(r, 1)
    BY <1>1, <1>6, <2>2, <2>6 DEF Empty, Contains
  <2>7. ContainsZero(r) => 0 \in E
    BY <1>3 DEF ContainsZero
  <2>8. ~Empty(neg) => -1 \in E
    BY <1>3, <2>5
  <2>9. ~Empty(pos) => 1 \in E
    BY <1>3, <2>6
  <2>10. ~X.negEmpty => NegPart(X.neg, E)
    BY <1>1, <1>2, <2>1, <2>2, <2>4, <2>5, <2>8 DEF NegPart
  <2>11. ~X.posEmpty => PosPart(X.pos, E)
    BY <1>1, <1>2, <2>1, <2>2, <2>4, <2>6, <2>9 DEF PosPart
  <2>12. PartsReached(X, E)
    BY <2>1, <2>3, <2>7, <2>10, <2>11 DEF PartsReached
  <2> QED BY <2>12 DEF X, E
<1> QED BY <1>4, <1>5, <1>6

(* V holds the product of each integer of E with each of G.                *)
Products(V, E, G) == \A a \in E, b \in G : a * b \in V

(* An end of the box times any integer but zero is beyond the products of  *)
(* the bounds.                                                             *)
LEMMA BoxTimes ==
  ASSUME NEW b \in Int
  PROVE  /\ Small * Small \in Int /\ Box \in Int /\ -Box \in Int
         /\ b > 0 => Box * b > Small * Small /\ (-Box) * b < -(Small * Small)
         /\ b > 0 => b * Box > Small * Small /\ b * (-Box) < -(Small * Small)
         /\ b < 0 => (-Box) * b > Small * Small /\ Box * b < -(Small * Small)
         /\ b < 0 => b * (-Box) > Small * Small /\ b * Box < -(Small * Small)
<1>1. Small \in Nat /\ Box \in Nat
  BY IntervalAssumption
<1>2. Small * Small \in Int /\ (Small + 1) * (Small + 1) = Small * Small + 2 * Small + 1
  BY <1>1
<1>3. Box > Small * Small
  BY <1>1, <1>2, BoxAssumption
<1> DEFINE F == Small * Small
<1> HIDE DEF F
<1>4. F \in Int /\ Box > F
  BY <1>2, <1>3 DEF F
<1>5. ASSUME NEW c \in Int, c > 0 PROVE Box * c > F /\ Box * c \in Int
  <2>1. Box * 1 <= Box * c
    BY <1>1, <1>5, MulPosPos
  <2>2. Box * c \in Int
    BY <1>1, <1>5
  <2> QED BY <1>1, <1>4, <2>1, <2>2
<1>6. /\ b * Box = Box * b /\ (-Box) * b = -(Box * b) /\ b * (-Box) = -(Box * b)
      /\ Box * (-b) = -(Box * b) /\ Box * b \in Int /\ -b \in Int
  BY <1>1
<1>7. b > 0 => Box * b > F
  BY <1>5
<1>8. b < 0 => Box * (-b) > F
  BY <1>5, <1>6
<1> QED BY <1>1, <1>4, <1>6, <1>7, <1>8 DEF F

(* The corners of the four branches of Mul are products, or a product is   *)
(* beyond F where one is infinite.                                         *)
LEMMA MulNegNegReached ==
  ASSUME NEW p, NEW q, NEW E, NEW G, NEW V, Products(V, E, G), NegPart(p, E), NegPart(q, G)
  PROVE  /\ LowReached(Finite(combine(FALSE, p.hi, q.hi)), V, Small * Small)
         /\ HighReached(Bound(FALSE, p.lo, q.lo, PosInf), V, Small * Small)
<1>1. p.hi * q.hi \in V /\ p.hi * q.hi \in Int
  BY DEF Products, NegPart
<1>2. LowReached(Finite(p.hi * q.hi), V, Small * Small)
  BY <1>1, FiniteReached
<1>3. CASE p.lo = nil
  <2>1. (-Box) * q.hi \in V /\ (-Box) * q.hi > Small * Small
    BY <1>3, BoxTimes DEF Products, NegPart
  <2>2. HighReached(PosInf, V, Small * Small)
    BY <2>1, InfiniteReached
  <2> QED BY <1>2, <1>3, <2>2 DEF combine, bigIntMul, Bound
<1>4. CASE p.lo # nil /\ q.lo = nil
  <2>1. p.hi * (-Box) \in V /\ p.hi * (-Box) > Small * Small
    BY <1>4, BoxTimes DEF Products, NegPart
  <2>2. HighReached(PosInf, V, Small * Small)
    BY <2>1, InfiniteReached
  <2> QED BY <1>2, <1>4, <2>2 DEF combine, bigIntMul, Bound
<1>5. CASE p.lo # nil /\ q.lo # nil
  <2>1. p.lo * q.lo \in V /\ p.lo * q.lo \in Int
    BY <1>5 DEF Products, NegPart
  <2>2. HighReached(Finite(p.lo * q.lo), V, Small * Small)
    BY <2>1, FiniteReached
  <2> QED BY <1>2, <1>5, <2>2 DEF combine, bigIntMul, Bound
<1> QED BY <1>3, <1>4, <1>5

(* Negative times positive.                                                *)
LEMMA MulNegPosReached ==
  ASSUME NEW p, NEW q, NEW E, NEW G, NEW V, Products(V, E, G), NegPart(p, E), PosPart(q, G)
  PROVE  /\ LowReached(Bound(FALSE, p.lo, q.hi, NegInf), V, Small * Small)
         /\ HighReached(Finite(combine(FALSE, p.hi, q.lo)), V, Small * Small)
<1>1. p.hi * q.lo \in V /\ p.hi * q.lo \in Int
  BY DEF Products, NegPart, PosPart
<1>2. HighReached(Finite(p.hi * q.lo), V, Small * Small)
  BY <1>1, FiniteReached
<1>3. CASE p.lo = nil
  <2>1. (-Box) * q.lo \in V /\ (-Box) * q.lo < -(Small * Small)
    BY <1>3, BoxTimes DEF Products, NegPart, PosPart
  <2>2. LowReached(NegInf, V, Small * Small)
    BY <2>1, InfiniteReached
  <2> QED BY <1>2, <1>3, <2>2 DEF combine, bigIntMul, Bound
<1>4. CASE p.lo # nil /\ q.hi = nil
  <2>1. p.hi * Box \in V /\ p.hi * Box < -(Small * Small)
    BY <1>4, BoxTimes DEF Products, NegPart, PosPart
  <2>2. LowReached(NegInf, V, Small * Small)
    BY <2>1, InfiniteReached
  <2> QED BY <1>2, <1>4, <2>2 DEF combine, bigIntMul, Bound
<1>5. CASE p.lo # nil /\ q.hi # nil
  <2>1. p.lo * q.hi \in V /\ p.lo * q.hi \in Int
    BY <1>5 DEF Products, NegPart, PosPart
  <2>2. LowReached(Finite(p.lo * q.hi), V, Small * Small)
    BY <2>1, FiniteReached
  <2> QED BY <1>2, <1>5, <2>2 DEF combine, bigIntMul, Bound
<1> QED BY <1>3, <1>4, <1>5

(* Positive times negative.                                                *)
LEMMA MulPosNegReached ==
  ASSUME NEW p, NEW q, NEW E, NEW G, NEW V, Products(V, E, G), PosPart(p, E), NegPart(q, G)
  PROVE  /\ LowReached(Bound(FALSE, p.hi, q.lo, NegInf), V, Small * Small)
         /\ HighReached(Finite(combine(FALSE, p.lo, q.hi)), V, Small * Small)
<1>1. p.lo * q.hi \in V /\ p.lo * q.hi \in Int
  BY DEF Products, NegPart, PosPart
<1>2. HighReached(Finite(p.lo * q.hi), V, Small * Small)
  BY <1>1, FiniteReached
<1>3. CASE p.hi = nil
  <2>1. Box * q.hi \in V /\ Box * q.hi < -(Small * Small)
    BY <1>3, BoxTimes DEF Products, NegPart, PosPart
  <2>2. LowReached(NegInf, V, Small * Small)
    BY <2>1, InfiniteReached
  <2> QED BY <1>2, <1>3, <2>2 DEF combine, bigIntMul, Bound
<1>4. CASE p.hi # nil /\ q.lo = nil
  <2>1. p.lo * (-Box) \in V /\ p.lo * (-Box) < -(Small * Small)
    BY <1>4, BoxTimes DEF Products, NegPart, PosPart
  <2>2. LowReached(NegInf, V, Small * Small)
    BY <2>1, InfiniteReached
  <2> QED BY <1>2, <1>4, <2>2 DEF combine, bigIntMul, Bound
<1>5. CASE p.hi # nil /\ q.lo # nil
  <2>1. p.hi * q.lo \in V /\ p.hi * q.lo \in Int
    BY <1>5 DEF Products, NegPart, PosPart
  <2>2. LowReached(Finite(p.hi * q.lo), V, Small * Small)
    BY <2>1, FiniteReached
  <2> QED BY <1>2, <1>5, <2>2 DEF combine, bigIntMul, Bound
<1> QED BY <1>3, <1>4, <1>5

(* Both positive.                                                          *)
LEMMA MulPosPosReached ==
  ASSUME NEW p, NEW q, NEW E, NEW G, NEW V, Products(V, E, G), PosPart(p, E), PosPart(q, G)
  PROVE  /\ LowReached(Finite(combine(FALSE, p.lo, q.lo)), V, Small * Small)
         /\ HighReached(Bound(FALSE, p.hi, q.hi, PosInf), V, Small * Small)
<1>1. p.lo * q.lo \in V /\ p.lo * q.lo \in Int
  BY DEF Products, NegPart, PosPart
<1>2. LowReached(Finite(p.lo * q.lo), V, Small * Small)
  BY <1>1, FiniteReached
<1>3. CASE p.hi = nil
  <2>1. Box * q.lo \in V /\ Box * q.lo > Small * Small
    BY <1>3, BoxTimes DEF Products, NegPart, PosPart
  <2>2. HighReached(PosInf, V, Small * Small)
    BY <2>1, InfiniteReached
  <2> QED BY <1>2, <1>3, <2>2 DEF combine, bigIntMul, Bound
<1>4. CASE p.hi # nil /\ q.hi = nil
  <2>1. p.lo * Box \in V /\ p.lo * Box > Small * Small
    BY <1>4, BoxTimes DEF Products, NegPart, PosPart
  <2>2. HighReached(PosInf, V, Small * Small)
    BY <2>1, InfiniteReached
  <2> QED BY <1>2, <1>4, <2>2 DEF combine, bigIntMul, Bound
<1>5. CASE p.hi # nil /\ q.hi # nil
  <2>1. p.hi * q.hi \in V /\ p.hi * q.hi \in Int
    BY <1>5 DEF Products, NegPart, PosPart
  <2>2. HighReached(Finite(p.hi * q.hi), V, Small * Small)
    BY <2>1, FiniteReached
  <2> QED BY <1>2, <1>5, <2>2 DEF combine, bigIntMul, Bound
<1> QED BY <1>3, <1>4, <1>5

(* Both bounds of the range that Mul returns are reached.                  *)
LEMMA MulReached ==
  ASSUME NEW r \in IntRanges, NEW s \in IntRanges, IsSmall(r), IsSmall(s),
         ~Empty(r), ~Empty(s), NEW V, Products(V, Elements(r), Elements(s))
  PROVE  RangeReached(Mul(r, s), V, Small * Small)
<1> DEFINE X == split(r)
           Y == split(s)
           E == Elements(r)
           G == Elements(s)
           F == Small * Small
           start == IF Y.hasZero \/ X.hasZero THEN fromIntRange(zero) ELSE newBiggerIntPair
           cnn == ~X.negEmpty /\ ~Y.negEmpty
           cnp == ~X.negEmpty /\ ~Y.posEmpty
           cpn == ~X.posEmpty /\ ~Y.negEmpty
           cpp == ~X.posEmpty /\ ~Y.posEmpty
           lnn == Finite(combine(FALSE, X.neg.hi, Y.neg.hi))
           hnn == Bound(FALSE, X.neg.lo, Y.neg.lo, PosInf)
           lnp == Bound(FALSE, X.neg.lo, Y.pos.hi, NegInf)
           hnp == Finite(combine(FALSE, X.neg.hi, Y.pos.lo))
           lpn == Bound(FALSE, X.pos.hi, Y.neg.lo, NegInf)
           hpn == Finite(combine(FALSE, X.pos.lo, Y.neg.hi))
           lpp == Finite(combine(FALSE, X.pos.lo, Y.pos.lo))
           hpp == Bound(FALSE, X.pos.hi, Y.pos.hi, PosInf)
           nn == Widen(start, cnn, lnn, hnn)
           np == Widen(nn, cnp, lnp, hnp)
           pn == Widen(np, cpn, lpn, hpn)
           pp == Widen(pn, cpp, lpp, hpp)
<1>nil. nil \notin Int
  BY IntervalAssumption
<1>1. PICK i \in E, j \in G : i \in Int /\ j \in Int
  BY SomeElement
<1>2. i * j \in Int /\ Contains(Mul(r, s), i * j)
  <2>1. r \in Ranges /\ s \in Ranges /\ Contains(r, i) /\ Contains(s, j)
    BY <1>1, RunRanges DEF Elements
  <2> QED BY <1>1, <2>1, MulSound
<1>3. (0 \in E \/ 0 \in G) => 0 \in V
  <2>1. 0 * j = 0 /\ i * 0 = 0
    BY <1>1
  <2> QED BY <1>1, <2>1 DEF Products
<1>4. CASE justZero(r) \/ justZero(s)
  <2>1. Mul(r, s) = zero
    BY <1>4 DEF Mul, mulLsh
  <2>2. 0 \in E \/ 0 \in G
    <3>1. justZero(r) => 0 \in E
      BY EmptyMeansNoElements DEF justZero
    <3>2. justZero(s) => 0 \in G
      BY EmptyMeansNoElements DEF justZero
    <3> QED BY <1>4, <3>1, <3>2
  <2>3. zero.lo = 0 /\ zero.hi = 0
    BY DEF zero, IntRange
  <2> QED BY <1>nil, <1>3, <2>1, <2>2, <2>3 DEF RangeReached
<1>5. CASE ~(justZero(r) \/ justZero(s))
  <2>1. Mul(r, s) = toIntRange(pp)
    BY <1>5, ZenonT(60) DEF Mul, mulLsh
  <2>2. PartsReached(X, E) /\ PartsReached(Y, G)
    BY SplitReached
  <2> HIDE DEF X, Y, E, G, F
  <2>3. cnn \in BOOLEAN /\ cnp \in BOOLEAN /\ cpn \in BOOLEAN /\ cpp \in BOOLEAN
    OBVIOUS
  <2>4. Products(V, E, G)
    BY DEF E, G
  <2>5. PairReached(start, V, F)
    BY <1>3, <2>2, StartReached DEF PartsReached
  <2>6. cnn => LowReached(lnn, V, F) /\ HighReached(hnn, V, F)
    BY <2>2, <2>4, MulNegNegReached DEF PartsReached, F
  <2>7. cnp => LowReached(lnp, V, F) /\ HighReached(hnp, V, F)
    BY <2>2, <2>4, MulNegPosReached DEF PartsReached, F
  <2>8. cpn => LowReached(lpn, V, F) /\ HighReached(hpn, V, F)
    BY <2>2, <2>4, MulPosNegReached DEF PartsReached, F
  <2>9. cpp => LowReached(lpp, V, F) /\ HighReached(hpp, V, F)
    BY <2>2, <2>4, MulPosPosReached DEF PartsReached, F
  <2> HIDE DEF start, cnn, cnp, cpn, cpp, lnn, hnn, lnp, hnp, lpn, hpn, lpp, hpp
  <2>11. PairReached(nn, V, F)
    BY <2>3, <2>5, <2>6, WidenReached
  <2> HIDE DEF nn
  <2>12. PairReached(np, V, F)
    BY <2>3, <2>7, <2>11, WidenReached
  <2> HIDE DEF np
  <2>13. PairReached(pn, V, F)
    BY <2>3, <2>8, <2>12, WidenReached
  <2> HIDE DEF pn
  <2>14. PairReached(pp, V, F)
    BY <2>3, <2>9, <2>13, WidenReached
  <2> HIDE DEF pp
  <2>15. RangeReached(toIntRange(pp), V, F)
    BY <1>2, <2>1, <2>14, ToIntRangeReached
  <2> QED BY <2>1, <2>15 DEF F
<1> QED BY <1>4, <1>5

(* V holds the quotient of each integer of E and each of G.                *)
Quotients(V, E, G) == \A a \in E, b \in G : bigIntQuo(a, b) \in V

LEMMA QuoInt ==
  ASSUME NEW a \in Int, NEW b \in Int, b # 0
  PROVE  bigIntQuo(a, b) \in Int
<1>1. Abs(a) \in Nat /\ Abs(b) \in Nat /\ 0 < Abs(b)
  BY DEF Abs
<1>2. Abs(a) \div Abs(b) \in Nat
  BY <1>1, DivMonotone
<1> QED BY <1>2 DEF bigIntQuo

(* An end of the box divided by a bound next to zero is beyond all bounds, *)
(* and such a bound divided by an end of the box is zero.                  *)
LEMMA BoxQuo ==
  ASSUME NEW d \in Int
  PROVE  /\ Box \in Int /\ -Box \in Int /\ Box # 0 /\ -Box # 0
         /\ 0 < d /\ d <= Small + 1 => /\ bigIntQuo(Box, d) > Small
                                       /\ bigIntQuo(-Box, d) < -Small
                                       /\ bigIntQuo(d, Box) = 0 /\ bigIntQuo(d, -Box) = 0
         /\ d < 0 /\ -(Small + 1) <= d => /\ bigIntQuo(-Box, d) > Small
                                          /\ bigIntQuo(Box, d) < -Small
                                          /\ bigIntQuo(d, Box) = 0 /\ bigIntQuo(d, -Box) = 0
<1>1. Small \in Nat /\ Box \in Nat
  BY IntervalAssumption
<1>2. Box > (Small + 1) * (Small + 1) /\ (Small + 1) * (Small + 1) \in Int
  BY <1>1, BoxAssumption
<1>3. Box > Small + 1
  <2>1. (Small + 1) * 1 <= (Small + 1) * (Small + 1)
    BY <1>1, MulPosPos
  <2>2. (Small + 1) * 1 = Small + 1
    BY <1>1
  <2> QED BY <1>1, <1>2, <2>1, <2>2
<1>4. ASSUME NEW e \in Int, 0 < e, e <= Small + 1
      PROVE  /\ Box \div e \in Int /\ Box \div e > Small
             /\ e \div Box = 0
  <2> DEFINE q == Box \div e
  <2>1. q \in Int /\ Box < q * e + e /\ 0 <= q
    BY <1>1, <1>4, SMTT(30)
  <2> HIDE DEF q
  <2>2. q > Small
    <3>1. CASE q <= Small
      <4>1. (q + 1) * e <= (Small + 1) * (Small + 1)
        BY <1>1, <1>4, <2>1, <3>1, MulPosPos
      <4>2. (q + 1) * e = q * e + e /\ q * e \in Int
        BY <1>4, <2>1
      <4> QED BY <1>1, <1>2, <1>4, <2>1, <4>1, <4>2
    <3> QED BY <1>1, <2>1, <3>1
  <2>3. e \div Box = 0
    <3>1. 0 <= e /\ e < Box
      BY <1>1, <1>3, <1>4
    <3> QED BY <1>1, <1>4, <3>1, SMTT(30)
  <2> QED BY <2>1, <2>2, <2>3 DEF q
<1>5. Abs(Box) = Box /\ Abs(-Box) = Box /\ Box > 0 /\ -Box < 0
  BY <1>1, <1>3 DEF Abs
<1>6. ASSUME 0 < d, d <= Small + 1
      PROVE  /\ bigIntQuo(Box, d) > Small /\ bigIntQuo(-Box, d) < -Small
             /\ bigIntQuo(d, Box) = 0 /\ bigIntQuo(d, -Box) = 0
  <2>1. Abs(d) = d
    BY <1>6 DEF Abs
  <2>2. Box \div d \in Int /\ Box \div d > Small /\ d \div Box = 0
    BY <1>4, <1>6
  <2>3. /\ bigIntQuo(Box, d) = Box \div d /\ bigIntQuo(-Box, d) = -(Box \div d)
        /\ bigIntQuo(d, Box) = d \div Box /\ bigIntQuo(d, -Box) = -(d \div Box)
    BY <1>1, <1>5, <1>6, <2>1 DEF bigIntQuo
  <2> QED BY <1>1, <2>2, <2>3
<1>7. ASSUME d < 0, -(Small + 1) <= d
      PROVE  /\ bigIntQuo(-Box, d) > Small /\ bigIntQuo(Box, d) < -Small
             /\ bigIntQuo(d, Box) = 0 /\ bigIntQuo(d, -Box) = 0
  <2>1. Abs(d) = -d /\ -d \in Int /\ 0 < -d /\ -d <= Small + 1
    BY <1>1, <1>7 DEF Abs
  <2>2. Box \div (-d) \in Int /\ Box \div (-d) > Small /\ (-d) \div Box = 0
    BY <1>4, <2>1
  <2>3. /\ bigIntQuo(-Box, d) = Box \div (-d) /\ bigIntQuo(Box, d) = -(Box \div (-d))
        /\ bigIntQuo(d, Box) = -((-d) \div Box) /\ bigIntQuo(d, -Box) = (-d) \div Box
    BY <1>1, <1>5, <1>7, <2>1 DEF bigIntQuo
  <2> QED BY <1>1, <2>2, <2>3
<1> QED BY <1>1, <1>5, <1>6, <1>7

(* The corners of the four branches of Quo are quotients, or a quotient is *)
(* beyond the bounds where one is infinite.                                *)
LEMMA QuoNegNegReached ==
  ASSUME NEW p, NEW q, NEW E, NEW G, NEW V, Quotients(V, E, G), NegPart(p, E), NegPart(q, G)
  PROVE  /\ LowReached(Quotient(p.hi, q.lo, NegInf), V, Small)
         /\ HighReached(Quotient(p.lo, q.hi, PosInf), V, Small)
<1>1. nil \notin Int
  BY IntervalAssumption
<1>2. LowReached(Quotient(p.hi, q.lo, NegInf), V, Small)
  <2>1. CASE q.lo = nil
    <3>1. bigIntQuo(p.hi, -Box) \in V /\ bigIntQuo(p.hi, -Box) = 0
      BY <2>1, BoxQuo DEF Quotients, NegPart, PosPart
    <3>2. Quotient(p.hi, q.lo, NegInf) = Finite(0)
      BY <1>1, <2>1 DEF Quotient, NegPart, PosPart
    <3> QED BY <3>1, <3>2, FiniteReached
  <2>2. CASE q.lo # nil
    <3>1. bigIntQuo(p.hi, q.lo) \in V
      BY <2>2 DEF Quotients, NegPart, PosPart
    <3>2. bigIntQuo(p.hi, q.lo) \in Int
      BY <2>2, QuoInt DEF NegPart, PosPart
    <3>3. Quotient(p.hi, q.lo, NegInf) = Finite(bigIntQuo(p.hi, q.lo))
      BY <1>1, <2>2 DEF Quotient, NegPart, PosPart
    <3> QED BY <3>1, <3>2, <3>3, FiniteReached
  <2> QED BY <2>1, <2>2
<1>3. HighReached(Quotient(p.lo, q.hi, PosInf), V, Small)
  <2>1. CASE p.lo = nil
    <3>1. bigIntQuo(-Box, q.hi) \in V /\ bigIntQuo(-Box, q.hi) > Small
      BY <2>1, BoxQuo DEF Quotients, NegPart, PosPart
    <3>2. Quotient(p.lo, q.hi, PosInf) = PosInf
      BY <2>1 DEF Quotient
    <3> QED BY <3>1, <3>2, InfiniteReached
  <2>2. CASE p.lo # nil
    <3>1. bigIntQuo(p.lo, q.hi) \in V
      BY <2>2 DEF Quotients, NegPart, PosPart
    <3>2. bigIntQuo(p.lo, q.hi) \in Int
      BY <2>2, QuoInt DEF NegPart, PosPart
    <3>3. Quotient(p.lo, q.hi, PosInf) = Finite(bigIntQuo(p.lo, q.hi))
      BY <1>1, <2>2 DEF Quotient, NegPart, PosPart
    <3> QED BY <3>1, <3>2, <3>3, FiniteReached
  <2> QED BY <2>1, <2>2
<1> QED BY <1>2, <1>3

(* Negative by positive.                                                   *)
LEMMA QuoNegPosReached ==
  ASSUME NEW p, NEW q, NEW E, NEW G, NEW V, Quotients(V, E, G), NegPart(p, E), PosPart(q, G)
  PROVE  /\ LowReached(Quotient(p.lo, q.lo, NegInf), V, Small)
         /\ HighReached(Quotient(p.hi, q.hi, PosInf), V, Small)
<1>1. nil \notin Int
  BY IntervalAssumption
<1>2. HighReached(Quotient(p.hi, q.hi, PosInf), V, Small)
  <2>1. CASE q.hi = nil
    <3>1. bigIntQuo(p.hi, Box) \in V /\ bigIntQuo(p.hi, Box) = 0
      BY <2>1, BoxQuo DEF Quotients, NegPart, PosPart
    <3>2. Quotient(p.hi, q.hi, PosInf) = Finite(0)
      BY <1>1, <2>1 DEF Quotient, NegPart, PosPart
    <3> QED BY <3>1, <3>2, FiniteReached
  <2>2. CASE q.hi # nil
    <3>1. bigIntQuo(p.hi, q.hi) \in V
      BY <2>2 DEF Quotients, NegPart, PosPart
    <3>2. bigIntQuo(p.hi, q.hi) \in Int
      BY <2>2, QuoInt DEF NegPart, PosPart
    <3>3. Quotient(p.hi, q.hi, PosInf) = Finite(bigIntQuo(p.hi, q.hi))
      BY <1>1, <2>2 DEF Quotient, NegPart, PosPart
    <3> QED BY <3>1, <3>2, <3>3, FiniteReached
  <2> QED BY <2>1, <2>2
<1>3. LowReached(Quotient(p.lo, q.lo, NegInf), V, Small)
  <2>1. CASE p.lo = nil
    <3>1. bigIntQuo(-Box, q.lo) \in V /\ bigIntQuo(-Box, q.lo) < -Small
      BY <2>1, BoxQuo DEF Quotients, NegPart, PosPart
    <3>2. Quotient(p.lo, q.lo, NegInf) = NegInf
      BY <2>1 DEF Quotient
    <3> QED BY <3>1, <3>2, InfiniteReached
  <2>2. CASE p.lo # nil
    <3>1. bigIntQuo(p.lo, q.lo) \in V
      BY <2>2 DEF Quotients, NegPart, PosPart
    <3>2. bigIntQuo(p.lo, q.lo) \in Int
      BY <2>2, QuoInt DEF NegPart, PosPart
    <3>3. Quotient(p.lo, q.lo, NegInf) = Finite(bigIntQuo(p.lo, q.lo))
      BY <1>1, <2>2 DEF Quotient, NegPart, PosPart
    <3> QED BY <3>1, <3>2, <3>3, FiniteReached
  <2> QED BY <2>1, <2>2
<1> QED BY <1>2, <1>3

(* Positive by negative.                                                   *)
LEMMA QuoPosNegReached ==
  ASSUME NEW p, NEW q, NEW E, NEW G, NEW V, Quotients(V, E, G), PosPart(p, E), NegPart(q, G)
  PROVE  /\ LowReached(Quotient(p.hi, q.hi, NegInf), V, Small)
         /\ HighReached(Quotient(p.lo, q.lo, PosInf), V, Small)
<1>1. nil \notin Int
  BY IntervalAssumption
<1>2. HighReached(Quotient(p.lo, q.lo, PosInf), V, Small)
  <2>1. CASE q.lo = nil
    <3>1. bigIntQuo(p.lo, -Box) \in V /\ bigIntQuo(p.lo, -Box) = 0
      BY <2>1, BoxQuo DEF Quotients, NegPart, PosPart
    <3>2. Quotient(p.lo, q.lo, PosInf) = Finite(0)
      BY <1>1, <2>1 DEF Quotient, NegPart, PosPart
    <3> QED BY <3>1, <3>2, FiniteReached
  <2>2. CASE q.lo # nil
    <3>1. bigIntQuo(p.lo, q.lo) \in V
      BY <2>2 DEF Quotients, NegPart, PosPart
    <3>2. bigIntQuo(p.lo, q.lo) \in Int
      BY <2>2, QuoInt DEF NegPart, PosPart
    <3>3. Quotient(p.lo, q.lo, PosInf) = Finite(bigIntQuo(p.lo, q.lo))
      BY <1>1, <2>2 DEF Quotient, NegPart, PosPart
    <3> QED BY <3>1, <3>2, <3>3, FiniteReached
  <2> QED BY <2>1, <2>2
<1>3. LowReached(Quotient(p.hi, q.hi, NegInf), V, Small)
  <2>1. CASE p.hi = nil
    <3>1. bigIntQuo(Box, q.hi) \in V /\ bigIntQuo(Box, q.hi) < -Small
      BY <2>1, BoxQuo DEF Quotients, NegPart, PosPart
    <3>2. Quotient(p.hi, q.hi, NegInf) = NegInf
      BY <2>1 DEF Quotient
    <3> QED BY <3>1, <3>2, InfiniteReached
  <2>2. CASE p.hi # nil
    <3>1. bigIntQuo(p.hi, q.hi) \in V
      BY <2>2 DEF Quotients, NegPart, PosPart
    <3>2. bigIntQuo(p.hi, q.hi) \in Int
      BY <2>2, QuoInt DEF NegPart, PosPart
    <3>3. Quotient(p.hi, q.hi, NegInf) = Finite(bigIntQuo(p.hi, q.hi))
      BY <1>1, <2>2 DEF Quotient, NegPart, PosPart
    <3> QED BY <3>1, <3>2, <3>3, FiniteReached
  <2> QED BY <2>1, <2>2
<1> QED BY <1>2, <1>3

(* Both positive.                                                          *)
LEMMA QuoPosPosReached ==
  ASSUME NEW p, NEW q, NEW E, NEW G, NEW V, Quotients(V, E, G), PosPart(p, E), PosPart(q, G)
  PROVE  /\ LowReached(Quotient(p.lo, q.hi, NegInf), V, Small)
         /\ HighReached(Quotient(p.hi, q.lo, PosInf), V, Small)
<1>1. nil \notin Int
  BY IntervalAssumption
<1>2. LowReached(Quotient(p.lo, q.hi, NegInf), V, Small)
  <2>1. CASE q.hi = nil
    <3>1. bigIntQuo(p.lo, Box) \in V /\ bigIntQuo(p.lo, Box) = 0
      BY <2>1, BoxQuo DEF Quotients, NegPart, PosPart
    <3>2. Quotient(p.lo, q.hi, NegInf) = Finite(0)
      BY <1>1, <2>1 DEF Quotient, NegPart, PosPart
    <3> QED BY <3>1, <3>2, FiniteReached
  <2>2. CASE q.hi # nil
    <3>1. bigIntQuo(p.lo, q.hi) \in V
      BY <2>2 DEF Quotients, NegPart, PosPart
    <3>2. bigIntQuo(p.lo, q.hi) \in Int
      BY <2>2, QuoInt DEF NegPart, PosPart
    <3>3. Quotient(p.lo, q.hi, NegInf) = Finite(bigIntQuo(p.lo, q.hi))
      BY <1>1, <2>2 DEF Quotient, NegPart, PosPart
    <3> QED BY <3>1, <3>2, <3>3, FiniteReached
  <2> QED BY <2>1, <2>2
<1>3. HighReached(Quotient(p.hi, q.lo, PosInf), V, Small)
  <2>1. CASE p.hi = nil
    <3>1. bigIntQuo(Box, q.lo) \in V /\ bigIntQuo(Box, q.lo) > Small
      BY <2>1, BoxQuo DEF Quotients, NegPart, PosPart
    <3>2. Quotient(p.hi, q.lo, PosInf) = PosInf
      BY <2>1 DEF Quotient
    <3> QED BY <3>1, <3>2, InfiniteReached
  <2>2. CASE p.hi # nil
    <3>1. bigIntQuo(p.hi, q.lo) \in V
      BY <2>2 DEF Quotients, NegPart, PosPart
    <3>2. bigIntQuo(p.hi, q.lo) \in Int
      BY <2>2, QuoInt DEF NegPart, PosPart
    <3>3. Quotient(p.hi, q.lo, PosInf) = Finite(bigIntQuo(p.hi, q.lo))
      BY <1>1, <2>2 DEF Quotient, NegPart, PosPart
    <3> QED BY <3>1, <3>2, <3>3, FiniteReached
  <2> QED BY <2>1, <2>2
<1> QED BY <1>2, <1>3

(* Both bounds of the range that Quo returns are reached.                  *)
LEMMA QuoReached ==
  ASSUME NEW r \in IntRanges, NEW s \in IntRanges, IsSmall(r), IsSmall(s),
         ~Empty(r), ~Empty(s), Quo(r, s).ok, NEW V, Quotients(V, Elements(r), Elements(s))
  PROVE  RangeReached(Quo(r, s).z, V, Small)
<1> DEFINE X == split(r)
           Y == split(s)
           E == Elements(r)
           G == Elements(s)
           start == IF X.hasZero THEN fromIntRange(zero) ELSE newBiggerIntPair
           cnn == ~X.negEmpty /\ ~Y.negEmpty
           cnp == ~X.negEmpty /\ ~Y.posEmpty
           cpn == ~X.posEmpty /\ ~Y.negEmpty
           cpp == ~X.posEmpty /\ ~Y.posEmpty
           lnn == Quotient(X.neg.hi, Y.neg.lo, NegInf)
           hnn == Quotient(X.neg.lo, Y.neg.hi, PosInf)
           lnp == Quotient(X.neg.lo, Y.pos.lo, NegInf)
           hnp == Quotient(X.neg.hi, Y.pos.hi, PosInf)
           lpn == Quotient(X.pos.hi, Y.neg.hi, NegInf)
           hpn == Quotient(X.pos.lo, Y.neg.lo, PosInf)
           lpp == Quotient(X.pos.lo, Y.pos.hi, NegInf)
           hpp == Quotient(X.pos.hi, Y.pos.lo, PosInf)
           nn == Widen(start, cnn, lnn, hnn)
           np == Widen(nn, cnp, lnp, hnp)
           pn == Widen(np, cpn, lpn, hpn)
           pp == Widen(pn, cpp, lpp, hpp)
<1>nil. nil \notin Int
  BY IntervalAssumption
<1>1. PICK i \in E, j \in G : i \in Int /\ j \in Int
  BY SomeElement
<1>2. j # 0 /\ Contains(Quo(r, s).z, bigIntQuo(i, j))
  <2>1. r \in Ranges /\ s \in Ranges /\ Contains(r, i) /\ Contains(s, j)
    BY <1>1, RunRanges DEF Elements
  <2> QED BY <1>1, <2>1, QuoSound
<1>v. bigIntQuo(i, j) \in Int
  BY <1>1, <1>2, QuoInt
<1>z. ~ContainsZero(s)
  BY Succeeds
<1>3. 0 \in E => 0 \in V
  <2>1. 0 \div Abs(j) = 0
    <3>1. ASSUME NEW d \in Nat, 0 < d PROVE 0 \div d = 0
      BY <3>1, DivMonotone, SMTT(30)
    <3>2. Abs(j) \in Nat /\ 0 < Abs(j)
      BY <1>1, <1>2 DEF Abs
    <3> QED BY <3>1, <3>2
  <2>2. bigIntQuo(0, j) = 0
    BY <2>1 DEF bigIntQuo, Abs
  <2>3. 0 \in E => bigIntQuo(0, j) \in V
    BY <1>1 DEF Quotients
  <2> QED BY <2>2, <2>3
<1>4. CASE justZero(r)
  <2>1. Quo(r, s).z = zero
    BY <1>4, <1>z DEF Quo, Success
  <2>2. 0 \in E
    BY <1>4, EmptyMeansNoElements DEF justZero
  <2>3. zero.lo = 0 /\ zero.hi = 0
    BY DEF zero, IntRange
  <2> QED BY <1>nil, <1>3, <2>1, <2>2, <2>3 DEF RangeReached
<1>5. CASE ~justZero(r)
  <2>1. Quo(r, s).z = toIntRange(pp)
    BY <1>5, <1>z DEF Quo, Success
  <2>2. PartsReached(X, E) /\ PartsReached(Y, G)
    BY SplitReached
  <2> HIDE DEF X, Y, E, G
  <2>3. cnn \in BOOLEAN /\ cnp \in BOOLEAN /\ cpn \in BOOLEAN /\ cpp \in BOOLEAN
    OBVIOUS
  <2>4. Quotients(V, E, G)
    BY DEF E, G
  <2>5. PairReached(start, V, Small)
    BY <1>3, <2>2, StartReached DEF PartsReached
  <2>6. cnn => LowReached(lnn, V, Small) /\ HighReached(hnn, V, Small)
    BY <2>2, <2>4, QuoNegNegReached DEF PartsReached
  <2>7. cnp => LowReached(lnp, V, Small) /\ HighReached(hnp, V, Small)
    BY <2>2, <2>4, QuoNegPosReached DEF PartsReached
  <2>8. cpn => LowReached(lpn, V, Small) /\ HighReached(hpn, V, Small)
    BY <2>2, <2>4, QuoPosNegReached DEF PartsReached
  <2>9. cpp => LowReached(lpp, V, Small) /\ HighReached(hpp, V, Small)
    BY <2>2, <2>4, QuoPosPosReached DEF PartsReached
  <2> HIDE DEF start, cnn, cnp, cpn, cpp, lnn, hnn, lnp, hnp, lpn, hpn, lpp, hpp
  <2>11. PairReached(nn, V, Small)
    BY <2>3, <2>5, <2>6, WidenReached
  <2> HIDE DEF nn
  <2>12. PairReached(np, V, Small)
    BY <2>3, <2>7, <2>11, WidenReached
  <2> HIDE DEF np
  <2>13. PairReached(pn, V, Small)
    BY <2>3, <2>8, <2>12, WidenReached
  <2> HIDE DEF pn
  <2>14. PairReached(pp, V, Small)
    BY <2>3, <2>9, <2>13, WidenReached
  <2> HIDE DEF pp
  <2>15. RangeReached(toIntRange(pp), V, Small)
    BY <1>2, <1>v, <2>1, <2>14, ToIntRangeReached
  <2> QED BY <2>1, <2>15
<1> QED BY <1>4, <1>5

(* The sums and the differences.                                           *)
Sums(V, E, G) == \A a \in E, b \in G : a + b \in V
Differences(V, E, G) == \A a \in E, b \in G : a - b \in V

(* The bounds of a range that is not empty.                                *)
LEMMA EndsReached ==
  ASSUME NEW r \in IntRanges, IsSmall(r), ~Empty(r)
  PROVE  /\ nil \notin Int /\ Box \in Int /\ Small \in Nat /\ Box > 3 * Small
         /\ r.lo # nil => r.lo \in Int /\ r.lo \in Elements(r) /\ -Small <= r.lo /\ r.lo <= Small
         /\ r.hi # nil => r.hi \in Int /\ r.hi \in Elements(r) /\ -Small <= r.hi /\ r.hi <= Small
         /\ r.lo = nil => -Box \in Elements(r)
         /\ r.hi = nil => Box \in Elements(r)
<1>1. nil \notin Int /\ Box \in Nat /\ Small \in Nat
  BY IntervalAssumption
<1>2. Box > 3 * Small
  <2>1. Small * Small \in Int /\ (Small + 1) * (Small + 1) = Small * Small + 2 * Small + 1
    BY <1>1
  <2>2. Small = 0 \/ Small * Small >= Small
    <3>1. CASE Small >= 1
      <4>1. 1 * Small <= Small * Small
        BY <1>1, <3>1, MulPosPos
      <4> QED BY <1>1, <2>1, <4>1
    <3> QED BY <1>1, <3>1
  <2>3. Small = 0 => Small * Small = 0
    OBVIOUS
  <2> QED BY <1>1, <2>1, <2>2, <2>3, BoxAssumption
<1>3. r.lo \in (-Small)..Small \cup {nil} /\ r.hi \in (-Small)..Small \cup {nil}
  BY DEF IsSmall
<1>4. /\ r.lo # nil => r.lo \in Int /\ -Small <= r.lo /\ r.lo <= Small
      /\ r.hi # nil => r.hi \in Int /\ -Small <= r.hi /\ r.hi <= Small
  BY <1>1, <1>3
<1>5. /\ r.lo # nil => r.lo \in Elements(r)
      /\ r.hi # nil => r.hi \in Elements(r)
      /\ r.lo = nil => -Box \in Elements(r)
      /\ r.hi = nil => Box \in Elements(r)
  BY EmptyMeansNoElements
<1> QED BY <1>1, <1>2, <1>4, <1>5

LEMMA AddReached ==
  ASSUME NEW r \in IntRanges, NEW s \in IntRanges, IsSmall(r), IsSmall(s),
         ~Empty(r), ~Empty(s), NEW V, Sums(V, Elements(r), Elements(s))
  PROVE  RangeReached(Add(r, s), V, 2 * Small)
<1> DEFINE E == Elements(r)
           G == Elements(s)
<1>1. /\ nil \notin Int /\ Box \in Int /\ Small \in Nat /\ Box > 3 * Small
      /\ r.lo # nil => r.lo \in Int /\ r.lo \in E /\ -Small <= r.lo /\ r.lo <= Small
      /\ r.hi # nil => r.hi \in Int /\ r.hi \in E /\ -Small <= r.hi /\ r.hi <= Small
      /\ r.lo = nil => -Box \in E
      /\ r.hi = nil => Box \in E
  BY EndsReached
<1>2. /\ s.lo # nil => s.lo \in Int /\ s.lo \in G /\ -Small <= s.lo /\ s.lo <= Small
      /\ s.hi # nil => s.hi \in Int /\ s.hi \in G /\ -Small <= s.hi /\ s.hi <= Small
      /\ s.lo = nil => -Box \in G
      /\ s.hi = nil => Box \in G
  BY EndsReached
<1>3. \A a \in E, b \in G : a + b \in V
  BY DEF Sums
<1>4. /\ Add(r, s).lo = IF r.lo # nil /\ s.lo # nil THEN r.lo + s.lo ELSE nil
      /\ Add(r, s).hi = IF r.hi # nil /\ s.hi # nil THEN r.hi + s.hi ELSE nil
  BY DEF Add, IntRange
<1> HIDE DEF E, G
<1>5. IF Add(r, s).lo = nil THEN \E v \in V : v < -(2 * Small) ELSE Add(r, s).lo \in V
  <2>1. CASE r.lo # nil /\ s.lo # nil
    BY <1>1, <1>2, <1>3, <1>4, <2>1
  <2>2. CASE r.lo = nil /\ s.lo # nil
    <3>1. -Box + s.lo \in V /\ -Box + s.lo < -(2 * Small)
      BY <1>1, <1>2, <1>3, <2>2
    <3> QED BY <1>4, <2>2, <3>1
  <2>3. CASE r.lo # nil /\ s.lo = nil
    <3>1. r.lo + (-Box) \in V /\ r.lo + (-Box) < -(2 * Small)
      BY <1>1, <1>2, <1>3, <2>3
    <3> QED BY <1>4, <2>3, <3>1
  <2>4. CASE r.lo = nil /\ s.lo = nil
    <3>1. (-Box) + (-Box) \in V /\ (-Box) + (-Box) < -(2 * Small)
      BY <1>1, <1>2, <1>3, <2>4
    <3> QED BY <1>4, <2>4, <3>1
  <2> QED BY <2>1, <2>2, <2>3, <2>4
<1>6. IF Add(r, s).hi = nil THEN \E v \in V : v > 2 * Small ELSE Add(r, s).hi \in V
  <2>1. CASE r.hi # nil /\ s.hi # nil
    BY <1>1, <1>2, <1>3, <1>4, <2>1
  <2>2. CASE r.hi = nil /\ s.hi # nil
    <3>1. Box + s.hi \in V /\ Box + s.hi > 2 * Small
      BY <1>1, <1>2, <1>3, <2>2
    <3> QED BY <1>4, <2>2, <3>1
  <2>3. CASE r.hi # nil /\ s.hi = nil
    <3>1. r.hi + Box \in V /\ r.hi + Box > 2 * Small
      BY <1>1, <1>2, <1>3, <2>3
    <3> QED BY <1>4, <2>3, <3>1
  <2>4. CASE r.hi = nil /\ s.hi = nil
    <3>1. Box + Box \in V /\ Box + Box > 2 * Small
      BY <1>1, <1>2, <1>3, <2>4
    <3> QED BY <1>4, <2>4, <3>1
  <2> QED BY <2>1, <2>2, <2>3, <2>4
<1> QED BY <1>5, <1>6 DEF RangeReached

(* Two rays that point in opposite directions.                             *)
Rays(r, s) ==
  \/ r.lo # nil /\ r.hi = nil /\ s.lo = nil /\ s.hi # nil
  \/ r.lo = nil /\ r.hi # nil /\ s.lo # nil /\ s.hi = nil

LEMMA SubReached ==
  ASSUME NEW r \in IntRanges, NEW s \in IntRanges, IsSmall(r), IsSmall(s), ~Rays(r, s),
         ~Empty(r), ~Empty(s), NEW V, Differences(V, Elements(r), Elements(s))
  PROVE  RangeReached(Sub(r, s), V, 2 * Small)
<1> DEFINE E == Elements(r)
           G == Elements(s)
<1>1. /\ nil \notin Int /\ Box \in Int /\ Small \in Nat /\ Box > 3 * Small
      /\ r.lo # nil => r.lo \in Int /\ r.lo \in E /\ -Small <= r.lo /\ r.lo <= Small
      /\ r.hi # nil => r.hi \in Int /\ r.hi \in E /\ -Small <= r.hi /\ r.hi <= Small
      /\ r.lo = nil => -Box \in E
      /\ r.hi = nil => Box \in E
  BY EndsReached
<1>2. /\ s.lo # nil => s.lo \in Int /\ s.lo \in G /\ -Small <= s.lo /\ s.lo <= Small
      /\ s.hi # nil => s.hi \in Int /\ s.hi \in G /\ -Small <= s.hi /\ s.hi <= Small
      /\ s.lo = nil => -Box \in G
      /\ s.hi = nil => Box \in G
  BY EndsReached
<1>3. \A a \in E, b \in G : a - b \in V
  BY DEF Differences
<1>4. /\ Sub(r, s).lo = IF r.lo # nil /\ s.hi # nil THEN r.lo - s.hi ELSE nil
      /\ Sub(r, s).hi = IF r.hi # nil /\ s.lo # nil THEN r.hi - s.lo ELSE nil
  BY DEF Sub, IntRange, Rays
<1> HIDE DEF E, G
<1>5. IF Sub(r, s).lo = nil THEN \E v \in V : v < -(2 * Small) ELSE Sub(r, s).lo \in V
  <2>1. CASE r.lo # nil /\ s.hi # nil
    BY <1>1, <1>2, <1>3, <1>4, <2>1
  <2>2. CASE r.lo = nil /\ s.hi # nil
    <3>1. -Box - s.hi \in V /\ -Box - s.hi < -(2 * Small)
      BY <1>1, <1>2, <1>3, <2>2
    <3> QED BY <1>4, <2>2, <3>1
  <2>3. CASE r.lo # nil /\ s.hi = nil
    <3>1. r.lo - Box \in V /\ r.lo - Box < -(2 * Small)
      BY <1>1, <1>2, <1>3, <2>3
    <3> QED BY <1>4, <2>3, <3>1
  <2>4. CASE r.lo = nil /\ s.hi = nil
    <3>1. (-Box) - Box \in V /\ (-Box) - Box < -(2 * Small)
      BY <1>1, <1>2, <1>3, <2>4
    <3> QED BY <1>4, <2>4, <3>1
  <2> QED BY <2>1, <2>2, <2>3, <2>4
<1>6. IF Sub(r, s).hi = nil THEN \E v \in V : v > 2 * Small ELSE Sub(r, s).hi \in V
  <2>1. CASE r.hi # nil /\ s.lo # nil
    BY <1>1, <1>2, <1>3, <1>4, <2>1
  <2>2. CASE r.hi = nil /\ s.lo # nil
    <3>1. Box - s.lo \in V /\ Box - s.lo > 2 * Small
      BY <1>1, <1>2, <1>3, <2>2
    <3> QED BY <1>4, <2>2, <3>1
  <2>3. CASE r.hi # nil /\ s.lo = nil
    <3>1. r.hi - (-Box) \in V /\ r.hi - (-Box) > 2 * Small
      BY <1>1, <1>2, <1>3, <2>3
    <3> QED BY <1>4, <2>3, <3>1
  <2>4. CASE r.hi = nil /\ s.lo = nil
    <3>1. Box - (-Box) \in V /\ Box - (-Box) > 2 * Small
      BY <1>1, <1>2, <1>3, <2>4
    <3> QED BY <1>4, <2>4, <3>1
  <2> QED BY <2>1, <2>2, <2>3, <2>4
<1> QED BY <1>5, <1>6 DEF RangeReached

(* V holds each integer of E shifted left, or right, by each of G.         *)
LeftShifts(V, E, G) == \A a \in E, b \in G : a * 2^b \in V
RightShifts(V, E, G) == \A a \in E, b \in G : a \div 2^b \in V

(* The bounds of the shifts, of which G has the ones up to 2 * Width.      *)
ShiftPart(lo, hi, G) ==
  /\ lo \in Exponents /\ lo \in G
  /\ hi = nil => 2 * Width \in G
  /\ hi # nil => hi \in Exponents /\ hi \in G

(* What the proofs use of the powers: the largest shift, of any integer    *)
(* but zero, and an end of the box, however shifted left, are beyond the   *)
(* bounds; an end of the box shifted right is still beyond Small, and a    *)
(* bound next to zero is shifted out by the largest shift.                 *)
Largest == 2^(2 * Width)
LEMMA ShiftFacts ==
  /\ Small \in Nat /\ Box \in Nat /\ 2 * Width \in Exponents /\ Small \in Exponents
  /\ 2^Small \in Int /\ 1 <= 2^Small /\ Small * 2^Small \in Int /\ 0 <= Small * 2^Small
  /\ (Small + 1) * 2^Small = Small * 2^Small + 2^Small
  /\ Small * 2^Small < Box /\ Small + 1 <= Box
  /\ Largest \in Int /\ 1 <= Largest /\ Small * 2^Small < Largest /\ Small + 1 < Largest
<1>1. Small \in Nat /\ Box \in Nat /\ Width \in Nat
  BY IntervalAssumption
<1>2. 2 * Width \in Exponents /\ Small \in Exponents
  BY <1>1 DEF Exponents
<1>3. 2^Small \in Int /\ 1 <= 2^Small /\ Largest \in Int /\ 1 <= Largest
  BY <1>1, <1>2, Powers DEF Largest
<1> DEFINE P == 2^Small
<1> HIDE DEF P
<1>4. P \in Int /\ 1 <= P /\ (Small + 1) * P <= Box /\ (Small + 1) * P < Largest
  BY <1>3, ShiftAssumption DEF P, Largest
<1>5. Small * P \in Int /\ (Small + 1) * P = Small * P + P /\ (Small + 1) * P \in Int
  BY <1>1, <1>4
<1>6. 0 * 0 <= Small * P
  BY <1>1, <1>4, MulPosPos
<1>7. (Small + 1) * 1 <= (Small + 1) * P
  BY <1>1, <1>4, MulPosPos
<1>8. /\ 0 <= Small * P /\ Small * P < Box /\ Small + 1 <= Box
      /\ Small * P < Largest /\ Small + 1 < Largest
  BY <1>1, <1>3, <1>4, <1>5, <1>6, <1>7
<1> QED BY <1>1, <1>2, <1>3, <1>5, <1>8 DEF P

(* Left shifts beyond the bounds.                                          *)
LEMMA LeftBeyond ==
  ASSUME NEW n \in Exponents, NEW a \in Int
  PROVE  /\ Box * 2^n > Small * 2^Small /\ (-Box) * 2^n < -(Small * 2^Small)
         /\ a > 0 => a * Largest > Small * 2^Small
         /\ a < 0 => a * Largest < -(Small * 2^Small)
<1>1. n \in Int
  BY IntervalAssumption DEF Exponents
<1>2. 2^n \in Int /\ 1 <= 2^n
  BY <1>1, Powers
<1> DEFINE N == 2^n
           F == Small * 2^Small
<1>3. N \in Int /\ 1 <= N
  BY <1>2
<1>4. Box \in Nat /\ F \in Int /\ F < Box /\ Largest \in Int /\ 1 <= Largest /\ F < Largest
  BY ShiftFacts
<1> HIDE DEF N, F
<1>5. Box * N > F /\ Box * N \in Int
  <2>1. Box * 1 <= Box * N
    BY <1>3, <1>4, MulPosPos
  <2>2. Box * N \in Int
    BY <1>3, <1>4
  <2> QED BY <1>4, <2>1, <2>2
<1>6. (-Box) * N < -F
  <2>1. (-Box) * N = -(Box * N)
    BY <1>3, <1>4
  <2> QED BY <1>4, <1>5, <2>1
<1>7. ASSUME NEW c \in Int, c > 0 PROVE c * Largest > F /\ c * Largest \in Int
  <2>1. 1 * Largest <= c * Largest
    BY <1>4, <1>7, MulPosPos
  <2>2. c * Largest \in Int
    BY <1>4, <1>7
  <2> QED BY <1>4, <2>1, <2>2
<1>8. a < 0 => a * Largest < -F
  <2>1. a < 0 => (-a) * Largest > F
    BY <1>7
  <2>2. (-a) * Largest = -(a * Largest) /\ a * Largest \in Int
    BY <1>4
  <2> QED BY <1>4, <2>1, <2>2
<1> QED BY <1>5, <1>6, <1>7, <1>8 DEF N, F

(* The corners of Lsh for negative integers.                               *)
LEMMA LshNegativeReached ==
  ASSUME NEW p, NEW lo, NEW hi, NEW E, NEW G, NEW V,
         LeftShifts(V, E, G), NegPart(p, E), ShiftPart(lo, hi, G)
  PROVE  /\ LowReached(Bound(TRUE, p.lo, hi, NegInf), V, Small * 2^Small)
         /\ HighReached(Finite(combine(TRUE, p.hi, lo)), V, Small * 2^Small)
<1> DEFINE F == Small * 2^Small
<1>0. lo \in Int /\ (hi # nil => hi \in Int)
  BY IntervalAssumption DEF ShiftPart, Exponents
<1>1. 2^lo \in Int /\ (hi # nil => 2^hi \in Int)
  BY <1>0, Powers DEF ShiftPart
<1>2. p.hi * 2^lo \in V /\ p.hi * 2^lo \in Int
  BY <1>1 DEF LeftShifts, NegPart, ShiftPart
<1>3. HighReached(Finite(p.hi * 2^lo), V, F)
  BY <1>2, FiniteReached
<1>4. HighReached(Finite(combine(TRUE, p.hi, lo)), V, F)
  BY <1>3 DEF combine, bigIntLsh
<1>5. CASE p.lo = nil
  <2>1. (-Box) * 2^lo \in V
    BY <1>5 DEF LeftShifts, NegPart, ShiftPart
  <2>2. (-Box) * 2^lo < -F
    BY <1>0, LeftBeyond DEF ShiftPart
  <2>3. LowReached(NegInf, V, F)
    BY <2>1, <2>2, InfiniteReached
  <2> QED BY <1>4, <1>5, <2>3 DEF Bound
<1>6. CASE p.lo # nil /\ hi = nil
  <2>1. p.hi * Largest \in V
    BY <1>6 DEF LeftShifts, NegPart, ShiftPart, Largest
  <2>2. p.hi * Largest < -F
    BY LeftBeyond DEF NegPart, ShiftPart
  <2>3. LowReached(NegInf, V, F)
    BY <2>1, <2>2, InfiniteReached
  <2> QED BY <1>4, <1>6, <2>3 DEF Bound
<1>7. CASE p.lo # nil /\ hi # nil
  <2>1. p.lo * 2^hi \in V /\ p.lo * 2^hi \in Int
    BY <1>1, <1>7 DEF LeftShifts, NegPart, ShiftPart
  <2>2. LowReached(Finite(p.lo * 2^hi), V, F)
    BY <2>1, FiniteReached
  <2> QED BY <1>4, <1>7, <2>2 DEF Bound, combine, bigIntLsh
<1> QED BY <1>5, <1>6, <1>7

(* The same for positive integers.                                         *)
LEMMA LshPositiveReached ==
  ASSUME NEW p, NEW lo, NEW hi, NEW E, NEW G, NEW V,
         LeftShifts(V, E, G), PosPart(p, E), ShiftPart(lo, hi, G)
  PROVE  /\ HighReached(Bound(TRUE, p.hi, hi, PosInf), V, Small * 2^Small)
         /\ LowReached(Finite(combine(TRUE, p.lo, lo)), V, Small * 2^Small)
<1> DEFINE F == Small * 2^Small
<1>0. lo \in Int /\ (hi # nil => hi \in Int)
  BY IntervalAssumption DEF ShiftPart, Exponents
<1>1. 2^lo \in Int /\ (hi # nil => 2^hi \in Int)
  BY <1>0, Powers DEF ShiftPart
<1>2. p.lo * 2^lo \in V /\ p.lo * 2^lo \in Int
  BY <1>1 DEF LeftShifts, PosPart, ShiftPart
<1>3. LowReached(Finite(p.lo * 2^lo), V, F)
  BY <1>2, FiniteReached
<1>4. LowReached(Finite(combine(TRUE, p.lo, lo)), V, F)
  BY <1>3 DEF combine, bigIntLsh
<1>5. CASE p.hi = nil
  <2>1. Box * 2^lo \in V
    BY <1>5 DEF LeftShifts, PosPart, ShiftPart
  <2>2. Box * 2^lo > F
    BY <1>0, LeftBeyond DEF ShiftPart
  <2>3. HighReached(PosInf, V, F)
    BY <2>1, <2>2, InfiniteReached
  <2> QED BY <1>4, <1>5, <2>3 DEF Bound
<1>6. CASE p.hi # nil /\ hi = nil
  <2>1. p.lo * Largest \in V
    BY <1>6 DEF LeftShifts, PosPart, ShiftPart, Largest
  <2>2. p.lo * Largest > F
    BY LeftBeyond DEF PosPart, ShiftPart
  <2>3. HighReached(PosInf, V, F)
    BY <2>1, <2>2, InfiniteReached
  <2> QED BY <1>4, <1>6, <2>3 DEF Bound
<1>7. CASE p.hi # nil /\ hi # nil
  <2>1. p.hi * 2^hi \in V /\ p.hi * 2^hi \in Int
    BY <1>1, <1>7 DEF LeftShifts, PosPart, ShiftPart
  <2>2. HighReached(Finite(p.hi * 2^hi), V, F)
    BY <2>1, FiniteReached
  <2> QED BY <1>4, <1>7, <2>2 DEF Bound, combine, bigIntLsh
<1> QED BY <1>5, <1>6, <1>7

(* What a range shifts by, of the integers that the reference looks at.    *)
Shiftable(s) == {j \in Elements(s) : j <= 2 * Width}

LEMMA ShiftEnds ==
  ASSUME NEW s \in IntRanges, IsSmall(s), ~Empty(s), ~ContainsNegative(s)
  PROVE  /\ s.lo \in Int /\ s.lo <= Small /\ Contains(s, s.lo) /\ Shifts(s)
         /\ ShiftPart(s.lo, s.hi, Shiftable(s))
         /\ ~split(s).posEmpty =>
              ShiftPart(split(s).pos.lo, split(s).pos.hi, Shiftable(s))
<1>1. /\ nil \notin Int /\ Box \in Int /\ Small \in Nat /\ Box > 3 * Small
      /\ s.lo # nil => s.lo \in Int /\ s.lo \in Elements(s) /\ -Small <= s.lo /\ s.lo <= Small
      /\ s.hi # nil => s.hi \in Int /\ s.hi \in Elements(s) /\ -Small <= s.hi /\ s.hi <= Small
      /\ s.lo = nil => -Box \in Elements(s)
      /\ s.hi = nil => Box \in Elements(s)
  BY EndsReached
<1>2. Width \in Nat /\ Small < 2 * Width /\ 2 * Width <= Box
  BY IntervalAssumption, ShiftAssumption
<1>3. s.lo # nil /\ s \in Ranges
  BY RunRanges DEF ContainsNegative
<1>4. s.lo \in Int /\ s.lo \in Elements(s) /\ s.lo <= Small /\ Contains(s, s.lo)
  BY <1>1, <1>3 DEF Elements
<1>5. Shifts(s)
  <2>1. s.lo <= 2 * Width
    BY <1>1, <1>2, <1>4
  <2> QED BY <1>3, <1>4, <2>1, ShiftsOf
<1>6. s.hi = nil => 2 * Width \in Shiftable(s)
  <2>1. SUFFICES ASSUME s.hi = nil PROVE 2 * Width \in Shiftable(s)
    OBVIOUS
  <2>2. 2 * Width \in Int /\ -Box <= 2 * Width /\ 2 * Width <= Box
    BY <1>1, <1>2
  <2>3. Contains(s, 2 * Width)
    BY <1>1, <1>2, <1>4, <2>1 DEF Contains
  <2>4. 2 * Width \in Elements(s)
    BY <2>2, <2>3, InElements
  <2> QED BY <2>2, <2>4 DEF Shiftable
<1>7. s.hi # nil => s.hi \in Shiftable(s) /\ s.hi \in Exponents
  <2>1. SUFFICES ASSUME s.hi # nil PROVE s.hi \in Shiftable(s) /\ s.hi \in Exponents
    OBVIOUS
  <2>2. s.hi \in Elements(s) /\ s.hi <= 2 * Width
    BY <1>1, <1>2, <2>1
  <2> QED BY <1>5, <2>1, <2>2 DEF Shiftable, Shifts
<1>8. s.lo \in Shiftable(s) /\ s.lo \in Exponents
  <2>1. s.lo <= 2 * Width
    BY <1>1, <1>2, <1>4
  <2> QED BY <1>4, <1>5, <2>1 DEF Shiftable, Shifts
<1>9. ShiftPart(s.lo, s.hi, Shiftable(s))
  BY <1>6, <1>7, <1>8 DEF ShiftPart
<1>10. ASSUME ~split(s).posEmpty
       PROVE  ShiftPart(split(s).pos.lo, split(s).pos.hi, Shiftable(s))
  <2>1. PosPart(split(s).pos, Elements(s))
    BY <1>10, SplitReached DEF PartsReached
  <2>2. split(s).pos.hi = s.hi /\ split(s).pos.lo \in Exponents
    BY <1>3, <1>4, <1>5, SplitShifts
  <2>3. split(s).pos.lo \in Int /\ split(s).pos.lo \in Elements(s) /\ split(s).pos.lo <= Small + 1
    BY <2>1 DEF PosPart
  <2>4. split(s).pos.lo \in Shiftable(s)
    BY <1>1, <1>2, <2>3 DEF Shiftable
  <2> QED BY <1>6, <1>7, <2>2, <2>4 DEF ShiftPart
<1> QED BY <1>4, <1>5, <1>9, <1>10

(* Both bounds of the range that Lsh returns are reached.                  *)
LEMMA LshReached ==
  ASSUME NEW r \in IntRanges, NEW s \in IntRanges, IsSmall(r), IsSmall(s),
         ~Empty(r), ~Empty(s), ~ContainsNegative(s),
         NEW V, LeftShifts(V, Elements(r), Shiftable(s))
  PROVE  RangeReached(mulLsh(r, s, TRUE), V, Small * 2^Small)
<1> DEFINE X == split(r)
           Y == split(s)
           E == Elements(r)
           G == Shiftable(s)
           F == Small * 2^Small
           start == IF Y.hasZero THEN fromIntRange(r)
                    ELSE IF X.hasZero THEN fromIntRange(zero) ELSE newBiggerIntPair
           cn == ~X.negEmpty /\ ~Y.posEmpty
           cp == ~X.posEmpty /\ ~Y.posEmpty
           ln == Bound(TRUE, X.neg.lo, Y.pos.hi, NegInf)
           hn == Finite(combine(TRUE, X.neg.hi, Y.pos.lo))
           lp == Finite(combine(TRUE, X.pos.lo, Y.pos.lo))
           hp == Bound(TRUE, X.pos.hi, Y.pos.hi, PosInf)
           np == Widen(start, cn, ln, hn)
           pp == Widen(np, cp, lp, hp)
<1>nil. nil \notin Int
  BY IntervalAssumption
<1>s. /\ s.lo \in Int /\ Contains(s, s.lo) /\ Shifts(s) /\ ShiftPart(s.lo, s.hi, G)
      /\ ~Y.posEmpty => ShiftPart(Y.pos.lo, Y.pos.hi, G)
  BY ShiftEnds
<1>r. r \in Ranges /\ s \in Ranges
  BY RunRanges
<1>b. s.lo \in Exponents /\ s.lo \in G
  BY <1>s DEF ShiftPart
<1>w. 2^(s.lo) \in Int
  BY <1>s, <1>b, Powers
<1>1. PICK i \in E : i \in Int
  BY SomeElement
<1>2. i * 2^(s.lo) \in Int /\ Contains(mulLsh(r, s, TRUE), i * 2^(s.lo))
  <2>1. Contains(r, i)
    BY <1>1 DEF Elements
  <2>2. Contains(mulLsh(r, s, TRUE), i * 2^(s.lo))
    BY <1>1, <1>b, <1>r, <1>s, <2>1, LshSound
  <2>3. i * 2^(s.lo) \in Int
    BY <1>1, <1>w
  <2> QED BY <2>2, <2>3
<1>3. 0 \in E => 0 \in V
  <2>1. 0 \in E => 0 * 2^(s.lo) \in V
    BY <1>b DEF LeftShifts
  <2>2. 0 * 2^(s.lo) = 0
    BY <1>w
  <2> QED BY <2>1, <2>2
<1>4. CASE justZero(r)
  <2>1. mulLsh(r, s, TRUE) = zero
    BY <1>4 DEF mulLsh
  <2>2. 0 \in E
    BY <1>4, EmptyMeansNoElements DEF justZero
  <2>3. zero.lo = 0 /\ zero.hi = 0
    BY DEF zero, IntRange
  <2> HIDE DEF E, F
  <2>4. RangeReached(zero, V, F)
    BY <1>nil, <1>3, <2>2, <2>3 DEF RangeReached
  <2> QED BY <2>1, <2>4 DEF F
<1>5. CASE ~justZero(r)
  <2>y. Y.negEmpty /\ (Y.hasZero <=> s.lo = 0)
    BY <1>r, <1>s, SplitShifts
  <2>1. mulLsh(r, s, TRUE) = toIntRange(pp)
    BY <1>5, <2>y DEF mulLsh, Widen
  <2>2. PartsReached(X, E) /\ Y.posEmpty \in BOOLEAN
    BY SplitReached DEF PartsReached
  <2>3. s.lo = 0 => PairReached(fromIntRange(r), V, F)
    <3>1. SUFFICES ASSUME s.lo = 0 PROVE PairReached(fromIntRange(r), V, F)
      OBVIOUS
    <3>2. ASSUME NEW a \in E, a \in Int PROVE a \in V
      <4>1. a * 2^(s.lo) \in V
        BY <1>b DEF LeftShifts
      <4>2. 2^(s.lo) = 1
        BY <3>1
      <4> QED BY <3>2, <4>1, <4>2
    <3>3. /\ Box \in Int
          /\ r.lo # nil => r.lo \in Int /\ r.lo \in E
          /\ r.hi # nil => r.hi \in Int /\ r.hi \in E
          /\ r.lo = nil => -Box \in E
          /\ r.hi = nil => Box \in E
      BY EndsReached
    <3>4. F \in Int /\ F < Box
      BY ShiftFacts
    <3> DEFINE low == IF r.lo # nil THEN Finite(r.lo) ELSE NegInf
               high == IF r.hi # nil THEN Finite(r.hi) ELSE PosInf
    <3> HIDE DEF E, F
    <3>5. LowReached(low, V, F)
      <4>1. CASE r.lo # nil
        BY <3>2, <3>3, <4>1, FiniteReached
      <4>2. CASE r.lo = nil
        <5>1. -Box \in V /\ -Box < -F
          BY <3>2, <3>3, <3>4, <4>2
        <5> QED BY <4>2, <5>1, InfiniteReached
      <4> QED BY <4>1, <4>2
    <3>6. HighReached(high, V, F)
      <4>1. CASE r.hi # nil
        BY <3>2, <3>3, <4>1, FiniteReached
      <4>2. CASE r.hi = nil
        <5>1. Box \in V /\ Box > F
          BY <3>2, <3>3, <3>4, <4>2
        <5> QED BY <4>2, <5>1, InfiniteReached
      <4> QED BY <4>1, <4>2
    <3>7. fromIntRange(r) = [min |-> low, max |-> high]
      BY DEF fromIntRange
    <3> HIDE DEF low, high
    <3>8. fromIntRange(r).min = low /\ fromIntRange(r).max = high
      BY <3>7
    <3> QED BY <3>5, <3>6, <3>8 DEF PairReached
  <2>4. LeftShifts(V, E, G)
    OBVIOUS
  <2> HIDE DEF X, Y, E, G, F
  <2>5. cn \in BOOLEAN /\ cp \in BOOLEAN
    OBVIOUS
  <2>6. PairReached(start, V, F)
    <3>1. X.hasZero => 0 \in V
      BY <1>3, <2>2 DEF PartsReached
    <3> QED BY <2>3, <2>y, <3>1, StartReached
  <2>7. cn => LowReached(ln, V, F) /\ HighReached(hn, V, F)
    BY <1>s, <2>2, <2>4, LshNegativeReached DEF PartsReached, F
  <2>8. cp => LowReached(lp, V, F) /\ HighReached(hp, V, F)
    BY <1>s, <2>2, <2>4, LshPositiveReached DEF PartsReached, F
  <2> HIDE DEF start, cn, cp, ln, hn, lp, hp
  <2>11. PairReached(np, V, F)
    BY <2>5, <2>6, <2>7, WidenReached
  <2> HIDE DEF np
  <2>12. PairReached(pp, V, F)
    BY <2>5, <2>8, <2>11, WidenReached
  <2> HIDE DEF pp
  <2>13. RangeReached(toIntRange(pp), V, F)
    BY <1>2, <2>1, <2>12, ToIntRangeReached
  <2> QED BY <2>1, <2>13 DEF F
<1> QED BY <1>4, <1>5

(* An end of the box, shifted right by a bound, is beyond the bounds, and  *)
(* the largest shift leaves only the sign of a bound next to zero.         *)
LEMMA RightBeyond ==
  ASSUME NEW n \in Exponents, n <= Small, NEW d \in Int
  PROVE  /\ Box \div 2^n > Small /\ (-Box) \div 2^n < -Small
         /\ 0 < d /\ d <= Small + 1 => d \div Largest = 0
         /\ d < 0 /\ -(Small + 1) <= d => d \div Largest = -1
<1>1. n \in Int
  BY IntervalAssumption DEF Exponents
<1> DEFINE N == 2^n
           P == 2^Small
<1>2. N \in Int /\ 1 <= N /\ P \in Int /\ N <= P
  BY <1>1, ShiftFacts, Powers
<1>3. /\ Small \in Nat /\ Box \in Nat /\ Small * P \in Int /\ (Small + 1) * P = Small * P + P
      /\ Small * P < Box /\ Largest \in Int /\ Small + 1 < Largest /\ 1 <= P
  BY ShiftFacts
<1>4. (Small + 1) * P <= Box
  BY ShiftAssumption
<1> HIDE DEF N, P
<1>5. Box \div N > Small
  <2> DEFINE q == Box \div N
  <2>1. q \in Int /\ Box < q * N + N /\ 0 <= q
    BY <1>2, <1>3, SMTT(30)
  <2> HIDE DEF q
  <2>2. CASE q <= Small
    <3>1. (q + 1) * N <= (Small + 1) * P
      BY <1>2, <1>3, <2>1, <2>2, MulPosPos
    <3>2. (q + 1) * N = q * N + N /\ q * N \in Int
      BY <1>2, <2>1
    <3> QED BY <1>2, <1>3, <1>4, <2>1, <3>1, <3>2
  <2> QED BY <1>3, <2>1, <2>2 DEF q
<1>6. (-Box) \div N < -Small
  <2> DEFINE q == (-Box) \div N
  <2>1. q \in Int /\ q * N <= -Box
    BY <1>2, <1>3, SMTT(30)
  <2> HIDE DEF q
  <2>2. q * N \in Int
    BY <1>2, <2>1
  <2>3. q >= 0 => q * N >= 0
    <3>1. q >= 0 => 0 * 0 <= q * N
      BY <1>2, <2>1, MulPosPos
    <3> QED BY <3>1
  <2>4. CASE -Small <= q /\ q < 0
    <3>1. (-Small) * P <= q * N
      BY <1>2, <1>3, <2>1, <2>4, MulNegPos
    <3>2. (-Small) * P = -(Small * P)
      BY <1>2, <1>3
    <3> QED BY <1>3, <2>1, <2>2, <3>1, <3>2
  <2>5. Box > 0
    <3>1. 0 * 0 <= Small * P
      BY <1>2, <1>3, MulPosPos
    <3> QED BY <1>3, <3>1
  <2>6. ~(q >= 0)
    BY <1>3, <2>1, <2>2, <2>3, <2>5
  <2> QED BY <1>3, <2>1, <2>4, <2>6 DEF q
<1>7. 0 < d /\ d <= Small + 1 => d \div Largest = 0
  <2>1. 0 < d /\ d <= Small + 1 => 0 <= d /\ d < Largest
    BY <1>3
  <2> QED BY <1>3, <2>1, SMTT(30)
<1>8. d < 0 /\ -(Small + 1) <= d => d \div Largest = -1
  <2>1. d < 0 /\ -(Small + 1) <= d => d < 0 /\ -Largest <= d
    BY <1>3
  <2> QED BY <1>3, <2>1, SMTT(30)
<1> QED BY <1>5, <1>6, <1>7, <1>8 DEF N

(* The corners of Rsh for negative integers.                               *)
LEMMA RshNegativeReached ==
  ASSUME NEW p, NEW lo, NEW hi, NEW E, NEW G, NEW V,
         RightShifts(V, E, G), NegPart(p, E), ShiftPart(lo, hi, G), lo <= Small
  PROVE  /\ LowReached(Shifted(p.lo, lo, NegInf, -1), V, Small)
         /\ HighReached(Shifted(p.hi, hi, PosInf, -1), V, Small)
<1>0. nil \notin Int /\ lo \in Int /\ (hi # nil => hi \in Int)
  BY IntervalAssumption DEF ShiftPart, Exponents
<1>1. 2^lo \in Int /\ 1 <= 2^lo /\ (hi # nil => 2^hi \in Int /\ 1 <= 2^hi)
  BY <1>0, Powers DEF ShiftPart
<1>i. ASSUME NEW a \in Int, NEW d \in Int, 1 <= d PROVE a \div d \in Int
  BY <1>i, SMTT(30)
<1>2. LowReached(Shifted(p.lo, lo, NegInf, -1), V, Small)
  <2>1. CASE p.lo = nil
    <3>1. (-Box) \div 2^lo \in V
      BY <2>1 DEF RightShifts, NegPart, ShiftPart
    <3>2. (-Box) \div 2^lo < -Small
      BY RightBeyond DEF ShiftPart
    <3>3. LowReached(NegInf, V, Small)
      BY <3>1, <3>2, InfiniteReached
    <3> QED BY <2>1, <3>3 DEF Shifted
  <2>2. CASE p.lo # nil
    <3>1. p.lo \div 2^lo \in V
      BY <2>2 DEF RightShifts, NegPart, ShiftPart
    <3>2. p.lo \div 2^lo \in Int
      BY <1>1, <1>i, <2>2 DEF NegPart
    <3>3. LowReached(Finite(p.lo \div 2^lo), V, Small)
      BY <3>1, <3>2, FiniteReached
    <3>4. Shifted(p.lo, lo, NegInf, -1) = Finite(p.lo \div 2^lo)
      BY <1>0, <2>2 DEF Shifted, bigIntRsh
    <3> QED BY <3>3, <3>4
  <2> QED BY <2>1, <2>2
<1>3. HighReached(Shifted(p.hi, hi, PosInf, -1), V, Small)
  <2>1. CASE hi = nil
    <3>1. p.hi \div Largest \in V
      BY <2>1 DEF RightShifts, NegPart, ShiftPart, Largest
    <3>2. p.hi \div Largest = -1
      BY RightBeyond DEF ShiftPart, NegPart
    <3>3. HighReached(Finite(-1), V, Small)
      BY <3>1, <3>2, FiniteReached
    <3>4. Shifted(p.hi, hi, PosInf, -1) = Finite(-1)
      BY <1>0, <2>1 DEF Shifted, NegPart
    <3> QED BY <3>3, <3>4
  <2>2. CASE hi # nil
    <3>1. p.hi \div 2^hi \in V
      BY <2>2 DEF RightShifts, NegPart, ShiftPart
    <3>2. p.hi \div 2^hi \in Int
      BY <1>1, <1>i, <2>2 DEF NegPart
    <3>3. HighReached(Finite(p.hi \div 2^hi), V, Small)
      BY <3>1, <3>2, FiniteReached
    <3>4. Shifted(p.hi, hi, PosInf, -1) = Finite(p.hi \div 2^hi)
      BY <1>0, <2>2 DEF Shifted, bigIntRsh, NegPart
    <3> QED BY <3>3, <3>4
  <2> QED BY <2>1, <2>2
<1> QED BY <1>2, <1>3

(* The same for positive integers.                                         *)
LEMMA RshPositiveReached ==
  ASSUME NEW p, NEW lo, NEW hi, NEW E, NEW G, NEW V,
         RightShifts(V, E, G), PosPart(p, E), ShiftPart(lo, hi, G), lo <= Small
  PROVE  /\ LowReached(Shifted(p.lo, hi, NegInf, 0), V, Small)
         /\ HighReached(Shifted(p.hi, lo, PosInf, 0), V, Small)
<1>0. nil \notin Int /\ lo \in Int /\ (hi # nil => hi \in Int)
  BY IntervalAssumption DEF ShiftPart, Exponents
<1>1. 2^lo \in Int /\ 1 <= 2^lo /\ (hi # nil => 2^hi \in Int /\ 1 <= 2^hi)
  BY <1>0, Powers DEF ShiftPart
<1>i. ASSUME NEW a \in Int, NEW d \in Int, 1 <= d PROVE a \div d \in Int
  BY <1>i, SMTT(30)
<1>2. HighReached(Shifted(p.hi, lo, PosInf, 0), V, Small)
  <2>1. CASE p.hi = nil
    <3>1. Box \div 2^lo \in V
      BY <2>1 DEF RightShifts, PosPart, ShiftPart
    <3>2. Box \div 2^lo > Small
      BY RightBeyond DEF ShiftPart
    <3>3. HighReached(PosInf, V, Small)
      BY <3>1, <3>2, InfiniteReached
    <3> QED BY <2>1, <3>3 DEF Shifted
  <2>2. CASE p.hi # nil
    <3>1. p.hi \div 2^lo \in V
      BY <2>2 DEF RightShifts, PosPart, ShiftPart
    <3>2. p.hi \div 2^lo \in Int
      BY <1>1, <1>i, <2>2 DEF PosPart
    <3>3. HighReached(Finite(p.hi \div 2^lo), V, Small)
      BY <3>1, <3>2, FiniteReached
    <3>4. Shifted(p.hi, lo, PosInf, 0) = Finite(p.hi \div 2^lo)
      BY <1>0, <2>2 DEF Shifted, bigIntRsh
    <3> QED BY <3>3, <3>4
  <2> QED BY <2>1, <2>2
<1>3. LowReached(Shifted(p.lo, hi, NegInf, 0), V, Small)
  <2>1. CASE hi = nil
    <3>1. p.lo \div Largest \in V
      BY <2>1 DEF RightShifts, PosPart, ShiftPart, Largest
    <3>2. p.lo \div Largest = 0
      BY RightBeyond DEF ShiftPart, PosPart
    <3>3. LowReached(Finite(0), V, Small)
      BY <3>1, <3>2, FiniteReached
    <3>4. Shifted(p.lo, hi, NegInf, 0) = Finite(0)
      BY <1>0, <2>1 DEF Shifted, PosPart
    <3> QED BY <3>3, <3>4
  <2>2. CASE hi # nil
    <3>1. p.lo \div 2^hi \in V
      BY <2>2 DEF RightShifts, PosPart, ShiftPart
    <3>2. p.lo \div 2^hi \in Int
      BY <1>1, <1>i, <2>2 DEF PosPart
    <3>3. LowReached(Finite(p.lo \div 2^hi), V, Small)
      BY <3>1, <3>2, FiniteReached
    <3>4. Shifted(p.lo, hi, NegInf, 0) = Finite(p.lo \div 2^hi)
      BY <1>0, <2>2 DEF Shifted, bigIntRsh, PosPart
    <3> QED BY <3>3, <3>4
  <2> QED BY <2>1, <2>2
<1> QED BY <1>2, <1>3

(* Both bounds of the range that Rsh returns are reached.                  *)
LEMMA RshReached ==
  ASSUME NEW r \in IntRanges, NEW s \in IntRanges, IsSmall(r), IsSmall(s),
         ~Empty(r), ~Empty(s), ~ContainsNegative(s),
         NEW V, RightShifts(V, Elements(r), Shiftable(s))
  PROVE  RangeReached(Rsh(r, s).z, V, Small)
<1> DEFINE X == split(r)
           E == Elements(r)
           G == Shiftable(s)
           start == IF X.hasZero THEN fromIntRange(zero) ELSE newBiggerIntPair
           cn == ~X.negEmpty
           cp == ~X.posEmpty
           ln == Shifted(X.neg.lo, s.lo, NegInf, -1)
           hn == Shifted(X.neg.hi, s.hi, PosInf, -1)
           lp == Shifted(X.pos.lo, s.hi, NegInf, 0)
           hp == Shifted(X.pos.hi, s.lo, PosInf, 0)
           neg == Widen(start, cn, ln, hn)
           pos == Widen(neg, cp, lp, hp)
<1>nil. nil \notin Int
  BY IntervalAssumption
<1>s. /\ s.lo \in Int /\ s.lo <= Small /\ Contains(s, s.lo) /\ Shifts(s)
      /\ ShiftPart(s.lo, s.hi, G)
  BY ShiftEnds
<1>r. r \in Ranges /\ s \in Ranges
  BY RunRanges
<1>b. s.lo \in Exponents /\ s.lo \in G
  BY <1>s DEF ShiftPart
<1>w. 2^(s.lo) \in Int /\ 1 <= 2^(s.lo)
  BY <1>s, <1>b, Powers
<1>i. ASSUME NEW a \in Int, NEW d \in Int, 1 <= d PROVE a \div d \in Int /\ 0 \div d = 0
  BY <1>i, SMTT(30)
<1>1. PICK i \in E : i \in Int
  BY SomeElement
<1>2. i \div 2^(s.lo) \in Int /\ Contains(Rsh(r, s).z, i \div 2^(s.lo))
  <2>1. Contains(r, i)
    BY <1>1 DEF Elements
  <2>2. Contains(Rsh(r, s).z, i \div 2^(s.lo))
    BY <1>1, <1>b, <1>r, <1>s, <2>1, RshSound
  <2>3. i \div 2^(s.lo) \in Int
    BY <1>1, <1>i, <1>w
  <2> QED BY <2>2, <2>3
<1>3. 0 \in E => 0 \in V
  <2>1. 0 \in E => 0 \div 2^(s.lo) \in V
    BY <1>b DEF RightShifts
  <2>2. 0 \div 2^(s.lo) = 0
    BY <1>i, <1>w
  <2> QED BY <2>1, <2>2
<1>4. CASE justZero(r)
  <2>1. Rsh(r, s).z = zero
    BY <1>4 DEF Rsh, Success
  <2>2. 0 \in E
    BY <1>4, EmptyMeansNoElements DEF justZero
  <2>3. zero.lo = 0 /\ zero.hi = 0
    BY DEF zero, IntRange
  <2> QED BY <1>nil, <1>3, <2>1, <2>2, <2>3 DEF RangeReached
<1>5. CASE ~justZero(r)
  <2>1. Rsh(r, s).z = toIntRange(pos)
    BY <1>5 DEF Rsh, Success
  <2>2. PartsReached(X, E)
    BY SplitReached
  <2>3. RightShifts(V, E, G)
    OBVIOUS
  <2> HIDE DEF X, E, G
  <2>4. cn \in BOOLEAN /\ cp \in BOOLEAN
    OBVIOUS
  <2>5. PairReached(start, V, Small)
    BY <1>3, <2>2, StartReached DEF PartsReached
  <2>6. cn => LowReached(ln, V, Small) /\ HighReached(hn, V, Small)
    BY <1>s, <2>2, <2>3, RshNegativeReached DEF PartsReached
  <2>7. cp => LowReached(lp, V, Small) /\ HighReached(hp, V, Small)
    BY <1>s, <2>2, <2>3, RshPositiveReached DEF PartsReached
  <2> HIDE DEF start, cn, cp, ln, hn, lp, hp
  <2>8. PairReached(neg, V, Small)
    BY <2>4, <2>5, <2>6, WidenReached
  <2> HIDE DEF neg
  <2>9. PairReached(pos, V, Small)
    BY <2>4, <2>7, <2>8, WidenReached
  <2> HIDE DEF pos
  <2>10. RangeReached(toIntRange(pos), V, Small)
    BY <1>2, <2>1, <2>9, ToIntRangeReached
  <2> QED BY <2>1, <2>10
<1> QED BY <1>4, <1>5

(* Of an empty range every operation makes an empty one.                   *)
LEMMA EmptyResult ==
  ASSUME NEW r, NEW s, Empty(r) \/ Empty(s)
  PROVE  /\ Add(r, s) = empty /\ Sub(r, s) = empty
         /\ \A shift : mulLsh(r, s, shift) = empty
         /\ Quo(r, s).z = empty /\ Rsh(r, s).z = empty
         /\ Lsh(r, s).ok => Lsh(r, s).z = empty
         /\ Empty(empty)
<1>1. Empty(empty)
  BY IntervalAssumption DEF Empty, empty, IntRange
<1>2. \A shift : mulLsh(r, s, shift) = empty
  BY DEF mulLsh
<1>3. Quo(r, s).z = empty /\ Rsh(r, s).z = empty
  BY DEF Quo, Rsh, Success
<1>4. Lsh(r, s).ok => Lsh(r, s).z = empty
  BY <1>2 DEF Lsh, Success, Failure
<1> QED BY <1>1, <1>2, <1>3, <1>4 DEF Add, Sub

(* For all ranges, whatever the bounds of a run: a call of Add, Sub, Mul,  *)
(* Quo, Lsh or Rsh that succeeds returns no larger a range than it must.   *)
(* Each finite bound is the result for two integers of the operands, each  *)
(* infinite one has results beyond all finite bounds, and only if an       *)
(* operand is empty is the result; Sub of rays is the exception.           *)
LEMMA TightArithmetic == Spec => [](op \in Arithmetic => Tight)
<1>1. Returned => (op \in Arithmetic => Tight)
  <2> DEFINE V == {Apply(i, j) : i \in Elements(x), j \in Operands(y)}
  <2>1. SUFFICES ASSUME Returned, op \in Arithmetic, ok, ~SubOfRays PROVE Exact
    BY DEF Tight
  <2>2. x \in IntRanges /\ y \in IntRanges /\ IsSmall(x) /\ IsSmall(y)
    BY <2>1 DEF Returned, Arithmetic
  <2>3. (Empty(x) <=> Elements(x) = {}) /\ (Empty(y) <=> Elements(y) = {})
    BY <2>2, EmptyMeansNoElements
  <2>4. CASE Empty(x) \/ Empty(y)
    <3>1. z = empty /\ Empty(empty)
      BY <2>1, <2>4, EmptyResult DEF Returned, Arithmetic, Mul
    <3> QED BY <2>3, <2>4, <3>1 DEF Exact
  <2>5. CASE ~Empty(x) /\ ~Empty(y)
    <3>1. \A i \in Elements(x), j \in Operands(y) : Apply(i, j) \in V
      OBVIOUS
    <3>2. RangeReached(z, V, Far)
      <4>1. CASE op = "Add"
        <5>1. Sums(V, Elements(x), Elements(y))
          BY <3>1, <4>1 DEF Sums, Operands, Apply
        <5> HIDE DEF V
        <5>2. RangeReached(Add(x, y), V, 2 * Small)
          BY <2>2, <2>5, <5>1, AddReached
        <5>3. z = Add(x, y) /\ Far = 2 * Small
          BY <2>1, <4>1 DEF Returned, Far
        <5> QED BY <5>2, <5>3
      <4>2. CASE op = "Sub"
        <5>1. Differences(V, Elements(x), Elements(y))
          BY <3>1, <4>2 DEF Differences, Operands, Apply
        <5>2. ~Rays(x, y)
          BY <2>1, <4>2 DEF SubOfRays, Rays
        <5> HIDE DEF V
        <5>3. RangeReached(Sub(x, y), V, 2 * Small)
          BY <2>2, <2>5, <5>1, <5>2, SubReached
        <5>4. z = Sub(x, y) /\ Far = 2 * Small
          BY <2>1, <4>2 DEF Returned, Far
        <5> QED BY <5>3, <5>4
      <4>3. CASE op = "Mul"
        <5>1. Products(V, Elements(x), Elements(y))
          BY <3>1, <4>3 DEF Products, Operands, Apply
        <5> HIDE DEF V
        <5>2. RangeReached(Mul(x, y), V, Small * Small)
          BY <2>2, <2>5, <5>1, MulReached
        <5>3. z = Mul(x, y) /\ Far = Small * Small
          BY <2>1, <4>3 DEF Returned, Far
        <5> QED BY <5>2, <5>3
      <4>4. CASE op = "Quo"
        <5>1. Quotients(V, Elements(x), Elements(y))
          BY <3>1, <4>4 DEF Quotients, Operands, Apply
        <5>2. z = Quo(x, y).z /\ Quo(x, y).ok /\ Far = Small
          BY <2>1, <4>4 DEF Returned, Far
        <5> HIDE DEF V
        <5>3. RangeReached(Quo(x, y).z, V, Small)
          BY <2>2, <2>5, <5>1, <5>2, QuoReached
        <5> QED BY <5>2, <5>3
      <4>5. CASE op = "Lsh"
        <5>1. LeftShifts(V, Elements(x), Shiftable(y))
          BY <3>1, <4>5 DEF LeftShifts, Operands, Shiftable, Apply
        <5>2. z = Lsh(x, y).z /\ Lsh(x, y).ok /\ Far = Small * 2^Small
          BY <2>1, <4>5 DEF Returned, Far
        <5>3. ~ContainsNegative(y)
          BY <2>5, <5>2, Succeeds
        <5>4. Lsh(x, y).z = mulLsh(x, y, TRUE)
          BY <5>3 DEF Lsh, Success
        <5> HIDE DEF V
        <5>5. RangeReached(mulLsh(x, y, TRUE), V, Small * 2^Small)
          BY <2>2, <2>5, <5>1, <5>3, LshReached
        <5> QED BY <5>2, <5>4, <5>5
      <4>6. CASE op = "Rsh"
        <5>1. RightShifts(V, Elements(x), Shiftable(y))
          BY <3>1, <4>6 DEF RightShifts, Operands, Shiftable, Apply
        <5>2. z = Rsh(x, y).z /\ Rsh(x, y).ok /\ Far = Small
          BY <2>1, <4>6 DEF Returned, Far
        <5>3. ~ContainsNegative(y)
          BY <2>5, <5>2, Succeeds
        <5> HIDE DEF V
        <5>4. RangeReached(Rsh(x, y).z, V, Small)
          BY <2>2, <2>5, <5>1, <5>3, RshReached
        <5> QED BY <5>2, <5>4
      <4> QED BY <2>1, <4>1, <4>2, <4>3, <4>4, <4>5, <4>6 DEF Arithmetic
    <3>3. /\ Reached(z.lo, LAMBDA v : v < -Far)
          /\ Reached(z.hi, LAMBDA v : v > Far)
      BY <3>2 DEF RangeReached, Reached
    <3> QED BY <2>3, <2>5, <3>3 DEF Exact
  <2> QED BY <2>4, <2>5
<1> QED BY <1>1, ReturnedInvariant, PTL

-----------------------------------------------------------------------------
(* Bits, by induction.  A nonempty set of natural numbers has a least      *)
(* element, since strict inclusion of their initial segments is well       *)
(* founded; the least counterexample of a claim is refuted.                *)
LEMMA LeastElement ==
  ASSUME NEW T, T \subseteq Nat, T # {}
  PROVE  \E m \in T : \A k \in T : m <= k
<1> DEFINE U == {0..n : n \in T}
<1>1. U \subseteq FiniteSubsetsOf(Nat)
  <2>1. \A n \in T : IsFiniteSet(0..n) /\ 0..n \subseteq Nat
    BY FS_Interval
  <2> QED BY <2>1 DEF FiniteSubsetsOf
<1>2. U # {}
  OBVIOUS
<1>3. IsWellFoundedOn(StrictSubsetOrdering(Nat), FiniteSubsetsOf(Nat))
  BY FS_StrictSubsetOrderingWellFounded
<1>4. PICK I \in U : \A J \in U : ~(<<J, I>> \in StrictSubsetOrdering(Nat))
  <2> HIDE DEF U
  <2> QED BY <1>1, <1>2, <1>3, WFMin
<1>5. PICK m \in T : I = 0..m
  OBVIOUS
<1>6. ASSUME NEW k \in T, k < m PROVE FALSE
  <2>1. 0..k \in SUBSET Nat /\ 0..m \in SUBSET Nat /\ 0..k \subseteq 0..m
    BY <1>6
  <2>2. m \in 0..m /\ ~(m \in 0..k)
    BY <1>6
  <2>3. <<0..k, 0..m>> \in StrictSubsetOrdering(Nat)
    BY <2>1, <2>2 DEF StrictSubsetOrdering
  <2>4. 0..k \in U
    OBVIOUS
  <2> QED BY <1>4, <1>5, <2>3, <2>4
<1> QED BY <1>6

(* The claim holds for the numbers of T.                                   *)
LEMMA UpTo ==
  ASSUME NEW n \in Nat, NEW T, 0 \in T, \A k \in 0..n - 1 : k \in T => k + 1 \in T
  PROVE  \A k \in 0..n : k \in T
<1> DEFINE U == {k \in 0..n : k \notin T}
<1>1. SUFFICES ASSUME U # {} PROVE FALSE
  OBVIOUS
<1>2. PICK k \in U : \A j \in U : k <= j
  <2>1. U \subseteq Nat
    OBVIOUS
  <2> HIDE DEF U
  <2> QED BY <1>1, <2>1, LeastElement
<1>3. k \in 0..n /\ k \notin T /\ k # 0
  BY <1>2
<1>4. k - 1 \in 0..n - 1 /\ (k - 1) + 1 = k /\ k - 1 \in 0..n /\ ~(k <= k - 1)
  BY <1>3
<1>5. k - 1 \in T
  BY <1>2, <1>4
<1> QED BY <1>3, <1>4, <1>5

LEMMA DownTo ==
  ASSUME NEW n \in Nat, NEW T, n \in T, \A k \in 0..n - 1 : k + 1 \in T => k \in T
  PROVE  \A k \in 0..n : k \in T
<1> DEFINE U == {k \in 0..n : n - k \in T}
<1>1. 0 \in U
  OBVIOUS
<1>2. \A k \in 0..n - 1 : k \in U => k + 1 \in U
  <2>1. ASSUME NEW k \in 0..n - 1, k \in U PROVE k + 1 \in U
    <3>1. n - k \in T /\ n - (k + 1) \in 0..n - 1 /\ (n - (k + 1)) + 1 = n - k
      BY <2>1
    <3>2. n - (k + 1) \in T
      BY <3>1
    <3> QED BY <3>2
  <2> QED BY <2>1
<1>3. \A k \in 0..n : k \in U
  <2> HIDE DEF U
  <2> QED BY <1>1, <1>2, UpTo
<1>4. ASSUME NEW k \in 0..n PROVE k \in T
  <2>1. n - k \in 0..n /\ n - (n - k) = k
    OBVIOUS
  <2>2. n - k \in U
    BY <1>3, <2>1
  <2> QED BY <2>1, <2>2
<1> QED BY <1>4

-----------------------------------------------------------------------------
(* Shifting right, which rounds down.                                      *)
LEMMA Times ==
  ASSUME NEW a \in Int, NEW b \in Int, NEW c \in Nat, a <= b
  PROVE  a * c \in Int /\ b * c \in Int /\ a * c <= b * c
<1> DEFINE d == b - a
<1>1. d \in Nat /\ b = a + d
  OBVIOUS
<1> HIDE DEF d
<1>2. d * c \in Nat /\ (a + d) * c = a * c + d * c /\ a * c \in Int
  BY <1>1
<1> QED BY <1>1, <1>2

LEMMA Floor ==
  ASSUME NEW n \in Int, NEW d \in Nat, 1 <= d
  PROVE  /\ n \div d \in Int /\ (n \div d) * d \in Int
         /\ (n \div d) * d <= n /\ n < (n \div d) * d + d
<1>1. n \div d \in Int
  BY SMTT(30)
<1>2. (n \div d) * d <= n
  BY SMTT(30)
<1>3. n < (n \div d) * d + d
  BY SMTT(30)
<1> QED BY <1>1, <1>2, <1>3

LEMMA FloorUnique ==
  ASSUME NEW n \in Int, NEW d \in Nat, 1 <= d, NEW q \in Int, q * d <= n, n < q * d + d
  PROVE  n \div d = q
<1> DEFINE t == n \div d
<1>1. t \in Int /\ t * d \in Int /\ t * d <= n /\ n < t * d + d
  BY Floor
<1> HIDE DEF t
<1>0. q * d \in Int
  OBVIOUS
<1>2. ASSUME t + 1 <= q PROVE FALSE
  <2>1. (t + 1) * d <= q * d
    BY <1>1, <1>2, Times
  <2>2. t * d + d = (t + 1) * d
    BY <1>1
  <2> QED BY <1>0, <1>1, <2>1, <2>2
<1>3. ASSUME q + 1 <= t PROVE FALSE
  <2>1. (q + 1) * d <= t * d
    BY <1>1, <1>3, Times
  <2>2. q * d + d = (q + 1) * d
    OBVIOUS
  <2> QED BY <1>0, <1>1, <2>1, <2>2
<1>4. t = q
  BY <1>1, <1>2, <1>3
<1> QED BY <1>4 DEF t

Shr(i, n) == i \div 2^n

LEMMA PowersOfBits ==
  ASSUME NEW n \in 0..Width
  PROVE  /\ n \in Nat /\ Width \in Nat /\ 2^n \in Nat /\ 1 <= 2^n
         /\ 2^(n + 1) \in Nat /\ 2^(n + 1) = 2 * 2^n
         /\ \A m \in n..Width : 2^n <= 2^m /\ 2^m \in Nat /\ 1 <= 2^m
<1>1. Width \in Nat /\ Small \in Nat
  BY IntervalAssumption
<1>2. \A m \in 0..Width : m \in Exponents
  BY <1>1 DEF Exponents
<1>3. \A m \in Exponents : /\ 2^m \in Nat /\ 2^m >= 1 /\ 2^(m + 1) = 2 * 2^m
                           /\ \A k \in Exponents : m <= k => 2^m <= 2^k
  BY PowerAssumption
<1>4. \A m \in n..Width : m \in 0..Width /\ n <= m
  BY <1>1
<1>5. 2^n \in Nat /\ 1 <= 2^n /\ 2^(n + 1) = 2 * 2^n
  BY <1>2, <1>3
<1>6. ASSUME NEW m \in n..Width PROVE 2^n <= 2^m /\ 2^m \in Nat /\ 1 <= 2^m
  BY <1>2, <1>3, <1>4
<1> QED BY <1>1, <1>5, <1>6

LEMMA ShrStep ==
  ASSUME NEW i \in Int, NEW n \in 0..Width - 1
  PROVE  /\ Shr(i, n) \in Int /\ Shr(i, n + 1) \in Int
         /\ Bit(i, n) \in {0, 1}
         /\ Shr(i, n) = 2 * Shr(i, n + 1) + Bit(i, n)
<1>0. n \in 0..Width
  BY IntervalAssumption
<1> DEFINE d == 2^n
           q == i \div d
           t == q \div 2
           b == q % 2
<1>1. d \in Nat /\ 1 <= d /\ 2^(n + 1) = 2 * d
  BY <1>0, PowersOfBits
<1> HIDE DEF d
<1>2. q \in Int /\ q * d \in Int /\ q * d <= i /\ i < q * d + d
  BY <1>1, Floor
<1> HIDE DEF q
<1>3. t \in Int /\ b \in {0, 1} /\ q = 2 * t + b
  BY <1>2
<1> HIDE DEF t, b
<1>4. t * (2 * d) = (2 * t) * d /\ (2 * t) * d \in Int /\ (2 * t + b) * d = (2 * t) * d + b * d
      /\ 2 * d \in Nat /\ 1 <= 2 * d
  BY <1>1, <1>3
<1>5. b * d \in Nat /\ b * d <= d
  BY <1>1, <1>3
<1>6. t * (2 * d) <= i /\ i < t * (2 * d) + 2 * d
  BY <1>1, <1>2, <1>3, <1>4, <1>5
<1>7. i \div (2 * d) = t
  BY <1>3, <1>4, <1>6, FloorUnique
<1>8. Shr(i, n) = q /\ Shr(i, n + 1) = t /\ Bit(i, n) = b
  BY <1>1, <1>7 DEF Shr, Bit, q, b, d
<1> QED BY <1>2, <1>3, <1>8

LEMMA HalfUnique ==
  ASSUME NEW p \in Int, NEW q \in Int, NEW b \in {0, 1}, NEW c \in {0, 1},
         2 * p + b = 2 * q + c
  PROVE  p = q /\ b = c
  OBVIOUS

LEMMA ShrMono ==
  ASSUME NEW i \in Int, NEW j \in Int, i <= j, NEW n \in 0..Width
  PROVE  Shr(i, n) \in Int /\ Shr(j, n) \in Int /\ Shr(i, n) <= Shr(j, n)
<1> DEFINE d == 2^n
           q == i \div d
           t == j \div d
<1>1. d \in Nat /\ 1 <= d
  BY PowersOfBits
<1> HIDE DEF d
<1>2. q \in Int /\ q * d \in Int /\ q * d <= i /\ i < q * d + d
  BY <1>1, Floor
<1>3. t \in Int /\ t * d \in Int /\ t * d <= j /\ j < t * d + d
  BY <1>1, Floor
<1> HIDE DEF q, t
<1>4. ASSUME t + 1 <= q PROVE FALSE
  <2>1. (t + 1) * d <= q * d
    BY <1>1, <1>2, <1>3, <1>4, Times
  <2>2. t * d + d = (t + 1) * d
    BY <1>1, <1>3
  <2> QED BY <1>1, <1>2, <1>3, <2>1, <2>2
<1>5. q <= t
  BY <1>2, <1>3, <1>4
<1> QED BY <1>2, <1>3, <1>5 DEF Shr, q, t, d

LEMMA ShrEnds ==
  ASSUME NEW i \in Wide
  PROVE  i \in Int /\ Shr(i, 0) = i /\ Shr(i, Width) = IF i < 0 THEN -1 ELSE 0
<1> DEFINE d == 2^Width
<1>0. Width \in Nat /\ Width \in 0..Width /\ 0 \in 0..Width
  BY IntervalAssumption
<1>1. d \in Nat /\ 1 <= d
  BY <1>0, PowersOfBits
<1>2. i \in Int /\ -d <= i /\ i < d
  BY <1>1 DEF Wide
<1> HIDE DEF d
<1>3. Shr(i, 0) = i
  <2>1. i \div 1 = i
    BY <1>2
  <2>2. 2^0 = 1
    OBVIOUS
  <2> QED BY <2>1, <2>2 DEF Shr
<1>4. CASE i < 0
  <2>1. (-1) * d <= i /\ i < (-1) * d + d
    BY <1>1, <1>2, <1>4
  <2>2. i \div d = -1
    BY <1>1, <1>2, <2>1, FloorUnique
  <2> QED BY <1>2, <1>3, <1>4, <2>2 DEF Shr, d
<1>5. CASE ~(i < 0)
  <2>1. 0 * d <= i /\ i < 0 * d + d
    BY <1>1, <1>2, <1>5
  <2>2. i \div d = 0
    BY <1>1, <1>2, <2>1, FloorUnique
  <2> QED BY <1>2, <1>3, <1>5, <2>2 DEF Shr, d
<1> QED BY <1>4, <1>5

-----------------------------------------------------------------------------
(* Two integers of one sign are ordered by the leftmost bit in which they  *)
(* differ.                                                                 *)

Positions == 0..Width - 1
One(i, n) == Bit(i, n) = 1
SameSign(i, j) == (i < 0) <=> (j < 0)

LEMMA TopDifference ==
  ASSUME NEW i \in Wide, NEW j \in Wide, SameSign(i, j), i < j
  PROVE  \E n \in Positions : /\ ~One(i, n) /\ One(j, n)
                              /\ \A m \in Positions : m > n => (One(i, m) <=> One(j, m))
<1> DEFINE T == {n \in 0..Width : Shr(i, n) = Shr(j, n)}
<1>0. Width \in Nat /\ Width \in 0..Width /\ 0 \in 0..Width
  BY IntervalAssumption
<1>1. i \in Int /\ j \in Int /\ Width \in T /\ 0 \notin T
  BY <1>0, ShrEnds DEF SameSign
<1>2. PICK t \in T : \A k \in T : t <= k
  <2>1. T \subseteq Nat /\ T # {}
    BY <1>0, <1>1
  <2> HIDE DEF T
  <2> QED BY <2>1, LeastElement
<1> DEFINE n == t - 1
<1>3. n \in Positions /\ n + 1 = t /\ n \in 0..Width /\ n \notin T
  BY <1>0, <1>1, <1>2 DEF Positions
<1>4. \A k \in Positions : k \in T => k + 1 \in T
  <2>1. ASSUME NEW k \in Positions, k \in T PROVE k + 1 \in T
    <3>1. k \in 0..Width - 1 /\ k + 1 \in 0..Width
      BY <1>0 DEF Positions
    <3>2. /\ Shr(i, k + 1) \in Int /\ Bit(i, k) \in {0, 1}
          /\ Shr(i, k) = 2 * Shr(i, k + 1) + Bit(i, k)
      BY <1>1, <3>1, ShrStep
    <3>3. /\ Shr(j, k + 1) \in Int /\ Bit(j, k) \in {0, 1}
          /\ Shr(j, k) = 2 * Shr(j, k + 1) + Bit(j, k)
      BY <1>1, <3>1, ShrStep
    <3>4. Shr(i, k) = Shr(j, k)
      BY <2>1
    <3>5. Shr(i, k + 1) = Shr(j, k + 1)
      BY <3>2, <3>3, <3>4, SMTT(30)
    <3> QED BY <3>1, <3>5
  <2> QED BY <2>1
<1>5. \A k \in 0..Width : k >= t => k \in T
  <2> DEFINE U == {k \in 0..Width : k >= t => k \in T}
  <2>1. 0 \in U
    BY <1>0, <1>2
  <2>2. \A k \in 0..Width - 1 : k \in U => k + 1 \in U
    <3>1. ASSUME NEW k \in 0..Width - 1, k \in U PROVE k + 1 \in U
      <4>1. k + 1 \in 0..Width /\ k \in Positions
        BY <1>0 DEF Positions
      <4>2. CASE k >= t
        BY <1>4, <3>1, <4>1, <4>2
      <4>3. CASE ~(k >= t)
        <5>1. k + 1 >= t => k + 1 = t
          BY <1>2, <4>3
        <5> QED BY <1>2, <4>1, <5>1
      <4> QED BY <4>2, <4>3
    <3> QED BY <3>1
  <2>3. \A k \in 0..Width : k \in U
    <3> HIDE DEF U
    <3> QED BY <1>0, <2>1, <2>2, UpTo
  <2> QED BY <2>3
<1>6. ASSUME NEW m \in Positions, m > n PROVE One(i, m) <=> One(j, m)
  <2>1. m \in 0..Width /\ m >= t
    BY <1>0, <1>2, <1>6 DEF Positions
  <2>2. Shr(i, m) = Shr(j, m)
    BY <1>5, <2>1
  <2> QED BY <2>2 DEF One, Bit, Shr
<1>7. ~One(i, n) /\ One(j, n)
  <2>1. n \in 0..Width - 1
    BY <1>3 DEF Positions
  <2>2. /\ Shr(i, n + 1) \in Int /\ Bit(i, n) \in {0, 1} /\ Shr(i, n) \in Int
        /\ Shr(i, n) = 2 * Shr(i, n + 1) + Bit(i, n)
    BY <1>1, <2>1, ShrStep
  <2>3. /\ Shr(j, n + 1) \in Int /\ Bit(j, n) \in {0, 1} /\ Shr(j, n) \in Int
        /\ Shr(j, n) = 2 * Shr(j, n + 1) + Bit(j, n)
    BY <1>1, <2>1, ShrStep
  <2>4. Shr(i, n + 1) = Shr(j, n + 1)
    BY <1>2, <1>3
  <2>5. Shr(i, n) # Shr(j, n) /\ Shr(i, n) <= Shr(j, n)
    BY <1>1, <1>3, ShrMono
  <2>6. Bit(i, n) < Bit(j, n)
    BY <2>2, <2>3, <2>4, <2>5
  <2> QED BY <2>2, <2>3, <2>6 DEF One
<1> HIDE DEF n
<1> QED BY <1>3, <1>6, <1>7

LEMMA LessByBit ==
  ASSUME NEW i \in Wide, NEW j \in Wide, SameSign(i, j),
         NEW n \in Positions, ~One(i, n), One(j, n),
         \A m \in Positions : m > n => (One(i, m) <=> One(j, m))
  PROVE  i < j
<1>1. i \in Int /\ j \in Int /\ Width \in Nat
  BY IntervalAssumption, ShrEnds
<1>2. i # j
  OBVIOUS
<1>3. ASSUME j < i PROVE FALSE
  <2>1. SameSign(j, i)
    BY DEF SameSign
  <2>2. PICK k \in Positions :
          /\ ~One(j, k) /\ One(i, k)
          /\ \A m \in Positions : m > k => (One(j, m) <=> One(i, m))
    BY <1>3, <2>1, TopDifference
  <2>3. k \in Int /\ n \in Int
    BY <1>1 DEF Positions
  <2>4. k > n \/ k = n \/ n > k
    BY <2>3
  <2> QED BY <2>2, <2>4
<1> QED BY <1>1, <1>2, <1>3

LEMMA FewerBits ==
  ASSUME NEW i \in Wide, NEW j \in Wide, SameSign(i, j),
         \A m \in Positions : One(i, m) => One(j, m)
  PROVE  i <= j
<1>1. i \in Int /\ j \in Int
  BY ShrEnds
<1>2. ASSUME j < i PROVE FALSE
  <2>1. SameSign(j, i)
    BY DEF SameSign
  <2>2. PICK k \in Positions : ~One(j, k) /\ One(i, k)
    BY <1>2, <2>1, TopDifference
  <2> QED BY <2>2
<1> QED BY <1>1, <1>2

LEMMA SameBits ==
  ASSUME NEW i \in Wide, NEW j \in Wide, SameSign(i, j),
         \A m \in Positions : One(i, m) <=> One(j, m)
  PROVE  i = j
<1>1. SameSign(j, i)
  BY DEF SameSign
<1>2. i <= j
  BY FewerBits
<1>3. j <= i
  BY <1>1, FewerBits
<1>4. i \in Int /\ j \in Int
  BY ShrEnds
<1> QED BY <1>2, <1>3, <1>4

-----------------------------------------------------------------------------
(* The bits of the bit-wise operations.                                    *)

LEMMA NotBits ==
  ASSUME NEW i \in Wide
  PROVE  /\ Not(i) \in Wide /\ (Not(i) < 0 <=> ~(i < 0)) /\ Not(Not(i)) = i
         /\ \A n \in Positions : One(Not(i), n) <=> ~One(i, n)
<1>0. i \in Int /\ Width \in Nat /\ Width \in 0..Width
  BY IntervalAssumption, ShrEnds
<1>1. Not(i) \in Wide /\ Not(i) \in Int
  <2> DEFINE d == 2^Width
  <2>1. d \in Nat /\ i \in (-d)..(d - 1)
    BY <1>0, PowersOfBits DEF Wide
  <2> HIDE DEF d
  <2>2. -1 - i \in (-d)..(d - 1) /\ -1 - i \in Int
    BY <2>1
  <2> QED BY <2>2 DEF Wide, Not, d
<1>2. (Not(i) < 0 <=> ~(i < 0)) /\ Not(Not(i)) = i
  BY <1>0 DEF Not
<1>3. ASSUME NEW n \in Positions PROVE One(Not(i), n) <=> ~One(i, n)
  <2> DEFINE d == 2^n
             q == i \div d
             p == -1 - q
  <2>1. n \in 0..Width
    BY <1>0 DEF Positions
  <2>2. d \in Nat /\ 1 <= d
    BY <2>1, PowersOfBits
  <2> HIDE DEF d
  <2>3. q \in Int /\ q * d \in Int /\ q * d <= i /\ i < q * d + d
    BY <1>0, <2>2, Floor
  <2> HIDE DEF q
  <2>4. p \in Int /\ p = -1 - q
    BY <2>3
  <2>5. p * d = -(q * d) - d
    BY <2>2, <2>3
  <2> HIDE DEF p
  <2>6. p * d <= -1 - i /\ -1 - i < p * d + d
    BY <1>0, <2>2, <2>3, <2>5
  <2>7. (-1 - i) \div d = p
    <3>1. -1 - i \in Int
      BY <1>0
    <3> QED BY <2>2, <2>4, <2>6, <3>1, FloorUnique
  <2>8. (p % 2 = 1) <=> ~(q % 2 = 1)
    BY <2>3, <2>4
  <2> QED BY <2>7, <2>8 DEF One, Bit, Not, q, d
<1> QED BY <1>1, <1>2, <1>3

AndFrom(f, i, j) ==
  [n \in 0..Width |-> IF n = Width THEN IF i < 0 /\ j < 0 THEN -1 ELSE 0
                      ELSE 2 * f[n + 1] + Bit(i, n) * Bit(j, n)]

LEMMA AndFromExists ==
  ASSUME NEW i \in Wide, NEW j \in Wide
  PROVE  \E f : f = AndFrom(f, i, j)
<1> DEFINE Val(f, n) == IF n = Width THEN IF i < 0 /\ j < 0 THEN -1 ELSE 0
                        ELSE 2 * f[n + 1] + Bit(i, n) * Bit(j, n)
           Part(f, k) == f = [n \in k..Width |-> Val(f, n)]
           T == {k \in 0..Width : \E f : Part(f, k)}
<1>0. Width \in Nat /\ Width \in 0..Width /\ 0 \in 0..Width
  BY IntervalAssumption
<1>1. Width \in T
  <2> DEFINE g == [n \in Width..Width |-> IF i < 0 /\ j < 0 THEN -1 ELSE 0]
  <2>1. \A n \in Width..Width : n = Width
    BY <1>0
  <2>2. g = [n \in Width..Width |-> Val(g, n)]
    BY <2>1
  <2> HIDE DEF g
  <2>3. \E f : Part(f, Width)
    BY <2>2
  <2> QED BY <1>0, <2>3
<1>2. ASSUME NEW k \in 0..Width - 1, k + 1 \in T PROVE k \in T
  <2>0. PICK f : Part(f, k + 1)
    BY <1>2
  <2>1. k \in Int /\ k \in 0..Width /\ k # Width /\ k + 1 \in k + 1..Width
    BY <1>0
  <2>2. \A n \in k..Width : n = k \/ n \in k + 1..Width
    BY <1>0, <2>1
  <2>3. \A n \in k + 1..Width : n \in k..Width /\ n # k /\ (n # Width => n + 1 \in k + 1..Width)
    BY <1>0, <2>1
  <2> DEFINE g == [n \in k..Width |-> IF n = k THEN Val(f, k) ELSE f[n]]
  <2>4. k + 1 \in k..Width /\ k \in k..Width
    BY <1>0, <2>1
  <2>5. g[k + 1] = f[k + 1]
    BY <2>1, <2>3, <2>4
  <2>6. \A n \in k + 1..Width : g[n] = f[n] /\ f[n] = Val(f, n)
    BY <2>0, <2>3
  <2>7. \A n \in k..Width : g[n] = Val(g, n)
    <3>1. ASSUME NEW n \in k..Width PROVE g[n] = Val(g, n)
      <4>1. CASE n = k
        <5>1. g[n] = 2 * f[k + 1] + Bit(i, k) * Bit(j, k)
          BY <2>1, <2>4, <4>1
        <5>2. Val(g, n) = 2 * g[k + 1] + Bit(i, k) * Bit(j, k)
          BY <2>1, <4>1
        <5> QED BY <2>5, <5>1, <5>2
      <4>2. CASE n \in k + 1..Width
        <5>1. g[n] = Val(f, n)
          BY <2>6, <4>2
        <5>2. CASE n = Width
          BY <5>1, <5>2
        <5>3. CASE n # Width
          <6>1. n + 1 \in k + 1..Width
            BY <2>3, <4>2, <5>3
          <6>2. g[n + 1] = f[n + 1]
            BY <2>6, <6>1
          <6> HIDE DEF g
          <6> QED BY <5>1, <5>3, <6>2
        <5> QED BY <5>2, <5>3
      <4> QED BY <2>2, <4>1, <4>2
    <3> QED BY <3>1
  <2>8. g = [n \in k..Width |-> g[n]]
    OBVIOUS
  <2> HIDE DEF g
  <2>9. Part(g, k)
    BY <2>7, <2>8
  <2> HIDE DEF Part
  <2>10. \E h : Part(h, k)
    BY <2>9
  <2> QED BY <2>1, <2>10
<1>3. 0 \in T
  <2> HIDE DEF T
  <2> QED BY <1>0, <1>1, <1>2, DownTo
<1> QED BY <1>3 DEF AndFrom

LEMMA AndFromTotal ==
  ASSUME NEW i \in Wide, NEW j \in Wide, NEW f, f = AndFrom(f, i, j)
  PROVE  /\ \A n \in 0..Width : f[n] \in Int
         /\ f[Width] = IF i < 0 /\ j < 0 THEN -1 ELSE 0
         /\ \A n \in Positions : f[n] = 2 * f[n + 1] + Bit(i, n) * Bit(j, n)
<1>0. Width \in Nat /\ Width \in 0..Width /\ 0 \in 0..Width /\ i \in Int /\ j \in Int
  BY IntervalAssumption, ShrEnds
<1>1. f[Width] = IF i < 0 /\ j < 0 THEN -1 ELSE 0
  BY <1>0 DEF AndFrom
<1>2. ASSUME NEW n \in Positions PROVE f[n] = 2 * f[n + 1] + Bit(i, n) * Bit(j, n)
  <2>1. n \in 0..Width /\ n # Width
    BY <1>0 DEF Positions
  <2> QED BY <2>1 DEF AndFrom
<1>3. \A n \in 0..Width : f[n] \in Int
  <2> DEFINE T == {n \in 0..Width : f[n] \in Int}
  <2>1. Width \in T
    BY <1>0, <1>1
  <2>2. ASSUME NEW n \in 0..Width - 1, n + 1 \in T PROVE n \in T
    <3>1. n \in Positions /\ n \in 0..Width
      BY <1>0 DEF Positions
    <3>2. Bit(i, n) \in {0, 1} /\ Bit(j, n) \in {0, 1}
      BY <1>0, ShrStep
    <3>3. f[n + 1] \in Int
      BY <2>2
    <3>4. 2 * f[n + 1] + Bit(i, n) * Bit(j, n) \in Int
      BY <3>2, <3>3
    <3> QED BY <1>2, <3>1, <3>4
  <2>3. \A n \in 0..Width : n \in T
    <3> HIDE DEF T
    <3> QED BY <1>0, <2>1, <2>2, DownTo
  <2> QED BY <2>3
<1> QED BY <1>1, <1>2, <1>3

LEMMA AndBits ==
  ASSUME NEW i \in Wide, NEW j \in Wide
  PROVE  /\ And2(i, j) \in Wide /\ (And2(i, j) < 0 <=> i < 0 /\ j < 0)
         /\ \A n \in Positions : One(And2(i, j), n) <=> One(i, n) /\ One(j, n)
<1>0. Width \in Nat /\ Width \in 0..Width /\ 0 \in 0..Width /\ i \in Int /\ j \in Int
  BY IntervalAssumption, ShrEnds
<1> DEFINE f == CHOOSE g : g = AndFrom(g, i, j)
<1>1. f = AndFrom(f, i, j)
  BY AndFromExists
<1>2. And2(i, j) = f[0]
  BY DEF And2, BitsAnd, AndFrom
<1> HIDE DEF f
<1>3. /\ \A n \in 0..Width : f[n] \in Int
      /\ f[Width] = IF i < 0 /\ j < 0 THEN -1 ELSE 0
      /\ \A n \in Positions : f[n] = 2 * f[n + 1] + Bit(i, n) * Bit(j, n)
  BY <1>1, AndFromTotal
<1> DEFINE v == f[0]
           T == {n \in 0..Width : Shr(v, n) = f[n]}
<1>4. v \in Int
  BY <1>0, <1>3
<1> HIDE DEF v
<1>5. ASSUME NEW n \in Positions, n \in T
      PROVE  n + 1 \in T /\ Bit(v, n) = Bit(i, n) * Bit(j, n)
  <2>1. n \in 0..Width - 1 /\ n \in 0..Width /\ n + 1 \in 0..Width
    BY <1>0 DEF Positions
  <2>2. /\ Shr(v, n + 1) \in Int /\ Bit(v, n) \in {0, 1}
        /\ Shr(v, n) = 2 * Shr(v, n + 1) + Bit(v, n)
    BY <1>4, <2>1, ShrStep
  <2>3. Bit(i, n) \in {0, 1} /\ Bit(j, n) \in {0, 1}
    BY <1>0, <2>1, ShrStep
  <2>4. f[n + 1] \in Int /\ f[n] = 2 * f[n + 1] + Bit(i, n) * Bit(j, n)
    BY <1>3, <2>1
  <2> DEFINE b == Bit(i, n) * Bit(j, n)
  <2>5. b \in {0, 1}
    BY <2>3
  <2> HIDE DEF b
  <2>6. 2 * Shr(v, n + 1) + Bit(v, n) = 2 * f[n + 1] + b
    BY <1>5, <2>2, <2>4 DEF b
  <2>7. Shr(v, n + 1) = f[n + 1] /\ Bit(v, n) = b
    <3> DEFINE p == Shr(v, n + 1)
               q == f[n + 1]
               e == Bit(v, n)
    <3>1. p \in Int /\ q \in Int /\ e \in {0, 1}
      BY <2>2, <2>4
    <3>2. 2 * p + e = 2 * q + b
      BY <2>6
    <3> HIDE DEF p, q, e
    <3>3. p = q /\ e = b
      BY <2>5, <3>1, <3>2, HalfUnique
    <3> QED BY <3>3 DEF p, q, e
  <2> QED BY <2>1, <2>7 DEF b
<1>6. \A n \in 0..Width : n \in T
  <2>1. 0 \in T
    <3>1. v \div 1 = v /\ 2^0 = 1
      BY <1>4
    <3> QED BY <1>0, <3>1 DEF Shr, v
  <2>2. \A n \in 0..Width - 1 : n \in T => n + 1 \in T
    BY <1>5 DEF Positions
  <2> HIDE DEF T
  <2> QED BY <1>0, <2>1, <2>2, UpTo
<1>7. v \in Wide /\ (v < 0 <=> i < 0 /\ j < 0)
  <2> DEFINE d == 2^Width
             q == v \div d
  <2>1. d \in Nat /\ 1 <= d
    BY <1>0, PowersOfBits
  <2>2. q = IF i < 0 /\ j < 0 THEN -1 ELSE 0
    BY <1>0, <1>3, <1>6 DEF Shr
  <2> HIDE DEF d
  <2>3. q * d <= v /\ v < q * d + d
    BY <1>4, <2>1, Floor
  <2> HIDE DEF q
  <2>4. v \in (-d)..(d - 1) /\ (v < 0 <=> i < 0 /\ j < 0)
    BY <1>4, <2>1, <2>2, <2>3
  <2> QED BY <2>4 DEF Wide, d
<1>8. ASSUME NEW n \in Positions PROVE One(v, n) <=> One(i, n) /\ One(j, n)
  <2>1. n \in 0..Width - 1 /\ n \in T
    BY <1>0, <1>6 DEF Positions
  <2>2. Bit(v, n) = Bit(i, n) * Bit(j, n)
    BY <1>5, <2>1
  <2>3. Bit(i, n) \in {0, 1} /\ Bit(j, n) \in {0, 1}
    BY <1>0, <2>1, ShrStep
  <2> QED BY <2>2, <2>3 DEF One
<1> QED BY <1>2, <1>7, <1>8 DEF v

LEMMA OrBits ==
  ASSUME NEW i \in Wide, NEW j \in Wide
  PROVE  /\ Or2(i, j) \in Wide /\ (Or2(i, j) < 0 <=> i < 0 \/ j < 0)
         /\ \A n \in Positions : One(Or2(i, j), n) <=> One(i, n) \/ One(j, n)
<1>1. /\ Not(i) \in Wide /\ (Not(i) < 0 <=> ~(i < 0))
      /\ \A n \in Positions : One(Not(i), n) <=> ~One(i, n)
  BY NotBits
<1>2. /\ Not(j) \in Wide /\ (Not(j) < 0 <=> ~(j < 0))
      /\ \A n \in Positions : One(Not(j), n) <=> ~One(j, n)
  BY NotBits
<1> DEFINE c == And2(Not(i), Not(j))
<1>3. /\ c \in Wide /\ (c < 0 <=> Not(i) < 0 /\ Not(j) < 0)
      /\ \A n \in Positions : One(c, n) <=> One(Not(i), n) /\ One(Not(j), n)
  BY <1>1, <1>2, AndBits
<1> HIDE DEF c
<1>4. /\ Not(c) \in Wide /\ (Not(c) < 0 <=> ~(c < 0))
      /\ \A n \in Positions : One(Not(c), n) <=> ~One(c, n)
  BY <1>3, NotBits
<1>5. Or2(i, j) = Not(c)
  BY DEF Or2, c
<1> QED BY <1>1, <1>2, <1>3, <1>4, <1>5

LEMMA AndNotBits ==
  ASSUME NEW i \in Wide, NEW j \in Wide
  PROVE  /\ AndNot(i, j) \in Wide /\ (AndNot(i, j) < 0 <=> i < 0 /\ ~(j < 0))
         /\ \A n \in Positions : One(AndNot(i, j), n) <=> One(i, n) /\ ~One(j, n)
<1>1. /\ Not(j) \in Wide /\ (Not(j) < 0 <=> ~(j < 0))
      /\ \A n \in Positions : One(Not(j), n) <=> ~One(j, n)
  BY NotBits
<1> DEFINE k == Not(j)
<1>2. /\ And2(i, k) \in Wide /\ (And2(i, k) < 0 <=> i < 0 /\ k < 0)
      /\ \A n \in Positions : One(And2(i, k), n) <=> One(i, n) /\ One(k, n)
  BY <1>1, AndBits
<1> QED BY <1>1, <1>2 DEF AndNot

-----------------------------------------------------------------------------
(* bitFillRight sets the bits on the right of the leftmost one.            *)

Unsigned == 0..(2^Width - 1)

LEMMA UnsignedIsWide ==
  ASSUME NEW i
  PROVE  i \in Unsigned <=> i \in Wide /\ ~(i < 0)
<1> DEFINE d == 2^Width
<1>0. Width \in Nat /\ Width \in 0..Width
  BY IntervalAssumption
<1>1. d \in Nat
  BY <1>0, PowersOfBits
<1> HIDE DEF d
<1>2. i \in 0..(d - 1) <=> i \in (-d)..(d - 1) /\ ~(i < 0)
  BY <1>1
<1> QED BY <1>2 DEF Unsigned, Wide, d

LEMMA OnesBits ==
  ASSUME NEW t \in 0..Width
  PROVE  /\ 2^t - 1 \in Unsigned
         /\ \A n \in Positions : One(2^t - 1, n) <=> n < t
<1>0. Width \in Nat /\ Width \in 0..Width /\ 0 \in 0..Width /\ t \in Nat /\ t <= Width
  BY IntervalAssumption
<1> DEFINE f == 2^t - 1
           Val(n) == IF n <= t THEN 2^(t - n) - 1 ELSE 0
           T == {n \in 0..Width : Shr(f, n) = Val(n)}
<1>1. f \in Nat /\ f \in Unsigned
  <2>1. 2^t \in Nat /\ 1 <= 2^t /\ Width \in t..Width
    BY <1>0, PowersOfBits
  <2>2. 2^t <= 2^Width /\ 2^Width \in Nat
    BY <2>1, PowersOfBits
  <2> DEFINE p == 2^t
             d == 2^Width
  <2>3. p \in Nat /\ 1 <= p /\ p <= d /\ d \in Nat
    BY <2>1, <2>2
  <2> HIDE DEF p, d
  <2>4. p - 1 \in 0..(d - 1) /\ p - 1 \in Nat
    BY <2>3
  <2> QED BY <2>4 DEF Unsigned, p, d
<1> HIDE DEF f
<1>2. ASSUME NEW n \in Positions, n \in T
      PROVE  n + 1 \in T /\ (One(f, n) <=> n < t)
  <2>1. n \in 0..Width - 1 /\ n \in 0..Width /\ n + 1 \in 0..Width /\ n \in Nat
    BY <1>0 DEF Positions
  <2>2. /\ Shr(f, n + 1) \in Int /\ Bit(f, n) \in {0, 1}
        /\ Shr(f, n) = 2 * Shr(f, n + 1) + Bit(f, n)
    BY <1>1, <2>1, ShrStep
  <2> DEFINE q == Shr(f, n + 1)
             b == Bit(f, n)
  <2>3. q \in Int /\ b \in {0, 1} /\ Shr(f, n) = 2 * q + b
    BY <2>2
  <2>4. CASE n < t
    <3> DEFINE k == t - (n + 1)
    <3>1. k \in 0..Width /\ k + 1 = t - n /\ n <= t /\ n + 1 <= t
      BY <1>0, <2>1, <2>4
    <3> HIDE DEF k
    <3>2. 2^k \in Nat /\ 2^(k + 1) = 2 * 2^k
      BY <3>1, PowersOfBits
    <3> DEFINE p == 2^k
    <3>3. Shr(f, n) = 2 * p - 1 /\ p \in Nat
      BY <1>2, <3>1, <3>2
    <3> HIDE DEF q, b, p
    <3>4. 2 * q + b = 2 * (p - 1) + 1 /\ p - 1 \in Int
      BY <2>3, <3>3
    <3>5. q = p - 1 /\ b = 1
      BY <2>3, <3>4, HalfUnique
    <3>6. Val(n + 1) = p - 1
      BY <3>1 DEF p, k
    <3> QED BY <2>1, <2>4, <3>5, <3>6 DEF One, q, b
  <2>5. CASE ~(n < t)
    <3>1. ~(n + 1 <= t) /\ (n <= t => t - n = 0)
      BY <1>0, <2>1, <2>5
    <3>2. 2^0 = 1
      OBVIOUS
    <3>3. Shr(f, n) = 0
      <4>1. CASE n <= t
        <5>1. Val(n) = 2^(t - n) - 1 /\ t - n = 0
          BY <3>1, <4>1
        <5>2. Val(n) = 2^0 - 1
          BY <5>1
        <5>3. 2^0 - 1 = 0
          BY <3>2
        <5> QED BY <1>2, <5>2, <5>3
      <4>2. CASE ~(n <= t)
        BY <1>2, <4>2
      <4> QED BY <4>1, <4>2
    <3> HIDE DEF q, b
    <3>4. 2 * q + b = 2 * 0 + 0
      BY <2>3, <3>3
    <3>5. q = 0 /\ b = 0
      BY <2>3, <3>4, HalfUnique
    <3>6. Val(n + 1) = 0
      BY <3>1
    <3> QED BY <2>1, <2>5, <3>5, <3>6 DEF One, q, b
  <2> QED BY <2>4, <2>5
<1>3. \A n \in 0..Width : n \in T
  <2>1. 0 \in T
    <3>1. f \div 1 = f /\ 2^0 = 1
      BY <1>1
    <3>2. 0 <= t /\ t - 0 = t
      BY <1>0
    <3> QED BY <1>0, <3>1, <3>2 DEF Shr, f
  <2>2. \A n \in 0..Width - 1 : n \in T => n + 1 \in T
    BY <1>2 DEF Positions
  <2> HIDE DEF T
  <2> QED BY <1>0, <2>1, <2>2, UpTo
<1>4. ASSUME NEW n \in Positions PROVE One(f, n) <=> n < t
  <2>1. n \in 0..Width
    BY <1>0 DEF Positions
  <2> QED BY <1>2, <1>3, <2>1
<1> QED BY <1>1, <1>4 DEF f

LEMMA FillIs ==
  ASSUME NEW i \in Unsigned
  PROVE  \E t \in 0..Width :
           /\ bitFillRight[i] = 2^t - 1 /\ i <= 2^t - 1
           /\ \A k \in 0..Width : k < t => 2^k <= i
<1>0. Width \in Nat /\ Width \in 0..Width /\ 2^Width \in Nat
  BY IntervalAssumption, PowersOfBits
<1>1. \A n \in 0..Width : 2^n \in Nat /\ 1 <= 2^n /\ 2^n - 1 \in Nat
  BY PowersOfBits
<1>2. i \in Int /\ i <= 2^Width - 1
  BY <1>0 DEF Unsigned
<1> DEFINE S == {f \in {2^n - 1 : n \in 0..Width} : i <= f}
<1>3. S \subseteq Nat /\ S # {}
  <2>1. S \subseteq Nat
    BY <1>1
  <2>2. 2^Width - 1 \in S
    BY <1>0, <1>2
  <2> QED BY <2>1, <2>2
<1>4. bitFillRight[i] = Min(S)
  BY DEF bitFillRight, Unsigned
<1> DEFINE f == Min(S)
<1>5. f \in S /\ \A g \in S : f <= g
  <2> HIDE DEF S
  <2>1. \E m \in S : \A k \in S : m <= k
    BY <1>3, LeastElement
  <2> QED BY <2>1 DEF Min
<1> HIDE DEF f
<1>6. PICK t \in 0..Width : f = 2^t - 1
  BY <1>5
<1>7. ASSUME NEW k \in 0..Width, k < t, ~(2^k <= i) PROVE FALSE
  <2>1. 2^k \in Nat /\ 2^t \in Nat /\ 2^(k + 1) = 2 * 2^k /\ 1 <= 2^k
    BY PowersOfBits
  <2>2. i <= 2^k - 1
    BY <1>2, <1>7, <2>1
  <2>3. 2^k - 1 \in S
    BY <2>2
  <2>4. f <= 2^k - 1
    <3> HIDE DEF S
    <3> QED BY <1>5, <2>3
  <2>5. k + 1 \in 0..Width /\ t \in (k + 1)..Width
    BY <1>0, <1>7
  <2>6. 2^(k + 1) <= 2^t
    BY <2>5, PowersOfBits
  <2> QED BY <1>6, <2>1, <2>4, <2>6
<1> QED BY <1>4, <1>5, <1>6, <1>7 DEF f

LEMMA FillBits ==
  ASSUME NEW i \in Unsigned
  PROVE  /\ bitFillRight[i] \in Unsigned /\ bitFillRight[i] \div 2 \in Unsigned
         /\ \A n \in Positions :
              One(bitFillRight[i], n) <=> \E m \in Positions : m >= n /\ One(i, m)
         /\ \A n \in Positions :
              One(bitFillRight[i] \div 2, n) <=> \E m \in Positions : m > n /\ One(i, m)
<1>0. Width \in Nat /\ Width \in 0..Width /\ 0 \in 0..Width
  BY IntervalAssumption
<1>1. PICK t \in 0..Width : /\ bitFillRight[i] = 2^t - 1 /\ i <= 2^t - 1
                            /\ \A k \in 0..Width : k < t => 2^k <= i
  BY FillIs
<1>2. i \in Nat
  BY <1>0, PowersOfBits DEF Unsigned
<1>3. ASSUME NEW m \in Positions, m >= t PROVE ~One(i, m)
  <2>1. m \in t..Width /\ m \in 0..Width
    BY <1>0, <1>3 DEF Positions
  <2>2. 2^t <= 2^m /\ 2^m \in Nat /\ 1 <= 2^m /\ 2^t \in Nat
    BY <2>1, PowersOfBits
  <2> DEFINE d == 2^m
  <2>3. d \in Nat /\ 1 <= d /\ i < d
    BY <1>1, <1>2, <2>2
  <2> HIDE DEF d
  <2>4. 0 * d <= i /\ i < 0 * d + d
    BY <1>2, <2>3
  <2>5. i \div d = 0
    BY <1>2, <2>3, <2>4, FloorUnique
  <2> QED BY <2>5 DEF One, Bit, d
<1>4. ASSUME t > 0 PROVE t - 1 \in Positions /\ One(i, t - 1) /\ (2^t - 1) \div 2 = 2^(t - 1) - 1
  <2> DEFINE k == t - 1
  <2>1. k \in Positions /\ k \in 0..Width /\ k < t /\ k + 1 = t
    BY <1>0, <1>4 DEF Positions
  <2> HIDE DEF k
  <2> DEFINE d == 2^k
  <2>2. d \in Nat /\ 1 <= d /\ 2^t = 2 * d /\ d <= i
    BY <1>1, <2>1, PowersOfBits
  <2>3. i < 2 * d
    BY <1>1, <1>2, <2>2
  <2> HIDE DEF d
  <2>4. 1 * d <= i /\ i < 1 * d + d
    BY <1>2, <2>2, <2>3
  <2>5. i \div d = 1
    BY <1>2, <2>2, <2>4, FloorUnique
  <2>6. One(i, k)
    BY <2>5 DEF One, Bit, d
  <2>7. (2 * d - 1) \div 2 = d - 1
    BY <2>2
  <2> QED BY <2>1, <2>2, <2>6, <2>7 DEF d, k
<1> DEFINE f == bitFillRight[i]
           u == IF t > 0 THEN t - 1 ELSE 0
<1>5. u \in 0..Width /\ f \div 2 = 2^u - 1
  <2>1. CASE t > 0
    BY <1>0, <1>1, <1>4, <2>1
  <2>2. CASE ~(t > 0)
    <3>1. t = 0
      BY <2>2
    <3>2. 2^0 - 1 = 0 /\ 0 \div 2 = 0
      OBVIOUS
    <3> QED BY <1>0, <1>1, <3>1, <3>2
  <2> QED BY <2>1, <2>2
<1>6. f \in Unsigned /\ \A n \in Positions : One(f, n) <=> n < t
  BY <1>1, OnesBits
<1>7. f \div 2 \in Unsigned /\ \A n \in Positions : One(f \div 2, n) <=> n < u
  <2> HIDE DEF f, u
  <2> QED BY <1>5, OnesBits
<1> HIDE DEF f
<1>8. ASSUME NEW n \in Positions
      PROVE  /\ n < t <=> \E m \in Positions : m >= n /\ One(i, m)
             /\ n < u <=> \E m \in Positions : m > n /\ One(i, m)
  <2>1. n \in Nat /\ \A m \in Positions : m \in Nat
    BY <1>0 DEF Positions
  <2>2. CASE t > 0
    <3>1. \A m \in Positions : One(i, m) => m <= t - 1
      BY <1>3, <2>1
    <3>2. t - 1 \in Positions /\ One(i, t - 1)
      BY <1>4, <2>2
    <3>3. n < t => t - 1 >= n
      BY <2>1
    <3>4. n < u => t - 1 > n
      BY <2>1, <2>2
    <3>5. \A m \in Positions : (m >= n /\ m <= t - 1 => n < t) /\ (m > n /\ m <= t - 1 => n < u)
      BY <2>1, <2>2
    <3> QED BY <3>1, <3>2, <3>3, <3>4, <3>5
  <2>3. CASE ~(t > 0)
    <3>1. \A m \in Positions : ~One(i, m)
      BY <1>3, <2>1, <2>3
    <3>2. ~(n < t) /\ ~(n < u)
      BY <2>1, <2>3
    <3> QED BY <3>1, <3>2
  <2> QED BY <2>2, <2>3
<1> QED BY <1>6, <1>7, <1>8 DEF f

-----------------------------------------------------------------------------
(* Two ranges of integers of one sign, and their bits.  A bit falls in r   *)
(* if the upper bound has it and the lower bound has not.  An integer of r *)
(* may drop a bit of the upper bound, for all the bits on its right, only  *)
(* if that bit falls or one on its left does.                              *)

Pattern(r) ==
  /\ r.lo \in Wide /\ r.hi \in Wide /\ r.lo <= r.hi /\ SameSign(r.lo, r.hi)

Falls(r, k) == One(r.hi, k) /\ ~One(r.lo, k)
Drops(r, m) == \E k \in Positions : k >= m /\ Falls(r, k)

LEMMA Zeros == 0 \in Wide /\ 0 \in Unsigned /\ \A n \in Positions : ~One(0, n)
<1>0. Width \in Nat /\ 0 \in 0..Width
  BY IntervalAssumption
<1>1. 2^0 - 1 = 0
  OBVIOUS
<1>2. 0 \in Unsigned /\ \A n \in Positions : One(0, n) <=> n < 0
  <2>1. /\ 2^0 - 1 \in Unsigned
        /\ \A n \in Positions : One(2^0 - 1, n) <=> n < 0
    BY <1>0, OnesBits
  <2> QED BY <1>1, <2>1
<1>3. \A n \in Positions : ~(n < 0)
  BY <1>0 DEF Positions
<1>4. 0 \in Wide
  BY <1>2, UnsignedIsWide
<1> QED BY <1>2, <1>3, <1>4

(* An integer of the range lacks a bit of the upper bound, and agrees with *)
(* it on the left of that bit: the bit may be dropped.                     *)
LEMMA DroppedBit ==
  ASSUME NEW r, Pattern(r), NEW a \in Wide, SameSign(a, r.hi), r.lo <= a,
         NEW m \in Positions, One(r.hi, m), ~One(a, m),
         \A k \in Positions : k > m => (One(a, k) <=> One(r.hi, k))
  PROVE  Drops(r, m)
<1>0. /\ Width \in Nat /\ a \in Int /\ r.lo \in Int /\ r.hi \in Int
      /\ r.lo \in Wide /\ r.hi \in Wide /\ SameSign(r.lo, r.hi)
  BY IntervalAssumption, ShrEnds DEF Pattern
<1>1. \A k \in Positions : k \in Int
  BY <1>0 DEF Positions
<1>2. a < r.hi
  BY <1>0, LessByBit
<1>3. r.lo < r.hi
  BY <1>0, <1>2
<1>4. PICK k \in Positions :
        /\ ~One(r.lo, k) /\ One(r.hi, k)
        /\ \A l \in Positions : l > k => (One(r.lo, l) <=> One(r.hi, l))
  BY <1>0, <1>3, TopDifference
<1>5. CASE k >= m
  BY <1>4, <1>5 DEF Drops, Falls
<1>6. CASE ~(k >= m)
  <2>1. m > k /\ \A l \in Positions : l > m => l > k
    BY <1>1, <1>6
  <2>2. One(r.lo, m) /\ \A l \in Positions : l > m => (One(a, l) <=> One(r.lo, l))
    BY <1>4, <2>1
  <2>3. SameSign(a, r.lo)
    BY <1>0 DEF SameSign
  <2>4. a < r.lo
    BY <1>0, <2>2, <2>3, LessByBit
  <2> QED BY <1>0, <2>4
<1> QED BY <1>5, <1>6

(* The bits of what can be dropped.                                        *)
LEMMA DroppableBits ==
  ASSUME NEW r, Pattern(r)
  PROVE  /\ AndNot(r.hi, r.lo) \in Unsigned
         /\ \A n \in Positions : One(AndNot(r.hi, r.lo), n) <=> Falls(r, n)
<1> DEFINE g == AndNot(r.hi, r.lo)
<1>0. r.lo \in Wide /\ r.hi \in Wide /\ SameSign(r.lo, r.hi)
  BY DEF Pattern
<1>1. /\ g \in Wide /\ (g < 0 <=> r.hi < 0 /\ ~(r.lo < 0))
      /\ \A n \in Positions : One(g, n) <=> One(r.hi, n) /\ ~One(r.lo, n)
  BY <1>0, AndNotBits
<1> HIDE DEF g
<1>2. g \in Unsigned
  BY <1>0, <1>1, UnsignedIsWide DEF SameSign
<1> QED BY <1>1, <1>2 DEF Falls, g

(* A bit that both upper bounds have and one range may drop.               *)
Paid(r, s, m) ==
  One(r.hi, m) /\ One(s.hi, m) /\ (Drops(r, m) \/ Drops(s, m))

(* orMax has the bits of the upper bounds and those that a bit pays for.   *)
LEMMA OrMaxBits ==
  ASSUME NEW r, NEW s, Pattern(r), Pattern(s), SameSign(r.hi, s.hi)
  PROVE  /\ orMax(r, s) \in Wide /\ SameSign(orMax(r, s), r.hi)
         /\ \A n \in Positions :
              One(orMax(r, s), n) <=>
                \/ One(r.hi, n) \/ One(s.hi, n)
                \/ \E m \in Positions : m > n /\ Paid(r, s, m)
<1>0. /\ r.lo \in Wide /\ r.hi \in Wide /\ SameSign(r.lo, r.hi)
      /\ s.lo \in Wide /\ s.hi \in Wide /\ SameSign(s.lo, s.hi)
  BY DEF Pattern
<1> DEFINE g == AndNot(r.hi, r.lo)
           h == AndNot(s.hi, s.lo)
           u == Or2(g, h)
           d == bitFillRight[u]
<1>1. g \in Unsigned /\ \A n \in Positions : One(g, n) <=> Falls(r, n)
  BY DroppableBits
<1>2. h \in Unsigned /\ \A n \in Positions : One(h, n) <=> Falls(s, n)
  BY DroppableBits
<1> HIDE DEF g, h
<1>3. u \in Unsigned /\ \A n \in Positions : One(u, n) <=> Falls(r, n) \/ Falls(s, n)
  <2>1. g \in Wide /\ h \in Wide /\ ~(g < 0) /\ ~(h < 0)
    BY <1>1, <1>2, UnsignedIsWide
  <2>2. /\ u \in Wide /\ (u < 0 <=> g < 0 \/ h < 0)
        /\ \A n \in Positions : One(u, n) <=> One(g, n) \/ One(h, n)
    BY <2>1, OrBits
  <2> HIDE DEF u
  <2>3. u \in Unsigned
    BY <2>1, <2>2, UnsignedIsWide
  <2> QED BY <1>1, <1>2, <2>2, <2>3
<1> HIDE DEF u
<1>4. d \in Unsigned /\ \A n \in Positions : One(d, n) <=> Drops(r, n) \/ Drops(s, n)
  <2>1. d \in Unsigned
    BY <1>3, FillBits
  <2>2. \A n \in Positions : One(d, n) <=> \E m \in Positions : m >= n /\ One(u, m)
    BY <1>3, FillBits
  <2> HIDE DEF d
  <2> QED BY <1>3, <2>1, <2>2 DEF Drops
<1> HIDE DEF d
<1>5. d \in Wide /\ ~(d < 0)
  BY <1>4, UnsignedIsWide
<1> DEFINE dr == And2(d, r.hi)
           limited == And2(dr, s.hi)
           both == And2(r.hi, s.hi)
           shortcut == r.lo = 0 /\ s.lo = 0
           available == IF shortcut THEN both ELSE limited
<1>6. /\ both \in Wide /\ (both < 0 <=> r.hi < 0 /\ s.hi < 0)
      /\ \A n \in Positions : One(both, n) <=> One(r.hi, n) /\ One(s.hi, n)
  BY <1>0, AndBits
<1>7. /\ dr \in Wide /\ ~(dr < 0)
      /\ \A n \in Positions : One(dr, n) <=> One(d, n) /\ One(r.hi, n)
  BY <1>0, <1>5, AndBits
<1> HIDE DEF dr
<1>8. /\ limited \in Wide /\ ~(limited < 0)
      /\ \A n \in Positions : One(limited, n) <=> One(dr, n) /\ One(s.hi, n)
  BY <1>0, <1>7, AndBits
<1> HIDE DEF both, limited
<1>9. available \in Unsigned /\ \A m \in Positions : One(available, m) <=> Paid(r, s, m)
  <2>1. CASE shortcut
    <3>1. ~(0 < 0) /\ ~(r.hi < 0)
      BY <1>0, <2>1 DEF SameSign
    <3>2. both \in Unsigned
      BY <1>6, <3>1, UnsignedIsWide
    <3>3. \A m \in Positions : ~One(r.lo, m)
      BY <2>1, Zeros
    <3>4. \A m \in Positions : m >= m
      BY IntervalAssumption DEF Positions
    <3>5. \A m \in Positions : One(r.hi, m) => Drops(r, m)
      BY <3>3, <3>4 DEF Drops, Falls
    <3> QED BY <1>6, <2>1, <3>2, <3>5 DEF Paid
  <2>2. CASE ~shortcut
    <3>1. limited \in Unsigned
      BY <1>8, UnsignedIsWide
    <3> QED BY <1>4, <1>7, <1>8, <2>2, <3>1 DEF Paid
  <2> QED BY <2>1, <2>2
<1>10. orMax(r, s) = Or2(Or2(bitFillRight[available] \div 2, r.hi), s.hi)
  BY DEF orMax, available, shortcut, both, limited, dr, d, u, g, h
<1> HIDE DEF available
<1> DEFINE f == bitFillRight[available] \div 2
           fr == Or2(f, r.hi)
           M == Or2(fr, s.hi)
<1>11. /\ f \in Unsigned
       /\ \A n \in Positions : One(f, n) <=> \E m \in Positions : m > n /\ One(available, m)
  BY <1>9, FillBits
<1> HIDE DEF f
<1>12. f \in Wide /\ ~(f < 0)
  BY <1>11, UnsignedIsWide
<1>13. /\ fr \in Wide /\ (fr < 0 <=> r.hi < 0)
       /\ \A n \in Positions : One(fr, n) <=> One(f, n) \/ One(r.hi, n)
  BY <1>0, <1>12, OrBits
<1> HIDE DEF fr
<1>14. /\ M \in Wide /\ (M < 0 <=> fr < 0 \/ s.hi < 0)
       /\ \A n \in Positions : One(M, n) <=> One(fr, n) \/ One(s.hi, n)
  BY <1>0, <1>13, OrBits
<1>15. orMax(r, s) = M
  BY <1>10 DEF fr, f
<1> HIDE DEF M
<1>16. SameSign(M, r.hi)
  BY <1>13, <1>14 DEF SameSign
<1>17. \A n \in Positions : One(M, n) <=> \/ One(r.hi, n) \/ One(s.hi, n)
                                          \/ \E m \in Positions : m > n /\ Paid(r, s, m)
  BY <1>9, <1>11, <1>13, <1>14
<1> QED BY <1>14, <1>15, <1>16, <1>17

(* The integers of a range of one sign.                                    *)
LEMMA Inside ==
  ASSUME NEW r, Pattern(r), NEW a \in Wide, r.lo <= a, a <= r.hi
  PROVE  SameSign(a, r.hi) /\ SameSign(r.hi, a)
<1>1. r.lo \in Int /\ r.hi \in Int /\ a \in Int
  BY ShrEnds DEF Pattern
<1> QED BY <1>1 DEF Pattern, SameSign

(* An integer a of r has a bit that the upper bound has not: on its left   *)
(* is the leftmost bit that the upper bound has and a has not.             *)
LEMMA DropsForBit ==
  ASSUME NEW r, Pattern(r), NEW a \in Wide, r.lo <= a, a <= r.hi,
         NEW n \in Positions, One(a, n), ~One(r.hi, n)
  PROVE  \E m \in Positions :
           /\ m > n /\ One(r.hi, m) /\ ~One(a, m) /\ Drops(r, m)
           /\ \A k \in Positions : k > m => (One(a, k) <=> One(r.hi, k))
<1>0. /\ Width \in Nat /\ r.hi \in Wide /\ r.hi \in Int /\ a \in Int /\ SameSign(a, r.hi)
      /\ \A k \in Positions : k \in Int
  BY IntervalAssumption, ShrEnds, Inside DEF Pattern, Positions
<1>1. a < r.hi
  BY <1>0
<1>2. PICK m \in Positions :
        /\ ~One(a, m) /\ One(r.hi, m)
        /\ \A k \in Positions : k > m => (One(a, k) <=> One(r.hi, k))
  BY <1>0, <1>1, TopDifference
<1>3. m > n
  <2>1. m > n \/ m = n \/ n > m
    BY <1>0
  <2> QED BY <1>2, <2>1
<1>4. Drops(r, m)
  BY <1>0, <1>2, DroppedBit
<1> QED BY <1>2, <1>3, <1>4

(* v, the result for a and b, is beyond M in bit n, which a has: that bit  *)
(* was paid for.                                                           *)
LEMMA OrBeyond ==
  ASSUME NEW r, NEW s, Pattern(r), Pattern(s),
         NEW a \in Wide, r.lo <= a, a <= r.hi, NEW b \in Wide, s.lo <= b, b <= s.hi,
         NEW n \in Positions, One(a, n), ~One(r.hi, n),
         \A m \in Positions : m > n =>
           (One(r.hi, m) \/ One(s.hi, m) => One(a, m) \/ One(b, m))
  PROVE  \E m \in Positions : m > n /\ Paid(r, s, m)
<1>0. Width \in Nat /\ \A k \in Positions : k \in Int
  BY IntervalAssumption DEF Positions
<1>1. PICK m \in Positions :
        /\ m > n /\ One(r.hi, m) /\ ~One(a, m) /\ Drops(r, m)
        /\ \A k \in Positions : k > m => (One(a, k) <=> One(r.hi, k))
  BY DropsForBit
<1>2. One(b, m)
  BY <1>1
<1>3. CASE One(s.hi, m)
  BY <1>1, <1>3 DEF Paid
<1>4. CASE ~One(s.hi, m)
  <2>1. PICK l \in Positions : l > m /\ One(s.hi, l) /\ ~One(b, l) /\ Drops(s, l)
    BY <1>2, <1>4, DropsForBit
  <2>2. l > n
    BY <1>0, <1>1, <2>1
  <2>3. One(a, l)
    BY <2>1, <2>2
  <2>4. One(r.hi, l)
    BY <1>1, <2>1, <2>3
  <2> QED BY <2>1, <2>2, <2>4 DEF Paid
<1> QED BY <1>3, <1>4

(* No a | b is beyond orMax.                                               *)
LEMMA OrMaxSound ==
  ASSUME NEW r, NEW s, Pattern(r), Pattern(s), SameSign(r.hi, s.hi),
         NEW a \in Wide, r.lo <= a, a <= r.hi, NEW b \in Wide, s.lo <= b, b <= s.hi
  PROVE  Or2(a, b) <= orMax(r, s)
<1> DEFINE M == orMax(r, s)
           v == Or2(a, b)
<1>1. /\ M \in Wide /\ SameSign(M, r.hi)
      /\ \A n \in Positions : One(M, n) <=> \/ One(r.hi, n) \/ One(s.hi, n)
                                            \/ \E m \in Positions : m > n /\ Paid(r, s, m)
  BY OrMaxBits
<1>2. /\ v \in Wide /\ (v < 0 <=> a < 0 \/ b < 0)
      /\ \A n \in Positions : One(v, n) <=> One(a, n) \/ One(b, n)
  BY OrBits
<1> HIDE DEF M, v
<1>3. SameSign(M, v)
  <2>1. SameSign(a, r.hi) /\ SameSign(b, s.hi)
    BY Inside
  <2> QED BY <1>1, <1>2, <2>1 DEF SameSign
<1>4. ASSUME M < v PROVE FALSE
  <2>1. PICK n \in Positions :
          /\ ~One(M, n) /\ One(v, n)
          /\ \A m \in Positions : m > n => (One(M, m) <=> One(v, m))
    BY <1>1, <1>2, <1>3, <1>4, TopDifference
  <2>2. /\ ~One(r.hi, n) /\ ~One(s.hi, n)
        /\ ~\E m \in Positions : m > n /\ Paid(r, s, m)
    BY <1>1, <2>1
  <2>3. \A m \in Positions : m > n =>
          (One(r.hi, m) \/ One(s.hi, m) => One(a, m) \/ One(b, m))
    BY <1>1, <1>2, <2>1
  <2>4. One(a, n) \/ One(b, n)
    BY <1>2, <2>1
  <2>5. CASE One(a, n)
    <3>1. \E m \in Positions : m > n /\ Paid(r, s, m)
      BY <2>2, <2>3, <2>5, OrBeyond
    <3> QED BY <2>2, <3>1
  <2>6. CASE One(b, n)
    <3>1. \A m \in Positions : m > n =>
            (One(s.hi, m) \/ One(r.hi, m) => One(b, m) \/ One(a, m))
      BY <2>3
    <3>2. \E m \in Positions : m > n /\ Paid(s, r, m)
      BY <2>2, <2>6, <3>1, OrBeyond
    <3>3. \A m \in Positions : Paid(s, r, m) => Paid(r, s, m)
      BY DEF Paid
    <3> QED BY <2>2, <3>2, <3>3
  <2> QED BY <2>4, <2>5, <2>6
<1>5. M \in Int /\ v \in Int
  BY <1>1, <1>2, ShrEnds
<1>6. v <= M
  BY <1>4, <1>5
<1> QED BY <1>6 DEF M, v

-----------------------------------------------------------------------------
(* The leftmost bit of r.hi that s.hi lacks and r may drop.                *)

Flips(r, s, m) == One(r.hi, m) /\ ~One(s.hi, m) /\ Drops(r, m)
FlipsLeft(r, s, n) == \E m \in Positions : m > n /\ Flips(r, s, m)

(* What r has for s.hi: FlipFor is its bit-wise and with s.hi.             *)
Flipped(r, s) ==
  LET flip == bitFillRight[AndNot(And2(bitFillRight[AndNot(r.hi, r.lo)], r.hi), s.hi)]
  IN Or2(flip \div 2, AndNot(r.hi, flip))

LEMMA FlippedBits ==
  ASSUME NEW r, NEW s, Pattern(r), Pattern(s)
  PROVE  /\ FlipFor(r, s) = And2(Flipped(r, s), s.hi)
         /\ Flipped(r, s) \in Wide /\ SameSign(Flipped(r, s), r.hi)
         /\ \A n \in Positions :
              One(Flipped(r, s), n) <=>
                \/ FlipsLeft(r, s, n)
                \/ One(r.hi, n) /\ ~Flips(r, s, n)
<1>0. /\ r.lo \in Wide /\ r.hi \in Wide /\ s.hi \in Wide
      /\ Width \in Nat /\ \A k \in Positions : k \in Int
  BY IntervalAssumption DEF Pattern, Positions
<1> DEFINE g == AndNot(r.hi, r.lo)
           d == bitFillRight[g]
           dr == And2(d, r.hi)
           p == AndNot(dr, s.hi)
           flip == bitFillRight[p]
           half == flip \div 2
           kept == AndNot(r.hi, flip)
           w == Or2(half, kept)
<1>1. g \in Unsigned /\ \A n \in Positions : One(g, n) <=> Falls(r, n)
  BY DroppableBits
<1> HIDE DEF g
<1>2. d \in Unsigned /\ \A n \in Positions : One(d, n) <=> Drops(r, n)
  <2>1. d \in Unsigned
    BY <1>1, FillBits
  <2>2. \A n \in Positions : One(d, n) <=> \E m \in Positions : m >= n /\ One(g, m)
    BY <1>1, FillBits
  <2> HIDE DEF d
  <2> QED BY <1>1, <2>1, <2>2 DEF Drops
<1> HIDE DEF d
<1>3. d \in Wide /\ ~(d < 0)
  BY <1>2, UnsignedIsWide
<1>4. /\ dr \in Wide /\ ~(dr < 0)
      /\ \A n \in Positions : One(dr, n) <=> One(d, n) /\ One(r.hi, n)
  BY <1>0, <1>3, AndBits
<1> HIDE DEF dr
<1>5. /\ p \in Wide /\ ~(p < 0)
      /\ \A n \in Positions : One(p, n) <=> One(dr, n) /\ ~One(s.hi, n)
  BY <1>0, <1>4, AndNotBits
<1> HIDE DEF p
<1>6. p \in Unsigned /\ \A n \in Positions : One(p, n) <=> Flips(r, s, n)
  <2>1. p \in Unsigned
    BY <1>5, UnsignedIsWide
  <2> QED BY <1>2, <1>4, <1>5, <2>1 DEF Flips
<1>7. /\ flip \in Unsigned /\ half \in Unsigned
      /\ \A n \in Positions : One(flip, n) <=> \E m \in Positions : m >= n /\ One(p, m)
      /\ \A n \in Positions : One(half, n) <=> \E m \in Positions : m > n /\ One(p, m)
  BY <1>6, FillBits
<1> HIDE DEF flip, half
<1>8. flip \in Wide /\ ~(flip < 0) /\ half \in Wide /\ ~(half < 0)
  BY <1>7, UnsignedIsWide
<1>9. /\ kept \in Wide /\ (kept < 0 <=> r.hi < 0)
      /\ \A n \in Positions : One(kept, n) <=> One(r.hi, n) /\ ~One(flip, n)
  BY <1>0, <1>8, AndNotBits
<1> HIDE DEF kept
<1>10. /\ w \in Wide /\ (w < 0 <=> r.hi < 0)
       /\ \A n \in Positions : One(w, n) <=> One(half, n) \/ One(kept, n)
  BY <1>8, <1>9, OrBits
<1>11. Flipped(r, s) = w /\ FlipFor(r, s) = And2(w, s.hi)
  BY DEF Flipped, FlipFor, w, kept, half, flip, p, dr, d, g
<1> HIDE DEF w
<1>12. ASSUME NEW n \in Positions
       PROVE  One(w, n) <=> FlipsLeft(r, s, n) \/ (One(r.hi, n) /\ ~Flips(r, s, n))
  <2>1. One(half, n) <=> FlipsLeft(r, s, n)
    BY <1>6, <1>7 DEF FlipsLeft
  <2>2. One(flip, n) <=> FlipsLeft(r, s, n) \/ Flips(r, s, n)
    <3>1. \A m \in Positions : m >= n <=> m > n \/ m = n
      BY <1>0
    <3> QED BY <1>6, <1>7, <3>1 DEF FlipsLeft
  <2> QED BY <1>9, <1>10, <2>1, <2>2
<1> QED BY <1>10, <1>11, <1>12 DEF SameSign

LEMMA FlipForBits ==
  ASSUME NEW r, NEW s, Pattern(r), Pattern(s), SameSign(r.hi, s.hi)
  PROVE  /\ FlipFor(r, s) \in Wide /\ SameSign(FlipFor(r, s), r.hi)
         /\ \A n \in Positions :
              One(FlipFor(r, s), n) <=> One(s.hi, n) /\ (One(r.hi, n) \/ FlipsLeft(r, s, n))
<1> DEFINE w == Flipped(r, s)
<1>0. s.hi \in Wide
  BY DEF Pattern
<1>1. /\ FlipFor(r, s) = And2(w, s.hi) /\ w \in Wide /\ SameSign(w, r.hi)
      /\ \A n \in Positions : One(w, n) <=> \/ FlipsLeft(r, s, n)
                                            \/ One(r.hi, n) /\ ~Flips(r, s, n)
  BY FlippedBits
<1> HIDE DEF w
<1>2. /\ And2(w, s.hi) \in Wide /\ (And2(w, s.hi) < 0 <=> w < 0 /\ s.hi < 0)
      /\ \A n \in Positions : One(And2(w, s.hi), n) <=> One(w, n) /\ One(s.hi, n)
  BY <1>0, <1>1, AndBits
<1>3. \A n \in Positions : One(s.hi, n) => ~Flips(r, s, n)
  BY DEF Flips
<1> QED BY <1>1, <1>2, <1>3 DEF SameSign

(* a & b is beyond FlipFor(r, s): s may drop a bit that r.hi lacks, and no *)
(* bit on its left flips in r.                                             *)
LEMMA AndBeyond ==
  ASSUME NEW r, NEW s, Pattern(r), Pattern(s), SameSign(r.hi, s.hi),
         NEW a \in Wide, r.lo <= a, a <= r.hi, NEW b \in Wide, s.lo <= b, b <= s.hi,
         FlipFor(r, s) < And2(a, b)
  PROVE  \E m \in Positions : Flips(s, r, m) /\ ~FlipsLeft(r, s, m)
<1>0. Width \in Nat /\ \A k \in Positions : k \in Int
  BY IntervalAssumption DEF Positions
<1> DEFINE F == FlipFor(r, s)
           v == And2(a, b)
<1>1. /\ F \in Wide /\ SameSign(F, r.hi)
      /\ \A n \in Positions : One(F, n) <=> One(s.hi, n) /\ (One(r.hi, n) \/ FlipsLeft(r, s, n))
  BY FlipForBits
<1>2. /\ v \in Wide /\ (v < 0 <=> a < 0 /\ b < 0)
      /\ \A n \in Positions : One(v, n) <=> One(a, n) /\ One(b, n)
  BY AndBits
<1>3. F < v
  OBVIOUS
<1> HIDE DEF F, v
<1>4. SameSign(F, v)
  <2>1. SameSign(a, r.hi) /\ SameSign(b, s.hi)
    BY Inside
  <2> QED BY <1>1, <1>2, <2>1 DEF SameSign
<1>5. PICK n \in Positions :
        /\ ~One(F, n) /\ One(v, n)
        /\ \A m \in Positions : m > n => (One(F, m) <=> One(v, m))
  BY <1>1, <1>2, <1>3, <1>4, TopDifference
<1>6. One(a, n) /\ One(b, n)
  BY <1>2, <1>5
<1>7. ~One(s.hi, n)
  <2>1. SUFFICES ASSUME One(s.hi, n) PROVE FALSE
    OBVIOUS
  <2>2. ~One(r.hi, n) /\ ~FlipsLeft(r, s, n)
    BY <1>1, <1>5, <2>1
  <2>3. PICK m \in Positions : m > n /\ One(r.hi, m) /\ ~One(a, m) /\ Drops(r, m)
    BY <1>6, <2>2, DropsForBit
  <2>4. ~One(F, m)
    BY <1>2, <1>5, <2>3
  <2>5. ~One(s.hi, m)
    BY <1>1, <2>3, <2>4
  <2> QED BY <2>2, <2>3, <2>5 DEF Flips, FlipsLeft
<1>8. PICK m \in Positions : m > n /\ One(s.hi, m) /\ ~One(b, m) /\ Drops(s, m)
  BY <1>6, <1>7, DropsForBit
<1>9. ~One(F, m)
  BY <1>2, <1>5, <1>8
<1>10. ~One(r.hi, m) /\ ~FlipsLeft(r, s, m)
  BY <1>1, <1>8, <1>9
<1>11. Flips(s, r, m)
  BY <1>8, <1>10 DEF Flips
<1> QED BY <1>10, <1>11

LEMMA FlipsSound ==
  ASSUME NEW r, NEW s, Pattern(r), Pattern(s), SameSign(r.hi, s.hi),
         NEW a \in Wide, r.lo <= a, a <= r.hi, NEW b \in Wide, s.lo <= b, b <= s.hi,
         FlipFor(r, s) < And2(a, b), FlipFor(s, r) < And2(b, a)
  PROVE  FALSE
<1>0. Width \in Nat /\ \A k \in Positions : k \in Int
  BY IntervalAssumption DEF Positions
<1>1. SameSign(s.hi, r.hi)
  BY DEF SameSign
<1>2. PICK m \in Positions : Flips(s, r, m) /\ ~FlipsLeft(r, s, m)
  BY AndBeyond
<1>3. PICK l \in Positions : Flips(r, s, l) /\ ~FlipsLeft(s, r, l)
  BY <1>1, AndBeyond
<1>4. l # m /\ ~(l > m) /\ ~(m > l)
  BY <1>2, <1>3 DEF Flips, FlipsLeft
<1> QED BY <1>0, <1>4

LEMMA PairMax ==
  ASSUME NEW i \in Int, NEW j \in Int
  PROVE  Max({i, j}) \in {i, j} /\ i <= Max({i, j}) /\ j <= Max({i, j})
<1>1. \E m \in {i, j} : \A k \in {i, j} : m >= k
  <2>1. i >= i /\ j >= j
    OBVIOUS
  <2>2. CASE i >= j
    BY <2>1, <2>2
  <2>3. CASE j >= i
    BY <2>1, <2>3
  <2> QED BY <2>2, <2>3
<1>2. Max({i, j}) \in {i, j} /\ \A k \in {i, j} : Max({i, j}) >= k
  BY <1>1 DEF Max
<1> QED BY <1>2

LEMMA PairMin ==
  ASSUME NEW i \in Int, NEW j \in Int
  PROVE  Min({i, j}) \in {i, j} /\ Min({i, j}) <= i /\ Min({i, j}) <= j
<1>1. \E m \in {i, j} : \A k \in {i, j} : m <= k
  <2>1. i <= i /\ j <= j
    OBVIOUS
  <2>2. CASE i <= j
    BY <2>1, <2>2
  <2>3. CASE j <= i
    BY <2>1, <2>3
  <2> QED BY <2>2, <2>3
<1>2. Min({i, j}) \in {i, j} /\ \A k \in {i, j} : Min({i, j}) <= k
  BY <1>1 DEF Min
<1> QED BY <1>2

(* a & b has no bit that a has not, a | b all of them.                     *)
LEMMA AndBelow ==
  ASSUME NEW i \in Wide, NEW j \in Wide, SameSign(i, j)
  PROVE  And2(i, j) \in Int /\ And2(i, j) <= i /\ And2(i, j) <= j
<1> DEFINE v == And2(i, j)
<1>1. /\ v \in Wide /\ (v < 0 <=> i < 0 /\ j < 0)
      /\ \A n \in Positions : One(v, n) <=> One(i, n) /\ One(j, n)
  BY AndBits
<1> HIDE DEF v
<1>2. SameSign(v, i) /\ SameSign(v, j)
  BY <1>1 DEF SameSign
<1>3. v <= i /\ v <= j
  BY <1>1, <1>2, FewerBits
<1>4. v \in Int
  BY <1>1, ShrEnds
<1> QED BY <1>3, <1>4 DEF v

LEMMA OrAbove ==
  ASSUME NEW i \in Wide, NEW j \in Wide, SameSign(i, j)
  PROVE  Or2(i, j) \in Int /\ i <= Or2(i, j) /\ j <= Or2(i, j)
<1> DEFINE v == Or2(i, j)
<1>1. /\ v \in Wide /\ (v < 0 <=> i < 0 \/ j < 0)
      /\ \A n \in Positions : One(v, n) <=> One(i, n) \/ One(j, n)
  BY OrBits
<1> HIDE DEF v
<1>2. SameSign(i, v) /\ SameSign(j, v)
  BY <1>1 DEF SameSign
<1>3. i <= v /\ j <= v
  BY <1>1, <1>2, FewerBits
<1>4. v \in Int
  BY <1>1, ShrEnds
<1> QED BY <1>3, <1>4 DEF v

LEMMA AndCommutes ==
  ASSUME NEW i \in Wide, NEW j \in Wide
  PROVE  And2(i, j) = And2(j, i)
<1>1. /\ And2(i, j) \in Wide /\ (And2(i, j) < 0 <=> i < 0 /\ j < 0)
      /\ \A n \in Positions : One(And2(i, j), n) <=> One(i, n) /\ One(j, n)
  BY AndBits
<1>2. /\ And2(j, i) \in Wide /\ (And2(j, i) < 0 <=> j < 0 /\ i < 0)
      /\ \A n \in Positions : One(And2(j, i), n) <=> One(j, n) /\ One(i, n)
  BY AndBits
<1>3. SameSign(And2(i, j), And2(j, i))
  BY <1>1, <1>2 DEF SameSign
<1>4. \A n \in Positions : One(And2(i, j), n) <=> One(And2(j, i), n)
  BY <1>1, <1>2
<1> QED BY <1>1, <1>2, <1>3, <1>4, SameBits

(* No a & b is beyond andMax.                                              *)
LEMMA AndMaxSound ==
  ASSUME NEW r, NEW s, Pattern(r), Pattern(s), SameSign(r.hi, s.hi),
         NEW a \in Wide, r.lo <= a, a <= r.hi, NEW b \in Wide, s.lo <= b, b <= s.hi
  PROVE  And2(a, b) <= andMax(r, s)
<1>0. r.hi \in Int /\ s.hi \in Int /\ a \in Int /\ b \in Int
  BY ShrEnds DEF Pattern
<1>1. And2(a, b) \in Int /\ And2(a, b) <= a /\ And2(a, b) <= b
  <2>1. SameSign(a, r.hi) /\ SameSign(b, s.hi)
    BY Inside
  <2>2. SameSign(a, b)
    BY <2>1 DEF SameSign
  <2> QED BY <2>2, AndBelow
<1>2. CASE s.hi >= r.lo /\ r.hi >= s.lo
  <2>1. andMax(r, s) \in {r.hi, s.hi}
    BY <1>0, <1>2, PairMin DEF andMax
  <2> QED BY <1>0, <1>1, <2>1
<1>3. CASE ~(s.hi >= r.lo /\ r.hi >= s.lo)
  <2> DEFINE F == FlipFor(r, s)
             G == FlipFor(s, r)
  <2>1. F \in Wide /\ G \in Wide
    <3>1. SameSign(s.hi, r.hi)
      BY DEF SameSign
    <3> QED BY <3>1, FlipForBits
  <2>2. F \in Int /\ G \in Int
    BY <2>1, ShrEnds
  <2>3. ~(F < And2(a, b) /\ G < And2(a, b))
    <3>1. And2(a, b) = And2(b, a)
      BY AndCommutes
    <3> QED BY <3>1, FlipsSound
  <2>4. andMax(r, s) = Max({F, G})
    BY <1>3 DEF andMax
  <2> HIDE DEF F, G
  <2>5. Max({F, G}) \in Int /\ F <= Max({F, G}) /\ G <= Max({F, G})
    BY <2>2, PairMax
  <2> QED BY <1>1, <2>2, <2>3, <2>4, <2>5
<1> QED BY <1>2, <1>3

LEMMA AndMaxTyped ==
  ASSUME NEW r, NEW s, Pattern(r), Pattern(s), SameSign(r.hi, s.hi)
  PROVE  andMax(r, s) \in Wide /\ andMax(r, s) \in Int
<1>0. r.hi \in Wide /\ s.hi \in Wide /\ r.hi \in Int /\ s.hi \in Int
  BY ShrEnds DEF Pattern
<1>1. SameSign(s.hi, r.hi)
  BY DEF SameSign
<1>2. FlipFor(r, s) \in Wide /\ FlipFor(s, r) \in Wide
  BY <1>1, FlipForBits
<1>3. FlipFor(r, s) \in Int /\ FlipFor(s, r) \in Int
  BY <1>2, ShrEnds
<1>4. andMax(r, s) \in {r.hi, s.hi, FlipFor(r, s), FlipFor(s, r)}
  <2>1. Min({r.hi, s.hi}) \in {r.hi, s.hi}
    BY <1>0, PairMin
  <2>2. Max({FlipFor(r, s), FlipFor(s, r)}) \in {FlipFor(r, s), FlipFor(s, r)}
    BY <1>3, PairMax
  <2> QED BY <2>1, <2>2 DEF andMax
<1> QED BY <1>0, <1>2, <1>3, <1>4

-----------------------------------------------------------------------------
(* Ranges without negative integers, and their complements.                *)

WideRanges == [lo : Wide \cup {nil}, hi : Wide \cup {nil}]

LEMMA NilIsNotWide == nil \notin Wide /\ \A i \in Wide : i \in Int
  BY IntervalAssumption, ShrEnds

LEMMA Natural ==
  ASSUME NEW r \in WideRanges, ~Empty(r), ~ContainsNegative(r)
  PROVE  /\ r.lo \in Wide /\ r.lo # nil /\ ~(r.lo < 0) /\ r.lo \in Int
         /\ r.hi # nil => /\ Pattern(r) /\ ~(r.hi < 0) /\ r.hi \in Int /\ r.hi \in Wide
                          /\ r.lo <= r.hi
<1>0. nil \notin Wide /\ \A i \in Wide : i \in Int
  BY NilIsNotWide
<1>1. r.lo \in Wide \cup {nil} /\ r.hi \in Wide \cup {nil}
  BY DEF WideRanges
<1>2. r.lo \in Wide /\ r.lo # nil /\ r.lo \in Int
  BY <1>0, <1>1 DEF ContainsNegative
<1>3. ASSUME r.hi # nil PROVE r.hi \in Wide /\ r.hi \in Int /\ r.lo <= r.hi
  BY <1>0, <1>1, <1>2, <1>3 DEF Empty
<1>4. ~(r.lo < 0)
  <2>1. r.hi = nil \/ r.lo <= r.hi
    BY <1>3
  <2> QED BY <2>1 DEF ContainsNegative
<1>5. ASSUME r.hi # nil PROVE ~(r.hi < 0)
  BY <1>2, <1>3, <1>4, <1>5
<1> QED BY <1>2, <1>3, <1>4, <1>5 DEF Pattern, SameSign

LEMMA Complement ==
  ASSUME NEW r, Pattern(r), ~(r.hi < 0)
  PROVE  /\ Pattern(NotRange(r)) /\ NotRange(r).hi < 0
         /\ \A a \in Wide : r.lo <= a /\ a <= r.hi =>
              /\ Not(a) \in Wide
              /\ NotRange(r).lo <= Not(a) /\ Not(a) <= NotRange(r).hi
<1>0. r.lo \in Wide /\ r.hi \in Wide /\ r.lo <= r.hi /\ ~(r.lo < 0)
  BY DEF Pattern, SameSign
<1>1. r.lo \in Int /\ r.hi \in Int /\ \A i \in Wide : i \in Int
  BY <1>0, ShrEnds
<1>2. NotRange(r).lo = Not(r.hi) /\ NotRange(r).hi = Not(r.lo)
  BY DEF NotRange, IntRange
<1>3. /\ Not(r.hi) \in Wide /\ Not(r.lo) \in Wide
      /\ Not(r.hi) < 0 /\ Not(r.lo) < 0
  BY <1>0, NotBits
<1>4. Not(r.hi) <= Not(r.lo)
  BY <1>0, <1>1 DEF Not
<1>5. ASSUME NEW a \in Wide, r.lo <= a, a <= r.hi
      PROVE  Not(a) \in Wide /\ Not(r.hi) <= Not(a) /\ Not(a) <= Not(r.lo)
  <2>1. Not(a) \in Wide
    BY NotBits
  <2> QED BY <1>1, <1>5, <2>1 DEF Not
<1> QED BY <1>2, <1>3, <1>4, <1>5 DEF Pattern, SameSign

LEMMA DeMorgan ==
  ASSUME NEW a \in Wide, NEW b \in Wide
  PROVE  Or2(Not(a), Not(b)) = Not(And2(a, b)) /\ Or2(a, b) = Not(And2(Not(a), Not(b)))
<1>1. Not(Not(a)) = a /\ Not(Not(b)) = b
  BY NotBits
<1> QED BY <1>1 DEF Or2

(* No a | b is below orMin.                                                *)
LEMMA OrMinSound ==
  ASSUME NEW r, NEW s, Pattern(r), Pattern(s), ~(r.hi < 0), ~(s.hi < 0),
         NEW a \in Wide, r.lo <= a, a <= r.hi, NEW b \in Wide, s.lo <= b, b <= s.hi
  PROVE  orMin(r, s) \in Int /\ orMin(r, s) <= Or2(a, b)
<1> DEFINE R == NotRange(r)
           S == NotRange(s)
           M == andMax(R, S)
           v == And2(Not(a), Not(b))
<1>1. /\ Pattern(R) /\ R.hi < 0 /\ Not(a) \in Wide /\ R.lo <= Not(a) /\ Not(a) <= R.hi
  BY Complement
<1>2. /\ Pattern(S) /\ S.hi < 0 /\ Not(b) \in Wide /\ S.lo <= Not(b) /\ Not(b) <= S.hi
  BY Complement
<1> HIDE DEF R, S
<1>3. SameSign(R.hi, S.hi)
  BY <1>1, <1>2 DEF SameSign
<1>4. v <= M
  BY <1>1, <1>2, <1>3, AndMaxSound
<1>5. v \in Int /\ M \in Int
  <2>1. v \in Int
    BY <1>1, <1>2, AndBits, ShrEnds
  <2>2. M \in Int
    BY <1>1, <1>2, <1>3, AndMaxTyped
  <2> QED BY <2>1, <2>2
<1>6. Or2(a, b) = Not(v) /\ orMin(r, s) = Not(M)
  BY DEF Or2, orMin, R, S
<1> HIDE DEF v, M
<1> QED BY <1>4, <1>5, <1>6 DEF Not

(* And is sound: no two integers of the ranges have a bit-wise and outside *)
(* of the range that it returns.                                           *)
THEOREM AndSound ==
  ASSUME NEW r \in WideRanges, NEW s \in WideRanges, NEW a \in Wide, NEW b \in Wide,
         Contains(r, a), Contains(s, b), And(r, s).ok
  PROVE  Contains(And(r, s).z, And2(a, b))
<1>0. ~Empty(r) /\ ~Empty(s)
  BY NilIsNotWide DEF WideRanges, Empty, Contains
<1>1. ~ContainsNegative(r) /\ ~ContainsNegative(s)
  BY <1>0 DEF And, Failure
<1>2. /\ r.lo \in Wide /\ r.lo # nil /\ ~(r.lo < 0) /\ r.lo \in Int
      /\ r.hi # nil => /\ Pattern(r) /\ ~(r.hi < 0) /\ r.hi \in Int
                       /\ r.hi \in Wide /\ r.lo <= r.hi
  BY <1>0, <1>1, Natural
<1>3. /\ s.lo \in Wide /\ s.lo # nil /\ ~(s.lo < 0) /\ s.lo \in Int
      /\ s.hi # nil => /\ Pattern(s) /\ ~(s.hi < 0) /\ s.hi \in Int
                       /\ s.hi \in Wide /\ s.lo <= s.hi
  BY <1>0, <1>1, Natural
<1>4. /\ a \in Int /\ b \in Int
      /\ r.lo <= a /\ (r.hi # nil => a <= r.hi) /\ s.lo <= b /\ (s.hi # nil => b <= s.hi)
  BY <1>2, <1>3, NilIsNotWide DEF Contains
<1>5. ~(a < 0) /\ ~(b < 0)
  BY <1>2, <1>3, <1>4
<1> DEFINE v == And2(a, b)
<1>6. v \in Int /\ v <= a /\ v <= b /\ ~(v < 0)
  <2>1. SameSign(a, b)
    BY <1>5 DEF SameSign
  <2>2. v < 0 <=> a < 0 /\ b < 0
    BY AndBits
  <2> QED BY <1>5, <2>1, <2>2, AndBelow
<1>7. CASE r.hi = nil \/ s.hi = nil
  <2>1. And(r, s).z = IntRange(0, IF r.hi # nil THEN r.hi ELSE s.hi)
    BY <1>0, <1>1, <1>7 DEF And, Success
  <2> DEFINE h == IF r.hi # nil THEN r.hi ELSE s.hi
  <2>2. h = nil \/ (h \in Int /\ h >= v)
    BY <1>2, <1>3, <1>4, <1>6
  <2>3. 0 <= v
    BY <1>6
  <2> HIDE DEF h, v
  <2>4. Contains(IntRange(0, h), v)
    BY <2>2, <2>3 DEF Contains, IntRange
  <2> QED BY <2>1, <2>4 DEF h, v
<1>8. CASE r.hi # nil /\ s.hi # nil
  <2> DEFINE R == NotRange(r)
             S == NotRange(s)
             L == orMax(R, S)
             H == andMax(r, s)
  <2>1. And(r, s).z = IntRange(Not(L), H)
    BY <1>0, <1>1, <1>8 DEF And, Success
  <2>2. v <= H
    <3>1. SameSign(r.hi, s.hi)
      BY <1>2, <1>3, <1>8 DEF SameSign
    <3> QED BY <1>2, <1>3, <1>4, <1>8, <3>1, AndMaxSound
  <2>3. /\ Pattern(R) /\ R.hi < 0 /\ Not(a) \in Wide /\ R.lo <= Not(a) /\ Not(a) <= R.hi
    BY <1>2, <1>4, <1>8, Complement
  <2>4. /\ Pattern(S) /\ S.hi < 0 /\ Not(b) \in Wide /\ S.lo <= Not(b) /\ Not(b) <= S.hi
    BY <1>3, <1>4, <1>8, Complement
  <2> HIDE DEF R, S
  <2>5. SameSign(R.hi, S.hi)
    BY <2>3, <2>4 DEF SameSign
  <2>6. Or2(Not(a), Not(b)) <= L
    BY <2>3, <2>4, <2>5, OrMaxSound
  <2>7. L \in Int
    BY <2>3, <2>4, <2>5, OrMaxBits, ShrEnds
  <2>8. Or2(Not(a), Not(b)) = Not(v)
    BY DeMorgan
  <2>9. H \in Int
    <3>1. SameSign(r.hi, s.hi)
      BY <1>2, <1>3, <1>8 DEF SameSign
    <3> QED BY <1>2, <1>3, <1>8, <3>1, AndMaxTyped
  <2> HIDE DEF L, H, v
  <2>10. Not(L) \in Int /\ Not(L) <= v
    BY <1>6, <2>6, <2>7, <2>8 DEF Not
  <2>11. Contains(IntRange(Not(L), H), v)
    BY <1>6, <2>2, <2>9, <2>10 DEF Contains, IntRange
  <2> QED BY <2>1, <2>11 DEF v
<1> QED BY <1>7, <1>8

LEMMA OrCommutes ==
  ASSUME NEW i \in Wide, NEW j \in Wide
  PROVE  Or2(i, j) = Or2(j, i)
<1>1. Not(i) \in Wide /\ Not(j) \in Wide
  BY NotBits
<1> QED BY <1>1, AndCommutes DEF Or2

(* The integers up to the next power of two are what a and l can make.     *)
LEMMA FillAbove ==
  ASSUME NEW l \in Unsigned, NEW a \in Unsigned, a <= l
  PROVE  /\ bitFillRight[l] \in Unsigned /\ l <= bitFillRight[l]
         /\ Or2(a, l) <= bitFillRight[l]
<1> DEFINE f == bitFillRight[l]
           v == Or2(a, l)
<1>0. /\ l \in Wide /\ ~(l < 0) /\ a \in Wide /\ ~(a < 0) /\ l \in Int /\ a \in Int
      /\ Width \in Nat /\ \A k \in Positions : k \in Int
  BY UnsignedIsWide, ShrEnds, IntervalAssumption DEF Positions
<1>1. /\ f \in Unsigned
      /\ \A n \in Positions : One(f, n) <=> \E m \in Positions : m >= n /\ One(l, m)
  BY FillBits
<1> HIDE DEF f
<1>2. f \in Wide /\ ~(f < 0)
  BY <1>1, UnsignedIsWide
<1>3. \A n \in Positions : One(l, n) => One(f, n)
  <2>1. \A n \in Positions : n >= n
    BY <1>0
  <2> QED BY <1>1, <2>1
<1>4. SameSign(l, f) /\ SameSign(a, l)
  BY <1>0, <1>2 DEF SameSign
<1>5. l <= f
  BY <1>0, <1>2, <1>3, <1>4, FewerBits
<1>6. ASSUME NEW n \in Positions, One(a, n) PROVE One(f, n)
  <2>1. CASE One(l, n)
    BY <1>3, <2>1
  <2>2. CASE ~One(l, n)
    <3>1. a # l /\ a < l
      BY <1>0, <1>6, <2>2
    <3>2. PICK m \in Positions :
            /\ ~One(a, m) /\ One(l, m)
            /\ \A k \in Positions : k > m => (One(a, k) <=> One(l, k))
      BY <1>0, <1>4, <3>1, TopDifference
    <3>3. ~(n > m)
      BY <1>6, <2>2, <3>2
    <3>4. m >= n
      BY <1>0, <3>3
    <3> QED BY <1>1, <3>2, <3>4
  <2> QED BY <2>1, <2>2
<1>7. /\ v \in Wide /\ (v < 0 <=> a < 0 \/ l < 0)
      /\ \A n \in Positions : One(v, n) <=> One(a, n) \/ One(l, n)
  BY <1>0, OrBits
<1> HIDE DEF v
<1>8. SameSign(v, f)
  BY <1>0, <1>2, <1>7 DEF SameSign
<1>9. v <= f
  BY <1>2, <1>3, <1>6, <1>7, <1>8, FewerBits
<1> QED BY <1>1, <1>5, <1>9 DEF f, v

(* l.. is cut at the next power of two: no larger b has a smaller a | b.   *)
LEMMA OrMinBelowSound ==
  ASSUME NEW r, Pattern(r), ~(r.hi < 0), NEW l \in Unsigned, r.hi < l,
         NEW a \in Wide, r.lo <= a, a <= r.hi, NEW b \in Wide, l <= b
  PROVE  LET low == orMin(r, IntRange(l, bitFillRight[l]))
         IN  low \in Int /\ low <= Or2(a, b)
<1> DEFINE f == bitFillRight[l]
           s == IntRange(l, f)
           low == orMin(r, s)
<1>0. /\ l \in Wide /\ ~(l < 0) /\ l \in Int /\ a \in Int /\ b \in Int
      /\ r.hi \in Int /\ r.lo \in Int /\ SameSign(a, r.hi)
  BY UnsignedIsWide, ShrEnds, Inside DEF Pattern
<1>1. ~(a < 0) /\ ~(b < 0) /\ a <= l
  BY <1>0 DEF SameSign
<1>2. a \in Unsigned
  BY <1>1, UnsignedIsWide
<1>3. f \in Unsigned /\ l <= f /\ Or2(a, l) <= f
  BY <1>1, <1>2, FillAbove
<1> HIDE DEF f
<1>4. f \in Wide /\ ~(f < 0) /\ f \in Int
  BY <1>3, UnsignedIsWide, ShrEnds
<1>5. s.lo = l /\ s.hi = f
  BY DEF IntRange
<1>6. Pattern(s)
  BY <1>0, <1>3, <1>4, <1>5 DEF Pattern, SameSign
<1> HIDE DEF s
<1>7. low \in Int /\ low <= Or2(a, l)
  BY <1>0, <1>3, <1>4, <1>5, <1>6, OrMinSound
<1>8. b <= f => low <= Or2(a, b)
  BY <1>4, <1>5, <1>6, OrMinSound
<1>9. Or2(a, b) \in Int /\ b <= Or2(a, b) /\ Or2(a, l) \in Int
  <2>1. SameSign(a, b) /\ SameSign(a, l)
    BY <1>0, <1>1 DEF SameSign
  <2> QED BY <1>0, <2>1, OrAbove
<1> HIDE DEF low
<1>10. low <= Or2(a, b)
  BY <1>0, <1>3, <1>4, <1>7, <1>8, <1>9
<1> QED BY <1>7, <1>10 DEF low, s, f

(* Or is sound: no two integers of the ranges have a bit-wise or outside   *)
(* of the range that it returns.                                           *)
THEOREM OrSound ==
  ASSUME NEW r \in WideRanges, NEW s \in WideRanges, NEW a \in Wide, NEW b \in Wide,
         Contains(r, a), Contains(s, b), Or(r, s).ok
  PROVE  Contains(Or(r, s).z, Or2(a, b))
<1>0. ~Empty(r) /\ ~Empty(s)
  BY NilIsNotWide DEF WideRanges, Empty, Contains
<1>1. ~ContainsNegative(r) /\ ~ContainsNegative(s)
  BY <1>0 DEF Or, Failure
<1>2. /\ r.lo \in Wide /\ r.lo # nil /\ ~(r.lo < 0) /\ r.lo \in Int
      /\ r.hi # nil => /\ Pattern(r) /\ ~(r.hi < 0) /\ r.hi \in Int
                       /\ r.hi \in Wide /\ r.lo <= r.hi
  BY <1>0, <1>1, Natural
<1>3. /\ s.lo \in Wide /\ s.lo # nil /\ ~(s.lo < 0) /\ s.lo \in Int
      /\ s.hi # nil => /\ Pattern(s) /\ ~(s.hi < 0) /\ s.hi \in Int
                       /\ s.hi \in Wide /\ s.lo <= s.hi
  BY <1>0, <1>1, Natural
<1>4. /\ a \in Int /\ b \in Int
      /\ r.lo <= a /\ (r.hi # nil => a <= r.hi) /\ s.lo <= b /\ (s.hi # nil => b <= s.hi)
  BY <1>2, <1>3, NilIsNotWide DEF Contains
<1> DEFINE v == Or2(a, b)
<1>5. v \in Int /\ a <= v /\ b <= v
  <2>1. SameSign(a, b)
    BY <1>2, <1>3, <1>4 DEF SameSign
  <2> QED BY <2>1, OrAbove
<1>6. CASE r.hi # nil /\ s.hi # nil
  <2> DEFINE L == orMin(r, s)
             H == orMax(r, s)
  <2>1. Or(r, s).z = IntRange(L, H)
    BY <1>0, <1>1, <1>6 DEF Or, Success
  <2>2. L \in Int /\ L <= v
    BY <1>2, <1>3, <1>4, <1>6, OrMinSound
  <2>3. SameSign(r.hi, s.hi)
    BY <1>2, <1>3, <1>6 DEF SameSign
  <2>4. v <= H
    BY <1>2, <1>3, <1>4, <1>6, <2>3, OrMaxSound
  <2>5. H \in Int
    BY <1>2, <1>3, <1>6, <2>3, OrMaxBits, ShrEnds
  <2> HIDE DEF L, H, v
  <2>6. Contains(IntRange(L, H), v)
    BY <1>5, <2>2, <2>4, <2>5 DEF Contains, IntRange
  <2> QED BY <2>1, <2>6 DEF v
<1>7. ASSUME NEW c \in Int, c <= v PROVE Contains(IntRange(c, nil), v)
  <2> HIDE DEF v
  <2> QED BY <1>5, <1>7 DEF Contains, IntRange
<1>8. CASE r.hi = nil \/ s.hi = nil
  <2>1. Or(r, s) = OrUnbounded(r, s)
    BY <1>0, <1>1, <1>8 DEF Or
  <2>2. CASE Contains(r, s.lo)
    <3>1. Or(r, s).z = IntRange(s.lo, nil)
      BY <2>1, <2>2 DEF OrUnbounded, Success
    <3>2. s.lo <= v
      BY <1>3, <1>4, <1>5
    <3> QED BY <1>3, <1>7, <3>1, <3>2
  <2>3. CASE ~Contains(r, s.lo) /\ Contains(s, r.lo)
    <3>1. Or(r, s).z = IntRange(r.lo, nil)
      BY <2>1, <2>3 DEF OrUnbounded, Success
    <3>2. r.lo <= v
      BY <1>2, <1>4, <1>5
    <3> QED BY <1>2, <1>7, <3>1, <3>2
  <2>4. CASE ~Contains(r, s.lo) /\ ~Contains(s, r.lo)
    <3>1. ~(r.hi = nil /\ s.hi = nil)
      BY <2>1, <2>4 DEF OrUnbounded, Panic
    <3>2. CASE r.hi = nil
      <4>1. Or(r, s) = OrMinBelow(s, r) /\ s.hi # nil
        BY <2>1, <2>4, <3>1, <3>2 DEF OrUnbounded
      <4>2. ~(s.hi >= r.lo)
        BY <4>1 DEF OrMinBelow, Panic
      <4> DEFINE low == orMin(s, IntRange(r.lo, bitFillRight[r.lo]))
      <4>3. Or(r, s).z = IntRange(low, nil)
        BY <4>1, <4>2 DEF OrMinBelow, Success
      <4>4. r.lo \in Unsigned /\ s.hi < r.lo
        BY <1>2, <1>3, <4>1, <4>2, UnsignedIsWide
      <4>5. low \in Int /\ low <= Or2(b, a)
        BY <1>3, <1>4, <4>1, <4>4, OrMinBelowSound
      <4>6. Or2(b, a) = v
        BY OrCommutes
      <4> HIDE DEF low, v
      <4> QED BY <1>7, <4>3, <4>5, <4>6 DEF v
    <3>3. CASE r.hi # nil
      <4>1. Or(r, s) = OrMinBelow(r, s)
        BY <2>1, <2>4, <3>1, <3>3 DEF OrUnbounded
      <4>2. ~(r.hi >= s.lo)
        BY <4>1 DEF OrMinBelow, Panic
      <4> DEFINE low == orMin(r, IntRange(s.lo, bitFillRight[s.lo]))
      <4>3. Or(r, s).z = IntRange(low, nil)
        BY <4>1, <4>2 DEF OrMinBelow, Success
      <4>4. s.lo \in Unsigned /\ r.hi < s.lo
        BY <1>2, <1>3, <3>3, <4>2, UnsignedIsWide
      <4>5. low \in Int /\ low <= v
        BY <1>2, <1>4, <3>3, <4>4, OrMinBelowSound
      <4> HIDE DEF low, v
      <4> QED BY <1>7, <4>3, <4>5 DEF v
    <3> QED BY <3>2, <3>3
  <2> QED BY <2>2, <2>3, <2>4
<1> QED BY <1>6, <1>8

-----------------------------------------------------------------------------
(* The bounds are reached.                                                 *)

LEMMA GreatestPosition ==
  ASSUME NEW T, T \subseteq Positions, T # {}
  PROVE  \E p \in T : \A k \in T : k <= p
<1>0. Width \in Nat /\ \A k \in Positions : k \in Int /\ Width - k \in Nat
  BY IntervalAssumption DEF Positions
<1> DEFINE U == {Width - k : k \in T}
<1>1. U \subseteq Nat /\ U # {}
  BY <1>0
<1>2. PICK u \in U : \A w \in U : u <= w
  <2> HIDE DEF U
  <2> QED BY <1>1, LeastElement
<1>3. PICK p \in T : u = Width - p
  BY <1>2
<1>4. ASSUME NEW k \in T PROVE k <= p
  <2>1. Width - k \in U
    OBVIOUS
  <2>2. Width - p <= Width - k
    BY <1>2, <1>3, <2>1
  <2>3. k \in Int /\ p \in Int
    BY <1>0
  <2> QED BY <1>0, <2>2, <2>3
<1> QED BY <1>4

(* The largest integer of r without a bit that r may drop.                 *)
LEMMA DropWitness ==
  ASSUME NEW r, Pattern(r), NEW p \in Positions, One(r.hi, p), Drops(r, p)
  PROVE  \E a \in Wide :
           /\ r.lo <= a /\ a <= r.hi
           /\ \A n \in Positions : One(a, n) <=> n < p \/ (n > p /\ One(r.hi, n))
<1>0. /\ Width \in Nat /\ \A k \in Positions : k \in Int
      /\ r.lo \in Wide /\ r.hi \in Wide /\ r.lo \in Int /\ r.hi \in Int
      /\ SameSign(r.lo, r.hi)
  BY IntervalAssumption, ShrEnds DEF Pattern, Positions
<1>1. p \in 0..Width /\ p + 1 \in 0..Width
  BY <1>0 DEF Positions
<1> DEFINE half == 2^p - 1
           flip == 2^(p + 1) - 1
           kept == AndNot(r.hi, flip)
           a == Or2(half, kept)
<1>2. half \in Unsigned /\ \A n \in Positions : One(half, n) <=> n < p
  BY <1>1, OnesBits
<1>3. flip \in Unsigned /\ \A n \in Positions : One(flip, n) <=> n < p + 1
  BY <1>1, OnesBits
<1> HIDE DEF half, flip
<1>4. half \in Wide /\ ~(half < 0) /\ flip \in Wide /\ ~(flip < 0)
  BY <1>2, <1>3, UnsignedIsWide
<1>5. /\ kept \in Wide /\ (kept < 0 <=> r.hi < 0)
      /\ \A n \in Positions : One(kept, n) <=> One(r.hi, n) /\ ~One(flip, n)
  BY <1>0, <1>4, AndNotBits
<1> HIDE DEF kept
<1>6. /\ a \in Wide /\ (a < 0 <=> r.hi < 0)
      /\ \A n \in Positions : One(a, n) <=> One(half, n) \/ One(kept, n)
  BY <1>4, <1>5, OrBits
<1> HIDE DEF a
<1>7. ASSUME NEW n \in Positions PROVE One(a, n) <=> n < p \/ (n > p /\ One(r.hi, n))
  <2>1. ~(n < p + 1) <=> n > p
    BY <1>0
  <2> QED BY <1>2, <1>3, <1>5, <1>6, <2>1
<1>8. SameSign(a, r.hi) /\ SameSign(a, r.lo) /\ a \in Int
  BY <1>0, <1>6, ShrEnds DEF SameSign
<1>9. a < r.hi
  <2>1. ~One(a, p) /\ \A m \in Positions : m > p => (One(a, m) <=> One(r.hi, m))
    <3>1. ~(p < p) /\ ~(p > p) /\ \A m \in Positions : m > p => ~(m < p)
      BY <1>0
    <3> QED BY <1>7, <3>1
  <2> QED BY <1>0, <1>6, <1>8, <2>1, LessByBit
<1>10. ASSUME a < r.lo PROVE FALSE
  <2>1. PICK n \in Positions :
          /\ ~One(a, n) /\ One(r.lo, n)
          /\ \A m \in Positions : m > n => (One(a, m) <=> One(r.lo, m))
    BY <1>0, <1>6, <1>8, <1>10, TopDifference
  <2>2. n >= p /\ (n > p => ~One(r.hi, n))
    BY <1>0, <1>7, <2>1
  <2>3. ASSUME NEW m \in Positions, m > n PROVE One(r.lo, m) <=> One(r.hi, m)
    <3>1. m > p /\ ~(m < p)
      BY <1>0, <2>2, <2>3
    <3> QED BY <1>7, <2>1, <2>3, <3>1
  <2>4. CASE n > p
    <3>1. ~One(r.hi, n) /\ SameSign(r.hi, r.lo)
      BY <1>0, <2>2, <2>4 DEF SameSign
    <3>2. r.hi < r.lo
      BY <1>0, <2>1, <2>3, <3>1, LessByBit
    <3> QED BY <1>0, <3>2 DEF Pattern
  <2>5. CASE n = p
    <3>1. PICK k \in Positions : k >= p /\ Falls(r, k)
      BY DEF Drops
    <3>2. k > n \/ k = n
      BY <1>0, <2>5, <3>1
    <3> QED BY <2>1, <2>3, <3>1, <3>2 DEF Falls
  <2> QED BY <1>0, <2>2, <2>4, <2>5
<1>11. r.lo <= a /\ a <= r.hi
  BY <1>0, <1>8, <1>9, <1>10
<1> QED BY <1>6, <1>7, <1>11

LEMMA OrReachedBy ==
  ASSUME NEW r, NEW s, Pattern(r), Pattern(s), SameSign(r.hi, s.hi),
         NEW p \in Positions, Paid(r, s, p), Drops(r, p),
         \A m \in Positions : Paid(r, s, m) => m <= p
  PROVE  \E a \in Wide : r.lo <= a /\ a <= r.hi /\ Or2(a, s.hi) = orMax(r, s)
<1>0. /\ Width \in Nat /\ \A k \in Positions : k \in Int
      /\ s.hi \in Wide
  BY IntervalAssumption DEF Pattern, Positions
<1>1. PICK a \in Wide :
        /\ r.lo <= a /\ a <= r.hi
        /\ \A n \in Positions : One(a, n) <=> n < p \/ (n > p /\ One(r.hi, n))
  BY DropWitness DEF Paid
<1> DEFINE v == Or2(a, s.hi)
           M == orMax(r, s)
<1>2. /\ v \in Wide /\ (v < 0 <=> a < 0 \/ s.hi < 0)
      /\ \A n \in Positions : One(v, n) <=> One(a, n) \/ One(s.hi, n)
  BY <1>0, OrBits
<1>3. /\ M \in Wide /\ SameSign(M, r.hi)
      /\ \A n \in Positions : One(M, n) <=> \/ One(r.hi, n) \/ One(s.hi, n)
                                            \/ \E m \in Positions : m > n /\ Paid(r, s, m)
  BY OrMaxBits
<1> HIDE DEF v, M
<1>4. SameSign(v, M)
  <2>1. SameSign(a, r.hi)
    BY <1>1, Inside
  <2> QED BY <1>2, <1>3, <2>1 DEF SameSign
<1>5. ASSUME NEW n \in Positions PROVE One(v, n) <=> One(M, n)
  <2>1. CASE n < p
    <3>1. p > n
      BY <1>0, <2>1
    <3> QED BY <1>1, <1>2, <1>3, <2>1, <3>1
  <2>2. CASE n = p
    BY <1>2, <1>3, <2>2 DEF Paid
  <2>3. CASE n > p
    <3>1. \A m \in Positions : m > n => ~Paid(r, s, m)
      BY <1>0, <2>3
    <3>2. ~(n < p)
      BY <1>0, <2>3
    <3> QED BY <1>1, <1>2, <1>3, <2>3, <3>1, <3>2
  <2> QED BY <1>0, <2>1, <2>2, <2>3
<1>6. v = M
  BY <1>2, <1>3, <1>4, <1>5, SameBits
<1> QED BY <1>1, <1>6 DEF v, M

LEMMA OrMaxReached ==
  ASSUME NEW r, NEW s, Pattern(r), Pattern(s), SameSign(r.hi, s.hi)
  PROVE  \E a \in Wide, b \in Wide :
           /\ r.lo <= a /\ a <= r.hi /\ s.lo <= b /\ b <= s.hi
           /\ Or2(a, b) = orMax(r, s)
<1>0. /\ r.lo <= r.hi /\ s.lo <= s.hi /\ r.hi \in Wide /\ s.hi \in Wide
      /\ r.hi \in Int /\ s.hi \in Int /\ SameSign(s.hi, r.hi)
      /\ r.hi <= r.hi /\ s.hi <= s.hi
  BY ShrEnds DEF Pattern, SameSign
<1> DEFINE T == {m \in Positions : Paid(r, s, m)}
           M == orMax(r, s)
<1>1. CASE T = {}
  <2> DEFINE v == Or2(r.hi, s.hi)
  <2>1. /\ v \in Wide /\ (v < 0 <=> r.hi < 0 \/ s.hi < 0)
        /\ \A n \in Positions : One(v, n) <=> One(r.hi, n) \/ One(s.hi, n)
    BY <1>0, OrBits
  <2>2. /\ M \in Wide /\ SameSign(M, r.hi)
        /\ \A n \in Positions : One(M, n) <=> \/ One(r.hi, n) \/ One(s.hi, n)
                                              \/ \E m \in Positions : m > n /\ Paid(r, s, m)
    BY OrMaxBits
  <2> HIDE DEF v, M
  <2>3. SameSign(v, M)
    BY <2>1, <2>2 DEF SameSign
  <2>4. \A n \in Positions : One(v, n) <=> One(M, n)
    BY <1>1, <2>1, <2>2
  <2>5. v = M
    BY <2>1, <2>2, <2>3, <2>4, SameBits
  <2> QED BY <1>0, <2>5 DEF v, M
<1>2. CASE T # {}
  <2>1. PICK p \in T : \A k \in T : k <= p
    <3>1. T \subseteq Positions
      OBVIOUS
    <3> HIDE DEF T
    <3> QED BY <1>2, <3>1, GreatestPosition
  <2>2. p \in Positions /\ Paid(r, s, p) /\ \A m \in Positions : Paid(r, s, m) => m <= p
    BY <2>1
  <2>3. CASE Drops(r, p)
    <3>1. PICK a \in Wide : r.lo <= a /\ a <= r.hi /\ Or2(a, s.hi) = M
      BY <2>2, <2>3, OrReachedBy
    <3> HIDE DEF M
    <3> QED BY <1>0, <3>1 DEF M
  <2>4. CASE Drops(s, p)
    <3>1. \A m \in Positions : Paid(s, r, m) <=> Paid(r, s, m)
      BY DEF Paid
    <3>2. PICK b \in Wide : s.lo <= b /\ b <= s.hi /\ Or2(b, r.hi) = orMax(s, r)
      BY <1>0, <2>2, <2>4, <3>1, OrReachedBy
    <3>3. Or2(b, r.hi) = Or2(r.hi, b)
      BY <1>0, OrCommutes
    <3>4. orMax(s, r) = M
      <4> DEFINE N == orMax(s, r)
      <4>1. /\ N \in Wide /\ SameSign(N, s.hi)
            /\ \A n \in Positions : One(N, n) <=> \/ One(s.hi, n) \/ One(r.hi, n)
                                                  \/ \E m \in Positions : m > n /\ Paid(s, r, m)
        BY <1>0, OrMaxBits
      <4>2. /\ M \in Wide /\ SameSign(M, r.hi)
            /\ \A n \in Positions : One(M, n) <=> \/ One(r.hi, n) \/ One(s.hi, n)
                                                  \/ \E m \in Positions : m > n /\ Paid(r, s, m)
        BY OrMaxBits
      <4> HIDE DEF M, N
      <4>3. SameSign(N, M)
        BY <4>1, <4>2 DEF SameSign
      <4>4. \A n \in Positions : One(N, n) <=> One(M, n)
        BY <3>1, <4>1, <4>2
      <4>5. N = M
        BY <4>1, <4>2, <4>3, <4>4, SameBits
      <4> QED BY <4>5 DEF N
    <3> HIDE DEF M
    <3>5. Or2(r.hi, b) = M
      BY <3>2, <3>3, <3>4
    <3> QED BY <1>0, <3>2, <3>5 DEF M
  <2> QED BY <2>2, <2>3, <2>4 DEF Paid
<1> QED BY <1>1, <1>2

LEMMA FlipReached ==
  ASSUME NEW r, NEW s, Pattern(r), Pattern(s), SameSign(r.hi, s.hi)
  PROVE  \E a \in Wide : r.lo <= a /\ a <= r.hi /\ And2(a, s.hi) = FlipFor(r, s)
<1>0. /\ Width \in Nat /\ \A k \in Positions : k \in Int
      /\ r.lo <= r.hi /\ r.hi \in Wide /\ s.hi \in Wide /\ r.hi \in Int /\ r.hi <= r.hi
  BY IntervalAssumption, ShrEnds DEF Pattern, Positions
<1> DEFINE F == FlipFor(r, s)
           T == {m \in Positions : Flips(r, s, m)}
<1>1. /\ F \in Wide /\ SameSign(F, r.hi)
      /\ \A n \in Positions : One(F, n) <=> One(s.hi, n) /\ (One(r.hi, n) \/ FlipsLeft(r, s, n))
  BY FlipForBits
<1> HIDE DEF F
<1>2. ASSUME NEW a \in Wide, SameSign(a, r.hi),
             \A n \in Positions :
               One(s.hi, n) => (One(a, n) <=> One(r.hi, n) \/ FlipsLeft(r, s, n))
      PROVE  And2(a, s.hi) = F
  <2> DEFINE v == And2(a, s.hi)
  <2>1. /\ v \in Wide /\ (v < 0 <=> a < 0 /\ s.hi < 0)
        /\ \A n \in Positions : One(v, n) <=> One(a, n) /\ One(s.hi, n)
    BY <1>0, AndBits
  <2> HIDE DEF v
  <2>2. SameSign(v, F)
    BY <1>1, <1>2, <2>1 DEF SameSign
  <2>3. \A n \in Positions : One(v, n) <=> One(F, n)
    BY <1>1, <1>2, <2>1
  <2>4. v = F
    BY <1>1, <2>1, <2>2, <2>3, SameBits
  <2> QED BY <2>4 DEF v
<1>3. CASE T = {}
  <2>1. \A n \in Positions : ~FlipsLeft(r, s, n)
    BY <1>3 DEF FlipsLeft
  <2>2. SameSign(r.hi, r.hi)
    BY DEF SameSign
  <2>3. And2(r.hi, s.hi) = F
    BY <1>0, <1>2, <2>1, <2>2
  <2> QED BY <1>0, <2>3 DEF F
<1>4. CASE T # {}
  <2>1. PICK p \in T : \A k \in T : k <= p
    <3>1. T \subseteq Positions
      OBVIOUS
    <3> HIDE DEF T
    <3> QED BY <1>4, <3>1, GreatestPosition
  <2>2. p \in Positions /\ Flips(r, s, p) /\ \A m \in Positions : Flips(r, s, m) => m <= p
    BY <2>1
  <2>3. PICK a \in Wide :
          /\ r.lo <= a /\ a <= r.hi
          /\ \A n \in Positions : One(a, n) <=> n < p \/ (n > p /\ One(r.hi, n))
    BY <2>2, DropWitness DEF Flips
  <2>4. SameSign(a, r.hi)
    BY <2>3, Inside
  <2>5. ASSUME NEW n \in Positions, One(s.hi, n)
        PROVE  One(a, n) <=> One(r.hi, n) \/ FlipsLeft(r, s, n)
    <3>1. CASE n < p
      <4>1. p > n
        BY <1>0, <2>2, <3>1
      <4>2. FlipsLeft(r, s, n)
        BY <2>2, <4>1 DEF FlipsLeft
      <4> QED BY <2>3, <3>1, <4>2
    <3>2. CASE n = p
      BY <2>2, <2>5, <3>2 DEF Flips
    <3>3. CASE n > p
      <4>1. ~FlipsLeft(r, s, n) /\ ~(n < p)
        <5>1. \A m \in Positions : m > n => ~(m <= p)
          BY <1>0, <2>2, <3>3
        <5>2. ~(n < p)
          BY <1>0, <2>2, <3>3
        <5> QED BY <2>2, <5>1, <5>2 DEF FlipsLeft
      <4> QED BY <2>3, <3>3, <4>1
    <3> QED BY <1>0, <2>2, <3>1, <3>2, <3>3
  <2>6. And2(a, s.hi) = F
    BY <1>2, <2>4, <2>5
  <2> QED BY <2>3, <2>6 DEF F
<1> QED BY <1>3, <1>4

LEMMA Idempotent ==
  ASSUME NEW i \in Wide
  PROVE  And2(i, i) = i /\ Or2(i, i) = i
<1>1. ASSUME NEW j \in Wide PROVE And2(j, j) = j
  <2>1. /\ And2(j, j) \in Wide /\ (And2(j, j) < 0 <=> j < 0)
        /\ \A n \in Positions : One(And2(j, j), n) <=> One(j, n)
    BY AndBits
  <2>2. SameSign(And2(j, j), j)
    BY <2>1 DEF SameSign
  <2> QED BY <2>1, <2>2, SameBits
<1>2. Not(i) \in Wide /\ Not(Not(i)) = i
  BY NotBits
<1> QED BY <1>1, <1>2 DEF Or2

LEMMA AndMaxReached ==
  ASSUME NEW r, NEW s, Pattern(r), Pattern(s), SameSign(r.hi, s.hi)
  PROVE  \E a \in Wide, b \in Wide :
           /\ r.lo <= a /\ a <= r.hi /\ s.lo <= b /\ b <= s.hi
           /\ And2(a, b) = andMax(r, s)
<1>0. /\ r.lo <= r.hi /\ s.lo <= s.hi /\ r.hi \in Wide /\ s.hi \in Wide
      /\ r.hi \in Int /\ s.hi \in Int /\ r.lo \in Int /\ s.lo \in Int /\ SameSign(s.hi, r.hi)
      /\ r.hi <= r.hi /\ s.hi <= s.hi
  BY ShrEnds DEF Pattern, SameSign
<1>1. CASE s.hi >= r.lo /\ r.hi >= s.lo
  <2> DEFINE c == Min({r.hi, s.hi})
  <2>1. c \in {r.hi, s.hi} /\ c <= r.hi /\ c <= s.hi
    BY <1>0, PairMin
  <2>2. andMax(r, s) = c
    BY <1>1 DEF andMax
  <2> HIDE DEF c
  <2>3. c \in Wide /\ r.lo <= c /\ s.lo <= c
    BY <1>0, <1>1, <2>1
  <2>4. And2(c, c) = c
    BY <2>3, Idempotent
  <2> QED BY <2>1, <2>2, <2>3, <2>4
<1>2. CASE ~(s.hi >= r.lo /\ r.hi >= s.lo)
  <2> DEFINE F == FlipFor(r, s)
             G == FlipFor(s, r)
  <2>1. F \in Int /\ G \in Int
    BY <1>0, FlipForBits, ShrEnds
  <2>2. andMax(r, s) = Max({F, G})
    BY <1>2 DEF andMax
  <2>3. Max({F, G}) \in {F, G}
    <3> HIDE DEF F, G
    <3> QED BY <2>1, PairMax
  <2>4. CASE andMax(r, s) = F
    <3>1. PICK a \in Wide : r.lo <= a /\ a <= r.hi /\ And2(a, s.hi) = F
      BY FlipReached
    <3> HIDE DEF F
    <3> QED BY <1>0, <2>4, <3>1
  <2>5. CASE andMax(r, s) = G
    <3>1. PICK b \in Wide : s.lo <= b /\ b <= s.hi /\ And2(b, r.hi) = G
      BY <1>0, FlipReached
    <3>2. And2(r.hi, b) = G
      BY <1>0, <3>1, AndCommutes
    <3> HIDE DEF G
    <3> QED BY <1>0, <2>5, <3>1, <3>2
  <2> QED BY <2>2, <2>3, <2>4, <2>5
<1> QED BY <1>1, <1>2

(* The complements of the integers of r are those of its complement.       *)
LEMMA FromComplement ==
  ASSUME NEW r, Pattern(r), NEW c \in Wide, NotRange(r).lo <= c, c <= NotRange(r).hi
  PROVE  Not(c) \in Wide /\ r.lo <= Not(c) /\ Not(c) <= r.hi /\ Not(Not(c)) = c
<1>1. r.lo \in Int /\ r.hi \in Int /\ c \in Int
  BY ShrEnds DEF Pattern
<1>2. Not(r.hi) <= c /\ c <= Not(r.lo)
  BY DEF NotRange, IntRange
<1>3. Not(c) \in Wide /\ Not(Not(c)) = c
  BY NotBits
<1>4. r.lo <= Not(c) /\ Not(c) <= r.hi
  BY <1>1, <1>2 DEF Not
<1> QED BY <1>3, <1>4

LEMMA OrMinReached ==
  ASSUME NEW r, NEW s, Pattern(r), Pattern(s), ~(r.hi < 0), ~(s.hi < 0)
  PROVE  \E a \in Wide, b \in Wide :
           /\ r.lo <= a /\ a <= r.hi /\ s.lo <= b /\ b <= s.hi
           /\ Or2(a, b) = orMin(r, s)
<1> DEFINE R == NotRange(r)
           S == NotRange(s)
<1>1. Pattern(R) /\ R.hi < 0 /\ Pattern(S) /\ S.hi < 0
  BY Complement
<1>2. SameSign(R.hi, S.hi)
  BY <1>1 DEF SameSign
<1>3. PICK c \in Wide, d \in Wide :
        /\ R.lo <= c /\ c <= R.hi /\ S.lo <= d /\ d <= S.hi
        /\ And2(c, d) = andMax(R, S)
  <2> HIDE DEF R, S
  <2> QED BY <1>1, <1>2, AndMaxReached
<1>4. Not(c) \in Wide /\ r.lo <= Not(c) /\ Not(c) <= r.hi /\ Not(Not(c)) = c
  BY <1>3, FromComplement
<1>5. Not(d) \in Wide /\ s.lo <= Not(d) /\ Not(d) <= s.hi /\ Not(Not(d)) = d
  BY <1>3, FromComplement
<1>6. orMin(r, s) = Not(andMax(R, S)) /\ Or2(Not(c), Not(d)) = Not(And2(c, d))
  BY <1>4, <1>5 DEF orMin, Or2
<1>7. Or2(Not(c), Not(d)) = orMin(r, s)
  BY <1>3, <1>6
<1> QED BY <1>4, <1>5, <1>7

(* The lower bound that And returns for two bounded ranges.                *)
LEMMA AndMinReached ==
  ASSUME NEW r, NEW s, Pattern(r), Pattern(s), ~(r.hi < 0), ~(s.hi < 0)
  PROVE  \E a \in Wide, b \in Wide :
           /\ r.lo <= a /\ a <= r.hi /\ s.lo <= b /\ b <= s.hi
           /\ And2(a, b) = Not(orMax(NotRange(r), NotRange(s)))
<1> DEFINE R == NotRange(r)
           S == NotRange(s)
<1>1. Pattern(R) /\ R.hi < 0 /\ Pattern(S) /\ S.hi < 0
  BY Complement
<1>2. SameSign(R.hi, S.hi)
  BY <1>1 DEF SameSign
<1>3. PICK c \in Wide, d \in Wide :
        /\ R.lo <= c /\ c <= R.hi /\ S.lo <= d /\ d <= S.hi
        /\ Or2(c, d) = orMax(R, S)
  <2> HIDE DEF R, S
  <2> QED BY <1>1, <1>2, OrMaxReached
<1>4. Not(c) \in Wide /\ r.lo <= Not(c) /\ Not(c) <= r.hi
  BY <1>3, FromComplement
<1>5. Not(d) \in Wide /\ s.lo <= Not(d) /\ Not(d) <= s.hi
  BY <1>3, FromComplement
<1> DEFINE v == And2(Not(c), Not(d))
<1>6. Or2(c, d) = Not(v)
  BY DEF Or2
<1>7. v \in Wide /\ Not(Not(v)) = v
  BY <1>4, <1>5, AndBits, NotBits
<1>8. v = Not(orMax(R, S))
  <2> HIDE DEF R, S, v
  <2> QED BY <1>3, <1>6, <1>7
<1> QED BY <1>4, <1>5, <1>8

-----------------------------------------------------------------------------
(* A range without an upper bound holds a power of two, and the integer    *)
(* below it, that is beyond a finite bound.                                *)

LEMMA BitsBelow ==
  ASSUME NEW t \in 0..Width, NEW a \in Unsigned, a <= 2^t - 1
  PROVE  \A n \in Positions : n >= t => ~One(a, n)
<1> DEFINE f == 2^t - 1
<1>0. Width \in Nat /\ t \in Int /\ \A k \in Positions : k \in Int
  BY IntervalAssumption DEF Positions
<1>1. f \in Unsigned /\ \A n \in Positions : One(f, n) <=> n < t
  BY OnesBits
<1>2. a <= f
  OBVIOUS
<1> HIDE DEF f
<1>3. /\ f \in Wide /\ f \in Int /\ a \in Wide /\ a \in Int /\ SameSign(a, f)
  BY <1>1, UnsignedIsWide, ShrEnds DEF SameSign
<1>4. ASSUME NEW n \in Positions, n >= t, One(a, n) PROVE FALSE
  <2>1. ~One(f, n)
    BY <1>0, <1>1, <1>4
  <2>2. a < f
    BY <1>2, <1>3, <1>4, <2>1
  <2>3. PICK m \in Positions :
          /\ ~One(a, m) /\ One(f, m)
          /\ \A k \in Positions : k > m => (One(a, k) <=> One(f, k))
    BY <1>3, <2>2, TopDifference
  <2>4. n > m
    BY <1>0, <1>1, <1>4, <2>3
  <2> QED BY <1>4, <2>1, <2>3, <2>4
<1> QED BY <1>4

LEMMA PowerBits ==
  ASSUME NEW t \in Positions
  PROVE  /\ 2^t \in Unsigned
         /\ \A n \in Positions : One(2^t, n) => n >= t
<1>0. /\ Width \in Nat /\ t \in Int /\ t \in 0..Width /\ \A k \in Positions : k \in Int
      /\ t + 1 \in 0..Width
  BY IntervalAssumption DEF Positions
<1> DEFINE p == 2^t
           f == p - 1
           q == AndNot(p, f)
<1>1. p \in Nat /\ p \in Unsigned
  <2> DEFINE d == 2^Width
  <2>1. 2^(t + 1) = 2 * p /\ p \in Nat /\ 1 <= p
    BY <1>0, PowersOfBits
  <2>2. Width \in (t + 1)..Width
    BY <1>0
  <2>3. 2^(t + 1) <= d /\ d \in Nat
    BY <1>0, <2>2, PowersOfBits
  <2> HIDE DEF p, d
  <2>4. p \in 0..(d - 1)
    BY <2>1, <2>3
  <2> QED BY <2>1, <2>4 DEF Unsigned, d
<1>2. f \in Unsigned /\ \A n \in Positions : One(f, n) <=> n < t
  BY <1>0, OnesBits
<1> HIDE DEF p
<1>3. f < p /\ f + 1 = p /\ f \in Int
  BY <1>1
<1> HIDE DEF f
<1>4. p \in Wide /\ ~(p < 0) /\ f \in Wide /\ ~(f < 0)
  BY <1>1, <1>2, UnsignedIsWide
<1>5. /\ q \in Wide /\ ~(q < 0)
      /\ \A n \in Positions : One(q, n) <=> One(p, n) /\ ~One(f, n)
  BY <1>4, AndNotBits
<1> HIDE DEF q
<1>6. q \in Int /\ SameSign(f, p) /\ SameSign(f, q) /\ SameSign(q, p)
  BY <1>4, <1>5, ShrEnds DEF SameSign
<1>7. PICK m \in Positions :
        /\ ~One(f, m) /\ One(p, m)
        /\ \A k \in Positions : k > m => (One(f, k) <=> One(p, k))
  BY <1>3, <1>4, <1>6, TopDifference
<1>8. f < q
  <2>1. \A k \in Positions : k > m => ~One(f, k)
    BY <1>0, <1>2, <1>7
  <2>2. \A k \in Positions : k > m => (One(f, k) <=> One(q, k))
    BY <1>5, <1>7, <2>1
  <2>3. One(q, m)
    BY <1>5, <1>7
  <2> QED BY <1>4, <1>5, <1>6, <1>7, <2>2, <2>3, LessByBit
<1>9. q <= p
  BY <1>4, <1>5, <1>6, FewerBits
<1>10. q = p
  BY <1>1, <1>3, <1>6, <1>8, <1>9
<1>11. \A n \in Positions : One(p, n) => n >= t
  BY <1>0, <1>2, <1>5, <1>10
<1> QED BY <1>1, <1>11 DEF p

LEMMA NextPower ==
  ASSUME NEW l \in Nat, l <= Above
  PROVE  /\ l \in Unsigned
         /\ \E t \in Positions : /\ bitFillRight[l] = 2^t - 1 /\ l <= 2^t - 1
                                 /\ 2^t \in Nat /\ 2^t <= Box
<1>0. /\ Width \in Nat /\ Box \in Nat /\ Above \in Nat /\ 2^Width \in Nat /\ Box < 2^Width
      /\ 2 * Above < Box /\ Width \in 0..Width
  BY IntervalAssumption, WidthAssumption, PowersOfBits
<1>1. l \in Unsigned
  <2> DEFINE d == 2^Width
  <2>1. d \in Nat /\ l < d
    BY <1>0
  <2> HIDE DEF d
  <2>2. l \in 0..(d - 1)
    BY <2>1
  <2> QED BY <2>2 DEF Unsigned, d
<1>2. PICK t \in 0..Width : /\ bitFillRight[l] = 2^t - 1 /\ l <= 2^t - 1
                            /\ \A k \in 0..Width : k < t => 2^k <= l
  BY <1>1, FillIs
<1>3. 2^t \in Nat /\ 2^t <= Box
  <2>1. CASE t = 0
    <3>1. 2^0 = 1
      OBVIOUS
    <3> QED BY <1>0, <2>1, <3>1
  <2>2. CASE t # 0
    <3> DEFINE k == t - 1
    <3>1. k \in 0..Width /\ k < t /\ k + 1 = t
      BY <1>0, <2>2
    <3> HIDE DEF k
    <3> DEFINE d == 2^k
    <3>2. d \in Nat /\ 2^t = 2 * d /\ d <= l
      BY <1>2, <3>1, PowersOfBits
    <3> HIDE DEF d
    <3> QED BY <1>0, <3>2
  <2> QED BY <2>1, <2>2
<1>4. t \in Positions
  <2>1. t # Width
    BY <1>0, <1>3
  <2> QED BY <1>0, <2>1 DEF Positions
<1> QED BY <1>1, <1>2, <1>3, <1>4

(* The operands of And and Or in a run.                                    *)
LEMMA BoxIsWide ==
  /\ Box \in Nat /\ \A i \in (-Box)..Box : i \in Wide
  /\ IntRanges \subseteq WideRanges
<1> DEFINE d == 2^Width
<1>1. d \in Nat /\ Box < d
  <2>1. Width \in 0..Width
    BY IntervalAssumption
  <2> QED BY <2>1, PowersOfBits, WidthAssumption
<1>2. Box \in Nat /\ Below \in Nat /\ Above \in Nat /\ Box > Below /\ Box > Above
  BY IntervalAssumption
<1> HIDE DEF d
<1>3. \A i \in (-Box)..Box : i \in (-d)..(d - 1)
  BY <1>1, <1>2
<1>4. \A i \in (-Box)..Box : i \in Wide
  BY <1>3 DEF Wide, d
<1>5. Ends \subseteq (-Box)..Box
  BY <1>2 DEF Ends
<1>6. IntRanges \subseteq WideRanges
  BY <1>4, <1>5 DEF IntRanges, WideRanges
<1> QED BY <1>2, <1>4, <1>6

LEMMA BitOperand ==
  ASSUME NEW r \in IntRanges, ~Empty(r), ~ContainsNegative(r)
  PROVE  /\ r \in WideRanges
         /\ r.lo \in Nat /\ r.lo <= Above
         /\ r.hi # nil => /\ Pattern(r) /\ ~(r.hi < 0) /\ r.hi \in Nat /\ r.hi <= Above
                          /\ r.lo <= r.hi
         /\ \A a \in Int : r.lo <= a /\ a <= Box /\ (r.hi # nil => a <= r.hi)
              => a \in Elements(r)
         /\ \A a \in Wide : r.hi # nil /\ r.lo <= a /\ a <= r.hi => a \in Elements(r)
<1>0. /\ Box \in Nat /\ Above \in Nat /\ Below \in Nat /\ Above < Box /\ nil \notin Int
  BY IntervalAssumption
<1>1. r \in WideRanges
  BY BoxIsWide
<1>2. /\ r.lo \in Wide /\ r.lo # nil /\ ~(r.lo < 0) /\ r.lo \in Int
      /\ r.hi # nil => /\ Pattern(r) /\ ~(r.hi < 0) /\ r.hi \in Int /\ r.hi \in Wide
                       /\ r.lo <= r.hi
  BY <1>1, Natural
<1>3. r.lo \in Ends /\ (r.hi # nil => r.hi \in Ends)
  BY <1>2 DEF IntRanges
<1>4. r.lo <= Above /\ (r.hi # nil => r.hi <= Above)
  BY <1>0, <1>3 DEF Ends
<1>5. r.lo \in Nat /\ (r.hi # nil => r.hi \in Nat)
  BY <1>2
<1>6. ASSUME NEW a \in Int, r.lo <= a, a <= Box, r.hi # nil => a <= r.hi
      PROVE  a \in Elements(r)
  <2>1. -Box <= a
    BY <1>0, <1>5, <1>6
  <2>2. Contains(r, a)
    BY <1>5, <1>6 DEF Contains
  <2> QED BY <1>6, <2>1, <2>2, InElements
<1>7. ASSUME NEW a \in Wide, r.hi # nil, r.lo <= a, a <= r.hi
      PROVE  a \in Elements(r)
  <2>1. a \in Int
    BY NilIsNotWide
  <2>2. a <= Box
    BY <1>0, <1>4, <1>5, <1>7, <2>1
  <2> QED BY <1>6, <1>7, <2>1, <2>2
<1> QED BY <1>1, <1>2, <1>4, <1>5, <1>6, <1>7

(* The results of And and Or for the integers of two sets.                 *)
Ands(V, E, G) == \A a \in E, b \in G : And2(a, b) \in V
Ors(V, E, G) == \A a \in E, b \in G : Or2(a, b) \in V

LEMMA Swapped ==
  ASSUME NEW V, NEW E, NEW G, E \subseteq Wide, G \subseteq Wide
  PROVE  (Ands(V, E, G) => Ands(V, G, E)) /\ (Ors(V, E, G) => Ors(V, G, E))
  BY AndCommutes, OrCommutes DEF Ands, Ors

LEMMA ElementsAreWide ==
  ASSUME NEW r
  PROVE  Elements(r) \subseteq Wide
  BY BoxIsWide DEF Elements

(* The second range has no upper bound: it holds a power of two that no    *)
(* small integer has, and one less, which has all the bits of a.           *)
LEMMA AndRayReached ==
  ASSUME NEW r \in IntRanges, NEW s \in IntRanges, ~Empty(r), ~Empty(s),
         ~ContainsNegative(r), ~ContainsNegative(s), s.hi = nil,
         NEW V, Ands(V, Elements(r), Elements(s))
  PROVE  /\ 0 \in V
         /\ r.hi # nil => r.hi \in V
         /\ r.hi = nil => Box \in V
<1>0. /\ Width \in Nat /\ Box \in Nat /\ Above \in Nat /\ Above < Box
      /\ \A k \in Positions : k \in Int /\ k \in 0..Width
  BY IntervalAssumption DEF Positions
<1>1. /\ r.lo \in Nat /\ r.lo <= Above
      /\ r.hi # nil => r.hi \in Nat /\ r.hi <= Above /\ r.lo <= r.hi
      /\ \A a \in Int : r.lo <= a /\ a <= Box /\ (r.hi # nil => a <= r.hi) => a \in Elements(r)
  BY BitOperand
<1>2. /\ s.lo \in Nat /\ s.lo <= Above
      /\ \A b \in Int : s.lo <= b /\ b <= Box => b \in Elements(s)
  BY BitOperand
<1>3. ASSUME NEW a \in Nat, a <= Above, a \in Elements(r)
      PROVE  a \in V /\ 0 \in V
  <2> DEFINE l == IF a <= s.lo THEN s.lo ELSE a
  <2>1. l \in Nat /\ l <= Above /\ a <= l /\ s.lo <= l
    BY <1>2, <1>3
  <2> HIDE DEF l
  <2>2. PICK t \in Positions : l <= 2^t - 1 /\ 2^t \in Nat /\ 2^t <= Box
    BY <2>1, NextPower
  <2> DEFINE p == 2^t
             f == p - 1
  <2>3. p \in Unsigned /\ \A n \in Positions : One(p, n) => n >= t
    BY PowerBits
  <2>4. f \in Unsigned /\ \A n \in Positions : One(f, n) <=> n < t
    BY <1>0, OnesBits
  <2>5. a \in Unsigned
    BY <1>3, NextPower
  <2>6. \A n \in Positions : n >= t => ~One(a, n)
    <3>1. a <= 2^t - 1
      BY <1>3, <2>1, <2>2
    <3> QED BY <1>0, <2>5, <3>1, BitsBelow
  <2>7. p \in Nat /\ p <= Box /\ l <= f /\ f \in Int /\ f <= Box /\ l <= p
    BY <1>0, <2>1, <2>2
  <2> HIDE DEF p
  <2>8. p \in Elements(s) /\ f \in Elements(s)
    BY <1>2, <2>1, <2>7
  <2> HIDE DEF f
  <2>9. /\ a \in Wide /\ ~(a < 0) /\ p \in Wide /\ ~(p < 0) /\ f \in Wide /\ ~(f < 0)
    BY <2>3, <2>4, <2>5, UnsignedIsWide
  <2>10. And2(a, p) = 0
    <3>1. /\ And2(a, p) \in Wide /\ ~(And2(a, p) < 0)
          /\ \A n \in Positions : One(And2(a, p), n) <=> One(a, n) /\ One(p, n)
      BY <2>9, AndBits
    <3>2. \A n \in Positions : ~One(And2(a, p), n)
      BY <2>3, <2>6, <3>1
    <3>3. SameSign(And2(a, p), 0)
      BY <3>1 DEF SameSign
    <3> QED BY <3>1, <3>2, <3>3, Zeros, SameBits
  <2>11. And2(a, f) = a
    <3>1. /\ And2(a, f) \in Wide /\ ~(And2(a, f) < 0)
          /\ \A n \in Positions : One(And2(a, f), n) <=> One(a, n) /\ One(f, n)
      BY <2>9, AndBits
    <3>2. \A n \in Positions : One(And2(a, f), n) <=> One(a, n)
      <4>1. \A n \in Positions : ~(n >= t) => n < t
        BY <1>0
      <4> QED BY <2>4, <2>6, <3>1, <4>1
    <3>3. SameSign(And2(a, f), a)
      BY <2>9, <3>1 DEF SameSign
    <3> QED BY <2>9, <3>1, <3>2, <3>3, SameBits
  <2> QED BY <1>3, <2>8, <2>10, <2>11 DEF Ands
<1>4. 0 \in V
  <2>1. r.lo \in Elements(r)
    BY <1>0, <1>1
  <2> QED BY <1>1, <1>3, <2>1
<1>5. ASSUME r.hi # nil PROVE r.hi \in V
  <2>1. r.hi \in Elements(r)
    BY <1>0, <1>1, <1>5
  <2> QED BY <1>1, <1>3, <1>5, <2>1
<1>6. ASSUME r.hi = nil PROVE Box \in V
  <2>1. Box \in Elements(r) /\ Box \in Elements(s)
    BY <1>0, <1>1, <1>2, <1>6
  <2>2. And2(Box, Box) = Box
    BY <2>1, ElementsAreWide, Idempotent
  <2> QED BY <2>1, <2>2 DEF Ands
<1> QED BY <1>4, <1>5, <1>6

LEMMA AndReached ==
  ASSUME NEW r \in IntRanges, NEW s \in IntRanges, ~Empty(r), ~Empty(s),
         ~ContainsNegative(r), ~ContainsNegative(s),
         NEW V, Ands(V, Elements(r), Elements(s)), NEW F \in Int, F < Box
  PROVE  RangeReached(And(r, s).z, V, F)
<1>0. nil \notin Int /\ Box \in Nat
  BY IntervalAssumption
<1>1. /\ r.hi # nil => Pattern(r) /\ ~(r.hi < 0) /\ r.hi \in Nat
      /\ \A a \in Wide : r.hi # nil /\ r.lo <= a /\ a <= r.hi => a \in Elements(r)
  BY BitOperand
<1>2. /\ s.hi # nil => Pattern(s) /\ ~(s.hi < 0) /\ s.hi \in Nat
      /\ \A a \in Wide : s.hi # nil /\ s.lo <= a /\ a <= s.hi => a \in Elements(s)
  BY BitOperand
<1>3. CASE r.hi = nil \/ s.hi = nil
  <2> DEFINE h == IF r.hi # nil THEN r.hi ELSE s.hi
  <2>1. And(r, s).z = IntRange(0, h)
    BY <1>3 DEF And, Success
  <2>2. 0 \in V /\ (h # nil => h \in V) /\ (h = nil => Box \in V)
    <3>1. CASE s.hi = nil
      BY <3>1, AndRayReached
    <3>2. CASE s.hi # nil
      <4>1. r.hi = nil /\ h = s.hi
        BY <1>3, <3>2
      <4>2. Ands(V, Elements(s), Elements(r))
        BY ElementsAreWide, Swapped
      <4> QED BY <3>2, <4>1, <4>2, AndRayReached
    <3> QED BY <3>1, <3>2
  <2> HIDE DEF h
  <2>3. IntRange(0, h).lo = 0 /\ IntRange(0, h).hi = h
    BY DEF IntRange
  <2>4. 0 # nil /\ Box > F
    BY <1>0
  <2> QED BY <2>1, <2>2, <2>3, <2>4 DEF RangeReached
<1>4. CASE r.hi # nil /\ s.hi # nil
  <2> DEFINE L == Not(orMax(NotRange(r), NotRange(s)))
             H == andMax(r, s)
  <2>1. And(r, s).z = IntRange(L, H)
    BY <1>4 DEF And, Success
  <2>2. L \in V /\ L \in Int
    <3>1. PICK a \in Wide, b \in Wide :
            /\ r.lo <= a /\ a <= r.hi /\ s.lo <= b /\ b <= s.hi /\ And2(a, b) = L
      BY <1>1, <1>2, <1>4, AndMinReached
    <3>2. And2(a, b) \in Int
      BY AndBits, ShrEnds
    <3> HIDE DEF L
    <3> QED BY <1>1, <1>2, <1>4, <3>1, <3>2 DEF Ands
  <2>3. H \in V /\ H \in Int
    <3>0. SameSign(r.hi, s.hi)
      BY <1>1, <1>2, <1>4 DEF SameSign
    <3>1. PICK a \in Wide, b \in Wide :
            /\ r.lo <= a /\ a <= r.hi /\ s.lo <= b /\ b <= s.hi /\ And2(a, b) = H
      BY <1>1, <1>2, <1>4, <3>0, AndMaxReached
    <3>2. And2(a, b) \in Int
      BY AndBits, ShrEnds
    <3> HIDE DEF H
    <3> QED BY <1>1, <1>2, <1>4, <3>1, <3>2 DEF Ands
  <2> HIDE DEF L, H
  <2>4. IntRange(L, H).lo = L /\ IntRange(L, H).hi = H
    BY DEF IntRange
  <2> QED BY <1>0, <2>1, <2>2, <2>3, <2>4 DEF RangeReached
<1> QED BY <1>3, <1>4

LEMMA OrRayReached ==
  ASSUME NEW r \in IntRanges, NEW s \in IntRanges, ~Empty(r), ~Empty(s),
         ~ContainsNegative(r), ~ContainsNegative(s), r.hi # nil, s.hi = nil,
         NEW V, Ors(V, Elements(r), Elements(s))
  PROVE  LET low == orMin(r, IntRange(s.lo, bitFillRight[s.lo]))
         IN  low \in V /\ low \in Int
<1>0. Box \in Nat
  BY IntervalAssumption
<1>1. /\ Pattern(r) /\ ~(r.hi < 0)
      /\ \A a \in Wide : r.hi # nil /\ r.lo <= a /\ a <= r.hi => a \in Elements(r)
  BY BitOperand
<1>2. /\ s.lo \in Nat /\ s.lo <= Above
      /\ \A b \in Int : s.lo <= b /\ b <= Box => b \in Elements(s)
  BY BitOperand
<1> DEFINE f == bitFillRight[s.lo]
           q == IntRange(s.lo, f)
           low == orMin(r, q)
<1>3. s.lo \in Unsigned /\ f <= Box /\ f \in Int /\ s.lo <= f
  <2>1. PICK t \in Positions : f = 2^t - 1 /\ s.lo <= 2^t - 1 /\ 2^t \in Nat /\ 2^t <= Box
    BY <1>2, NextPower
  <2>2. s.lo \in Unsigned
    BY <1>2, NextPower
  <2> HIDE DEF f
  <2> QED BY <1>0, <2>1, <2>2
<1>4. f \in Unsigned
  BY <1>3, FillBits
<1> HIDE DEF f
<1>5. q.lo = s.lo /\ q.hi = f
  BY DEF IntRange
<1>6. Pattern(q) /\ ~(q.hi < 0)
  BY <1>3, <1>4, <1>5, UnsignedIsWide DEF Pattern, SameSign
<1> HIDE DEF q
<1>7. PICK a \in Wide, b \in Wide :
        /\ r.lo <= a /\ a <= r.hi /\ q.lo <= b /\ b <= q.hi /\ Or2(a, b) = low
  BY <1>1, <1>6, OrMinReached
<1>8. a \in Elements(r)
  BY <1>1, <1>7
<1>9. b \in Elements(s)
  <2>1. b \in Int /\ Box \in Int
    BY <1>0, NilIsNotWide
  <2>2. b <= Box
    BY <1>3, <1>5, <1>7, <2>1
  <2> QED BY <1>2, <1>5, <1>7, <2>1, <2>2
<1>10. Or2(a, b) \in Int
  BY OrBits, ShrEnds
<1> HIDE DEF low
<1>11. low \in V /\ low \in Int
  BY <1>7, <1>8, <1>9, <1>10 DEF Ors
<1> QED BY <1>11 DEF low, q, f

LEMMA OrReached ==
  ASSUME NEW r \in IntRanges, NEW s \in IntRanges, ~Empty(r), ~Empty(s),
         ~ContainsNegative(r), ~ContainsNegative(s),
         NEW V, Ors(V, Elements(r), Elements(s)), NEW F \in Int, F < Box, Or(r, s).ok
  PROVE  RangeReached(Or(r, s).z, V, F)
<1>0. nil \notin Int /\ Box \in Nat /\ Above \in Nat /\ Above < Box
  BY IntervalAssumption
<1>1. /\ r.lo \in Nat /\ r.lo <= Above
      /\ r.hi # nil => Pattern(r) /\ ~(r.hi < 0) /\ r.hi \in Nat /\ r.lo <= r.hi
      /\ \A a \in Int : r.lo <= a /\ a <= Box /\ (r.hi # nil => a <= r.hi) => a \in Elements(r)
      /\ \A a \in Wide : r.hi # nil /\ r.lo <= a /\ a <= r.hi => a \in Elements(r)
  BY BitOperand
<1>2. /\ s.lo \in Nat /\ s.lo <= Above
      /\ s.hi # nil => Pattern(s) /\ ~(s.hi < 0) /\ s.hi \in Nat /\ s.lo <= s.hi
      /\ \A a \in Int : s.lo <= a /\ a <= Box /\ (s.hi # nil => a <= s.hi) => a \in Elements(s)
      /\ \A a \in Wide : s.hi # nil /\ s.lo <= a /\ a <= s.hi => a \in Elements(s)
  BY BitOperand
<1>3. r.lo \in Elements(r) /\ s.lo \in Elements(s)
  BY <1>0, <1>1, <1>2
<1>4. CASE r.hi # nil /\ s.hi # nil
  <2> DEFINE L == orMin(r, s)
             H == orMax(r, s)
  <2>1. Or(r, s).z = IntRange(L, H)
    BY <1>4 DEF Or, Success
  <2>2. L \in V /\ L \in Int
    <3>1. PICK a \in Wide, b \in Wide :
            /\ r.lo <= a /\ a <= r.hi /\ s.lo <= b /\ b <= s.hi /\ Or2(a, b) = L
      BY <1>1, <1>2, <1>4, OrMinReached
    <3>2. Or2(a, b) \in Int
      BY OrBits, ShrEnds
    <3> HIDE DEF L
    <3> QED BY <1>1, <1>2, <1>4, <3>1, <3>2 DEF Ors
  <2>3. H \in V /\ H \in Int
    <3>0. SameSign(r.hi, s.hi)
      BY <1>1, <1>2, <1>4 DEF SameSign
    <3>1. PICK a \in Wide, b \in Wide :
            /\ r.lo <= a /\ a <= r.hi /\ s.lo <= b /\ b <= s.hi /\ Or2(a, b) = H
      BY <1>1, <1>2, <1>4, <3>0, OrMaxReached
    <3>2. Or2(a, b) \in Int
      BY OrBits, ShrEnds
    <3> HIDE DEF H
    <3> QED BY <1>1, <1>2, <1>4, <3>1, <3>2 DEF Ors
  <2> HIDE DEF L, H
  <2>4. IntRange(L, H).lo = L /\ IntRange(L, H).hi = H
    BY DEF IntRange
  <2> QED BY <1>0, <2>1, <2>2, <2>3, <2>4 DEF RangeReached
<1>5. CASE r.hi = nil \/ s.hi = nil
  <2>1. Or(r, s) = OrUnbounded(r, s)
    BY <1>5 DEF Or
  <2>2. \E v \in V : v > F
    <3>1. ASSUME NEW a \in Wide, NEW b \in Wide, ~(a < 0), ~(b < 0), a = Box \/ b = Box,
                 Or2(a, b) \in V
          PROVE  \E v \in V : v > F
      <4>1. SameSign(a, b)
        BY <3>1 DEF SameSign
      <4>2. Or2(a, b) \in Int /\ a <= Or2(a, b) /\ b <= Or2(a, b)
        BY <4>1, OrAbove
      <4>3. Or2(a, b) > F
        BY <1>0, <3>1, <4>2
      <4> QED BY <3>1, <4>3
    <3>2. r.lo \in Wide /\ s.lo \in Wide /\ ~(r.lo < 0) /\ ~(s.lo < 0) /\ ~(Box < 0)
      BY <1>0, <1>1, <1>2, <1>3, ElementsAreWide
    <3>3. CASE r.hi = nil
      <4>1. Box \in Elements(r)
        BY <1>0, <1>1, <3>3
      <4>2. Or2(Box, s.lo) \in V /\ Box \in Wide
        BY <1>3, <4>1, ElementsAreWide DEF Ors
      <4> QED BY <3>1, <3>2, <4>2
    <3>4. CASE s.hi = nil
      <4>1. Box \in Elements(s)
        BY <1>0, <1>2, <3>4
      <4>2. Or2(r.lo, Box) \in V /\ Box \in Wide
        BY <1>3, <4>1, ElementsAreWide DEF Ors
      <4> QED BY <3>1, <3>2, <4>2
    <3> QED BY <1>5, <3>3, <3>4
  <2>3. ASSUME NEW c \in V, c \in Int, Or(r, s).z = IntRange(c, nil)
        PROVE  RangeReached(Or(r, s).z, V, F)
    <3>1. IntRange(c, nil).lo = c /\ IntRange(c, nil).hi = nil /\ c # nil
      BY <1>0, <2>3 DEF IntRange
    <3> QED BY <2>2, <2>3, <3>1 DEF RangeReached
  <2>4. ASSUME NEW c \in Int, c \in Elements(r), c \in Elements(s) PROVE c \in V
    <3>1. c \in Wide
      BY <2>4, ElementsAreWide
    <3>2. Or2(c, c) = c
      BY <3>1, Idempotent
    <3> QED BY <2>4, <3>2 DEF Ors
  <2>5. CASE Contains(r, s.lo)
    <3>1. Or(r, s).z = IntRange(s.lo, nil)
      BY <2>1, <2>5 DEF OrUnbounded, Success
    <3>2. s.lo \in Elements(r)
      <4>1. s.lo \in Int /\ -Box <= s.lo /\ s.lo <= Box
        BY <1>0, <1>2
      <4> QED BY <2>5, <4>1, InElements
    <3>3. s.lo \in V
      BY <1>2, <1>3, <2>4, <3>2
    <3> QED BY <1>2, <2>3, <3>1, <3>3
  <2>6. CASE ~Contains(r, s.lo) /\ Contains(s, r.lo)
    <3>1. Or(r, s).z = IntRange(r.lo, nil)
      BY <2>1, <2>6 DEF OrUnbounded, Success
    <3>2. r.lo \in Elements(s)
      <4>1. r.lo \in Int /\ -Box <= r.lo /\ r.lo <= Box
        BY <1>0, <1>1
      <4> QED BY <2>6, <4>1, InElements
    <3>3. r.lo \in V
      BY <1>1, <1>3, <2>4, <3>2
    <3> QED BY <1>1, <2>3, <3>1, <3>3
  <2>7. CASE ~Contains(r, s.lo) /\ ~Contains(s, r.lo)
    <3>1. ~(r.hi = nil /\ s.hi = nil)
      BY <2>1, <2>7 DEF OrUnbounded, Panic
    <3>2. CASE r.hi = nil
      <4>1. Or(r, s) = OrMinBelow(s, r) /\ s.hi # nil
        BY <2>1, <2>7, <3>1, <3>2 DEF OrUnbounded
      <4>2. ~(s.hi >= r.lo)
        BY <4>1 DEF OrMinBelow, Panic
      <4> DEFINE low == orMin(s, IntRange(r.lo, bitFillRight[r.lo]))
      <4>3. Or(r, s).z = IntRange(low, nil)
        BY <4>1, <4>2 DEF OrMinBelow, Success
      <4>4. Ors(V, Elements(s), Elements(r))
        BY ElementsAreWide, Swapped
      <4>5. low \in V /\ low \in Int
        BY <3>2, <4>1, <4>4, OrRayReached
      <4> HIDE DEF low
      <4> QED BY <2>3, <4>3, <4>5
    <3>3. CASE r.hi # nil
      <4>1. Or(r, s) = OrMinBelow(r, s) /\ s.hi = nil
        BY <1>5, <2>1, <2>7, <3>1, <3>3 DEF OrUnbounded
      <4>2. ~(r.hi >= s.lo)
        BY <4>1 DEF OrMinBelow, Panic
      <4> DEFINE low == orMin(r, IntRange(s.lo, bitFillRight[s.lo]))
      <4>3. Or(r, s).z = IntRange(low, nil)
        BY <4>1, <4>2 DEF OrMinBelow, Success
      <4>4. low \in V /\ low \in Int
        BY <3>3, <4>1, OrRayReached
      <4> HIDE DEF low
      <4> QED BY <2>3, <4>3, <4>4
    <3> QED BY <3>2, <3>3
  <2> QED BY <2>5, <2>6, <2>7
<1> QED BY <1>4, <1>5

(* For all ranges, whatever the bounds of a run, and for all eight         *)
(* operations: a call that succeeds returns a range that holds the results *)
(* for all integers of its operands, however the bits of the bounds of And *)
(* and Or lie.                                                             *)
THEOREM AlwaysSound == Spec => []Sound
<1>1. Returned /\ (op \in Arithmetic => Sound) => Sound
  <2>1. SUFFICES ASSUME Returned, op \notin Arithmetic, op # "None", ok,
                        NEW i \in Elements(x), NEW j \in Operands(y)
                 PROVE  Contains(z, Apply(i, j))
    BY DEF Sound, Called
  <2>2. op \in {"And", "Or"}
    BY <2>1 DEF Returned, Arithmetic
  <2>3. j \in Elements(y)
    BY <2>2 DEF Operands
  <2>4. x \in WideRanges /\ y \in WideRanges
    BY <2>1, BoxIsWide DEF Returned
  <2>5. i \in Wide /\ j \in Wide /\ Contains(x, i) /\ Contains(y, j)
    BY <2>3, ElementsAreWide DEF Elements
  <2>6. CASE op = "And"
    <3>1. And(x, y).ok /\ z = And(x, y).z
      BY <2>1, <2>6 DEF Returned
    <3>2. Contains(And(x, y).z, And2(i, j))
      BY <2>4, <2>5, <3>1, AndSound
    <3>3. Apply(i, j) = And2(i, j)
      BY <2>6 DEF Apply
    <3> QED BY <3>1, <3>2, <3>3
  <2>7. CASE op = "Or"
    <3>1. Or(x, y).ok /\ z = Or(x, y).z
      BY <2>1, <2>7 DEF Returned
    <3>2. Contains(Or(x, y).z, Or2(i, j))
      BY <2>4, <2>5, <3>1, OrSound
    <3>3. Apply(i, j) = Or2(i, j)
      BY <2>7 DEF Apply
    <3> QED BY <3>1, <3>2, <3>3
  <2> QED BY <2>2, <2>6, <2>7
<1> QED BY <1>1, ReturnedInvariant, ArithmeticSound, PTL

(* For all ranges, whatever the bounds of a run, and for all eight         *)
(* operations: a call that succeeds returns no larger a range than it      *)
(* must, Sub of rays excepted: the bits that orMax and andMax trade are    *)
(* traded by some two integers of the operands.                            *)
THEOREM AlwaysTight == Spec => []Tight
<1>1. Returned /\ (op \in Arithmetic => Tight) => Tight
  <2> DEFINE V == {Apply(i, j) : i \in Elements(x), j \in Operands(y)}
  <2>1. SUFFICES ASSUME Returned, op \notin Arithmetic, op # "None", ok PROVE Exact
    BY DEF Tight, Called
  <2>2. op \in {"And", "Or"}
    BY <2>1 DEF Returned, Arithmetic
  <2>3. /\ x \in IntRanges /\ y \in IntRanges /\ x \in Ranges /\ y \in Ranges
        /\ op = "And" => z = And(x, y).z /\ And(x, y).ok
        /\ op = "Or" => z = Or(x, y).z /\ Or(x, y).ok
    BY <2>1, RunRanges DEF Returned
  <2>4. (Empty(x) <=> Elements(x) = {}) /\ (Empty(y) <=> Elements(y) = {})
    BY <2>3, EmptyMeansNoElements
  <2>5. CASE Empty(x) \/ Empty(y)
    <3>1. z = empty
      BY <2>2, <2>3, <2>5 DEF And, Or, Success
    <3>2. Empty(empty)
      BY IntervalAssumption DEF Empty, empty, IntRange
    <3> QED BY <2>4, <2>5, <3>1, <3>2 DEF Exact
  <2>6. CASE ~Empty(x) /\ ~Empty(y)
    <3>1. ~ContainsNegative(x) /\ ~ContainsNegative(y)
      BY <2>2, <2>3, <2>6, Succeeds, OrSucceeds
    <3>2. Far \in Int /\ Far < Box
      <4>1. Far = 2 * Max({Below, Above})
        BY <2>2 DEF Far
      <4>2. Below \in Int /\ Above \in Int /\ Box \in Int /\ 2 * Below < Box /\ 2 * Above < Box
        BY IntervalAssumption, WidthAssumption
      <4>3. Max({Below, Above}) \in {Below, Above}
        BY <4>2, PairMax
      <4> QED BY <4>1, <4>2, <4>3
    <3>3. \A i \in Elements(x), j \in Elements(y) : Apply(i, j) \in V
      BY <2>2 DEF Operands
    <3>4. RangeReached(z, V, Far)
      <4>1. CASE op = "And"
        <5>1. Ands(V, Elements(x), Elements(y))
          BY <3>3, <4>1 DEF Ands, Apply
        <5> HIDE DEF V
        <5>2. RangeReached(And(x, y).z, V, Far)
          BY <2>3, <2>6, <3>1, <3>2, <5>1, AndReached
        <5> QED BY <2>3, <4>1, <5>2
      <4>2. CASE op = "Or"
        <5>1. Ors(V, Elements(x), Elements(y))
          BY <3>3, <4>2 DEF Ors, Apply
        <5> HIDE DEF V
        <5>2. RangeReached(Or(x, y).z, V, Far)
          BY <2>3, <2>6, <3>1, <3>2, <4>2, <5>1, OrReached
        <5> QED BY <2>3, <4>2, <5>2
      <4> QED BY <2>2, <4>1, <4>2
    <3>5. /\ Reached(z.lo, LAMBDA v : v < -Far)
          /\ Reached(z.hi, LAMBDA v : v > Far)
      BY <3>4 DEF RangeReached, Reached
    <3> QED BY <2>4, <2>6, <3>5 DEF Exact
  <2> QED BY <2>5, <2>6
<1> QED BY <1>1, ReturnedInvariant, TightArithmetic, PTL
=============================================================================
