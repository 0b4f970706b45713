------------------------------ MODULE Interval ------------------------------
(***************************************************************************)
(* The interval arithmetic of lang/interval: what is known of x op y when  *)
(* x and y are known to lie in two ranges.  A behavior takes two ranges    *)
(* and computes one operation; the reference is the operation itself on    *)
(* the integers of the ranges, cut to a box that is large enough to tell   *)
(* a finite bound from an infinite one.                                    *)
(*                                                                         *)
(* A big.Int is an integer.  x[0] and x[1] of the code are x.lo and x.hi.  *)
(***************************************************************************)
EXTENDS Integers, FiniteSetsExt

CONSTANTS
  nil,        \* the nil *big.Int: an infinite bound
  Below,      \* the finite bounds of the ranges that a run tries
  Above,      \* are in -Below..Above
  Small,      \* in -Small..Small for the operations that are not bit-wise
  Box,        \* the reference looks at the integers in -Box..Box
  Width       \* bits of the integers that And and Or meet, without the sign

(* What Lsh and Rsh meet as exponents.                                     *)
Exponents == 0..(1 + Small + 2 * Width)

ASSUME IntervalAssumption ==
  /\ nil \notin Int
  /\ Below \in Nat /\ Above \in Nat /\ Small \in Nat
  /\ Box \in Nat /\ Box > Below /\ Box > Above
  /\ Width \in Nat

(* The ends of the box are beyond what the operations make of the bounds,  *)
(* and the largest shift is beyond the others.                             *)
ASSUME BoxAssumption == Box > (Small + 1) * (Small + 1)
ASSUME ShiftAssumption ==
  /\ Small < 2 * Width /\ 2 * Width <= Box
  /\ (Small + 1) * 2^Small <= Box /\ (Small + 1) * 2^Small < 2^(2 * Width)

(* And and Or meet no integer beyond Width bits, and the box holds the     *)
(* power of two that is next to a bound.                                   *)
ASSUME WidthAssumption == Box < 2^Width /\ 2 * Below < Box /\ 2 * Above < Box

(* True of all natural numbers; the proofs take it from here.              *)
ASSUME PowerAssumption ==
  \A n \in Exponents :
    /\ 2^n \in Nat /\ 2^n >= 1 /\ 2^(n + 1) = 2 * 2^n
    /\ \A m \in Exponents : n <= m => 2^n <= 2^m

VARIABLES
  x, y,  \* the two operands
  op,    \* the operation that was called, or "None"
  z, ok  \* what it returned

vars == <<x, y, op, z, ok>>

-----------------------------------------------------------------------------
(* Integers as math/big knows them.                                        *)

bigIntMul(i, j) == i * j
bigIntLsh(i, j) == i * 2^j
bigIntRsh(i, j) == i \div 2^j

Abs(i) == IF i < 0 THEN -i ELSE i
bigIntQuo(i, j) ==
  IF (i < 0) = (j < 0) THEN Abs(i) \div Abs(j) ELSE -(Abs(i) \div Abs(j))

(* A negative integer has infinitely many one bits on its left.            *)
Wide == -(2^Width) .. (2^Width - 1)
Bit(i, n) == (i \div 2^n) % 2
BitsAnd == [i \in Wide |-> [j \in Wide |->
  LET from[n \in 0..Width] == IF n = Width THEN IF i < 0 /\ j < 0 THEN -1 ELSE 0
                              ELSE 2 * from[n + 1] + Bit(i, n) * Bit(j, n)
  IN  from[0]]]
And2(i, j) == BitsAnd[i][j]
Not(i) == -1 - i
Or2(i, j) == Not(And2(Not(i), Not(j)))
AndNot(i, j) == And2(i, Not(j))

(* It panics for a negative integer, where this function is not defined.   *)
bitFillRight == [i \in 0..(2^Width - 1) |->
  Min({f \in {2^n - 1 : n \in 0..Width} : i <= f})]

-----------------------------------------------------------------------------
(* biggerInt: an integer or an infinity.                                   *)

NegInf == [extra |-> -1, i |-> nil]
PosInf == [extra |-> 1, i |-> nil]
Finite(n) == [extra |-> 0, i |-> n]

newBiggerIntPair == [min |-> PosInf, max |-> NegInf]

(* Variant: minus infinity is compared as an integer would be.             *)
LowerMinFinite(m, b) ==
  IF m.extra > 0 \/ (m.extra = 0 /\ b.extra = 0 /\ m.i > b.i) THEN b ELSE m

lowerMin(m, b) ==
  IF \/ m.extra > 0
     \/ b.extra < 0
     \/ m.extra = 0 /\ b.extra = 0 /\ m.i > b.i
  THEN b ELSE m

raiseMax(m, b) ==
  IF \/ m.extra < 0
     \/ b.extra > 0
     \/ m.extra = 0 /\ b.extra = 0 /\ m.i < b.i
  THEN b ELSE m

(* The branch of an operation that looks at one part of each operand.      *)
Widen(p, nonempty, low, high) ==
  IF nonempty
  THEN [min |-> lowerMin(p.min, low), max |-> raiseMax(p.max, high)]
  ELSE p

-----------------------------------------------------------------------------
(* IntRange.                                                               *)

IntRange(lo, hi) == [lo |-> lo, hi |-> hi]
empty == IntRange(1, -1)
unbounded == IntRange(nil, nil)
zero == IntRange(0, 0)

toIntRange(p) ==
  IF p.min.extra > 0 \/ p.max.extra < 0 THEN empty ELSE IntRange(p.min.i, p.max.i)
fromIntRange(r) ==
  [min |-> IF r.lo # nil THEN Finite(r.lo) ELSE NegInf,
   max |-> IF r.hi # nil THEN Finite(r.hi) ELSE PosInf]

Empty(r) == r.lo # nil /\ r.hi # nil /\ r.lo > r.hi
Contains(r, i) ==
  /\ r.lo = nil \/ r.lo <= i
  /\ r.hi = nil \/ r.hi >= i
ContainsZero(r) == Contains(r, 0)
ContainsNegative(r) ==
  \/ r.lo = nil
  \/ r.lo < 0 /\ (r.hi = nil \/ r.lo <= r.hi)
ContainsPositive(r) ==
  \/ r.hi = nil
  \/ r.hi > 0 /\ (r.lo = nil \/ r.lo <= r.hi)
justZero(r) == r.lo # nil /\ r.hi # nil /\ r.lo = 0 /\ r.hi = 0

(* Variant: the bounds of empty ranges are compared.                       *)
EqOfBounds(r, s) == r = s

Eq(r, s) ==
  IF Empty(r) \/ Empty(s) THEN Empty(r) = Empty(s) ELSE r.lo = s.lo /\ r.hi = s.hi

split(r) ==
  IF r.lo # nil /\ r.lo > 0
  THEN [neg |-> empty, pos |-> r,
        negEmpty |-> TRUE, hasZero |-> FALSE, posEmpty |-> Empty(r)]
  ELSE IF r.hi # nil /\ r.hi < 0
  THEN [neg |-> r, pos |-> empty,
        negEmpty |-> Empty(r), hasZero |-> FALSE, posEmpty |-> TRUE]
  ELSE LET neg == IntRange(r.lo, IF r.hi # nil /\ r.hi < -1 THEN r.hi ELSE -1)
           pos == IntRange(IF r.lo # nil /\ r.lo > 1 THEN r.lo ELSE 1, r.hi)
       IN [neg |-> neg, pos |-> pos,
           negEmpty |-> Empty(neg), hasZero |-> ContainsZero(r), posEmpty |-> Empty(pos)]

-----------------------------------------------------------------------------
(* The operations.  Those that may fail return a range and ok.             *)

Success(r) == [z |-> r, ok |-> TRUE]
Failure == [z |-> unbounded, ok |-> FALSE]
panic == [panic |-> TRUE]  \* the outcome of a call that panics: no range
Panic == [z |-> panic, ok |-> FALSE]

Add(r, s) ==
  IF Empty(r) \/ Empty(s) THEN empty
  ELSE IntRange(IF r.lo # nil /\ s.lo # nil THEN r.lo + s.lo ELSE nil,
                IF r.hi # nil /\ s.hi # nil THEN r.hi + s.hi ELSE nil)

Sub(r, s) ==
  IF Empty(r) \/ Empty(s) THEN empty
  ELSE IntRange(IF r.lo # nil /\ s.hi # nil /\ (r.hi # nil \/ s.lo # nil)
                  THEN r.lo - s.hi ELSE nil,
                IF r.hi # nil /\ s.lo # nil /\ (r.lo # nil \/ s.hi # nil)
                  THEN r.hi - s.lo ELSE nil)

combine(shift, i, j) == IF shift THEN bigIntLsh(i, j) ELSE bigIntMul(i, j)

(* i op j, or inf when one of the two is infinite.                         *)
Bound(shift, i, j, inf) ==
  IF i = nil \/ j = nil THEN inf ELSE Finite(combine(shift, i, j))

mulLsh(r, s, shift) ==
  IF Empty(r) \/ Empty(s) THEN empty
  ELSE IF justZero(r) \/ (~shift /\ justZero(s)) THEN zero
  ELSE LET X == split(r)
           Y == split(s)
           start == IF Y.hasZero /\ shift THEN fromIntRange(r)
                    ELSE IF (Y.hasZero /\ ~shift) \/ X.hasZero THEN fromIntRange(zero)
                    ELSE newBiggerIntPair
           nn == Widen(start, ~X.negEmpty /\ ~Y.negEmpty,
                       Finite(combine(shift, X.neg.hi, Y.neg.hi)),
                       Bound(shift, X.neg.lo, Y.neg.lo, PosInf))
           np == Widen(nn, ~X.negEmpty /\ ~Y.posEmpty,
                       Bound(shift, X.neg.lo, Y.pos.hi, NegInf),
                       Finite(combine(shift, X.neg.hi, Y.pos.lo)))
           pn == Widen(np, ~X.posEmpty /\ ~Y.negEmpty,
                       Bound(shift, X.pos.hi, Y.neg.lo, NegInf),
                       Finite(combine(shift, X.pos.lo, Y.neg.hi)))
           pp == Widen(pn, ~X.posEmpty /\ ~Y.posEmpty,
                       Finite(combine(shift, X.pos.lo, Y.pos.lo)),
                       Bound(shift, X.pos.hi, Y.pos.hi, PosInf))
       IN toIntRange(pp)

Mul(r, s) == mulLsh(r, s, FALSE)

(* Variant: an empty range cannot be shifted by a negative number.         *)
LshOfEmpty(r, s) ==
  IF ContainsNegative(s) THEN Failure ELSE Success(mulLsh(r, s, TRUE))

Lsh(r, s) ==
  IF ~Empty(r) /\ ContainsNegative(s) THEN Failure
  ELSE Success(mulLsh(r, s, TRUE))

(* i / j towards 0: inf when i is infinite, 0 when only j is.              *)
Quotient(i, j, inf) ==
  IF i = nil THEN inf ELSE Finite(IF j = nil THEN 0 ELSE bigIntQuo(i, j))

Quo(r, s) ==
  IF Empty(r) \/ Empty(s) THEN Success(empty)
  ELSE IF ContainsZero(s) THEN Failure
  ELSE IF justZero(r) THEN Success(zero)
  ELSE LET X == split(r)
           Y == split(s)
           start == IF X.hasZero THEN fromIntRange(zero) ELSE newBiggerIntPair
           nn == Widen(start, ~X.negEmpty /\ ~Y.negEmpty,
                       Quotient(X.neg.hi, Y.neg.lo, NegInf),
                       Quotient(X.neg.lo, Y.neg.hi, PosInf))
           np == Widen(nn, ~X.negEmpty /\ ~Y.posEmpty,
                       Quotient(X.neg.lo, Y.pos.lo, NegInf),
                       Quotient(X.neg.hi, Y.pos.hi, PosInf))
           pn == Widen(np, ~X.posEmpty /\ ~Y.negEmpty,
                       Quotient(X.pos.hi, Y.neg.hi, NegInf),
                       Quotient(X.pos.lo, Y.neg.lo, PosInf))
           pp == Widen(pn, ~X.posEmpty /\ ~Y.posEmpty,
                       Quotient(X.pos.lo, Y.pos.hi, NegInf),
                       Quotient(X.pos.hi, Y.pos.lo, PosInf))
       IN Success(toIntRange(pp))

(* i >> j: inf when i is infinite, limit when j is: 0, or -1 if i < 0.     *)
Shifted(i, j, inf, limit) ==
  IF i = nil THEN inf ELSE Finite(IF j = nil THEN limit ELSE bigIntRsh(i, j))

Rsh(r, s) ==
  IF Empty(r) \/ Empty(s) THEN Success(empty)
  ELSE IF ContainsNegative(s) THEN Failure
  ELSE IF justZero(r) THEN Success(zero)
  ELSE LET X == split(r)
           start == IF X.hasZero THEN fromIntRange(zero) ELSE newBiggerIntPair
           neg == Widen(start, ~X.negEmpty, Shifted(X.neg.lo, s.lo, NegInf, -1),
                                            Shifted(X.neg.hi, s.hi, PosInf, -1))
           pos == Widen(neg, ~X.posEmpty, Shifted(X.pos.lo, s.hi, NegInf, 0),
                                          Shifted(X.pos.hi, s.lo, PosInf, 0))
       IN Success(toIntRange(pos))

(* Variant: the shortcut is taken for all ranges without negative integers.*)
OrMaxShortcut(r, s) ==
  LET droppable == bitFillRight[Or2(AndNot(r.hi, r.lo), AndNot(s.hi, s.lo))]
      available == IF r.lo >= 0 /\ s.lo >= 0 THEN And2(r.hi, s.hi)
                   ELSE And2(And2(droppable, r.hi), s.hi)
  IN Or2(Or2(bitFillRight[available] \div 2, r.hi), s.hi)

(* The largest a | b for a in r and b in s, which are not empty: a bit     *)
(* that both have and one may drop pays for all the bits on its right.     *)
orMax(r, s) ==
  LET droppable == bitFillRight[Or2(AndNot(r.hi, r.lo), AndNot(s.hi, s.lo))]
      available == IF r.lo = 0 /\ s.lo = 0 THEN And2(r.hi, s.hi)
                   ELSE And2(And2(droppable, r.hi), s.hi)
  IN Or2(Or2(bitFillRight[available] \div 2, r.hi), s.hi)

(* The best that r has for s.hi: drop the leftmost bit of r.hi that s.hi   *)
(* does not have, if r allows it, for all the bits on its right.           *)
FlipFor(r, s) ==
  LET flip == bitFillRight[AndNot(And2(bitFillRight[AndNot(r.hi, r.lo)], r.hi), s.hi)]
  IN And2(Or2(flip \div 2, AndNot(r.hi, flip)), s.hi)

(* The largest a & b for a in r and b in s, which are not empty.           *)
andMax(r, s) ==
  IF s.hi >= r.lo /\ r.hi >= s.lo THEN Min({r.hi, s.hi})
  ELSE Max({FlipFor(r, s), FlipFor(s, r)})

NotRange(r) == IntRange(Not(r.hi), Not(r.lo))

And(r, s) ==
  IF Empty(r) \/ Empty(s) THEN Success(empty)
  ELSE IF ContainsNegative(r) \/ ContainsNegative(s) THEN Failure
  ELSE IF r.hi = nil \/ s.hi = nil
  THEN Success(IntRange(0, IF r.hi # nil THEN r.hi ELSE s.hi))
  ELSE Success(IntRange(Not(orMax(NotRange(r), NotRange(s))), andMax(r, s)))

(* The smallest a | b for a in r and b in s.                               *)
orMin(r, s) == Not(andMax(NotRange(r), NotRange(s)))

(* One of the two is not bounded: finite is the other, r or s.             *)
OrMinBelow(finite, infinite) ==
  IF finite.hi >= infinite.lo THEN Panic
  ELSE Success(IntRange(orMin(finite, IntRange(infinite.lo, bitFillRight[infinite.lo])), nil))

(* Variant: only the lower bound of the first operand is looked for in the *)
(* other one.                                                              *)
OrUnboundedOneSided(r, s) ==
  IF Contains(s, r.lo) THEN Success(IntRange(r.lo, nil))
  ELSE IF r.hi = nil /\ s.hi = nil THEN Panic
  ELSE IF r.hi = nil THEN OrMinBelow(s, r) ELSE OrMinBelow(r, s)

OrUnbounded(r, s) ==
  IF Contains(r, s.lo) THEN Success(IntRange(s.lo, nil))
  ELSE IF Contains(s, r.lo) THEN Success(IntRange(r.lo, nil))
  ELSE IF r.hi = nil /\ s.hi = nil THEN Panic
  ELSE IF r.hi = nil THEN OrMinBelow(s, r) ELSE OrMinBelow(r, s)

Or(r, s) ==
  IF Empty(r) \/ Empty(s) THEN Success(empty)
  ELSE IF ContainsNegative(r) \/ ContainsNegative(s) THEN Failure
  ELSE IF r.hi # nil /\ s.hi # nil THEN Success(IntRange(orMin(r, s), orMax(r, s)))
  ELSE OrUnbounded(r, s)

-----------------------------------------------------------------------------
(* A call of an operation on two ranges.                                   *)

Ends == (-Below)..Above
IntRanges == [lo : Ends \cup {nil}, hi : Ends \cup {nil}]

Init ==
  /\ x \in IntRanges
  /\ y \in IntRanges
  /\ op = "None"
  /\ z = unbounded
  /\ ok = FALSE

IsSmall(r) == {r.lo, r.hi} \subseteq (-Small)..Small \cup {nil}

Call(name, result) ==
  /\ op = "None"
  /\ name \notin {"And", "Or"} => IsSmall(x) /\ IsSmall(y)
  /\ op' = name
  /\ z' = result.z
  /\ ok' = result.ok
  /\ UNCHANGED <<x, y>>

CallAdd == Call("Add", Success(Add(x, y)))
CallSub == Call("Sub", Success(Sub(x, y)))
CallMul == Call("Mul", Success(Mul(x, y)))
CallLsh == Call("Lsh", Lsh(x, y))
CallQuo == Call("Quo", Quo(x, y))
CallRsh == Call("Rsh", Rsh(x, y))
CallAnd == Call("And", And(x, y))
CallOr == Call("Or", Or(x, y))

Next ==
  CallAdd \/ CallSub \/ CallMul \/ CallLsh \/ CallQuo \/ CallRsh \/ CallAnd \/ CallOr

Spec == Init /\ [][Next]_vars

-----------------------------------------------------------------------------
(* The reference.                                                          *)

Elements(r) == {i \in (-Box)..Box : Contains(r, i)}

(* Shifting by more than that tells nothing new of the integers in the box.*)
Operands(r) ==
  IF op \in {"Lsh", "Rsh"} THEN {j \in Elements(r) : j <= 2 * Width} ELSE Elements(r)

Called == op # "None" /\ z # panic

(* x op y is defined for the integers i and j.                             *)
Defined(i, j) ==
  CASE op = "Quo" -> j # 0
    [] op \in {"Lsh", "Rsh"} -> j >= 0
    [] op \in {"And", "Or"} -> i >= 0 /\ j >= 0
    [] OTHER -> TRUE

Apply(i, j) ==
  CASE op = "Add" -> i + j
    [] op = "Sub" -> i - j
    [] op = "Mul" -> i * j
    [] op = "Lsh" -> i * 2^j
    [] op = "Quo" -> bigIntQuo(i, j)
    [] op = "Rsh" -> i \div 2^j
    [] op = "And" -> And2(i, j)
    [] op = "Or" -> Or2(i, j)

(* No finite bound of a result is beyond -Far..Far.                        *)
Far ==
  CASE op \in {"And", "Or"} -> 2 * Max({Below, Above})
    [] op = "Lsh" -> Small * 2^Small
    [] op = "Mul" -> Small * Small
    [] op \in {"Add", "Sub"} -> 2 * Small
    [] op \in {"Quo", "Rsh"} -> Small

(* A bound b of z is the best one: some result is equal to it, or, when it *)
(* is infinite, beyond every finite bound.                                 *)
Reached(b, Beyond(_)) ==
  \E i \in Elements(x), j \in Operands(y) :
    IF b = nil THEN Beyond(Apply(i, j)) ELSE Apply(i, j) = b

Exact ==
  IF Elements(x) = {} \/ Elements(y) = {} THEN Empty(z)
  ELSE /\ Reached(z.lo, LAMBDA v : v < -Far)
       /\ Reached(z.hi, LAMBDA v : v > Far)

(* x - y where x and y are rays that point in opposite directions: one end *)
(* of the result is finite and the code gives it up.                       *)
SubOfRays ==
  /\ op = "Sub"
  /\ \/ x.lo # nil /\ x.hi = nil /\ y.lo = nil /\ y.hi # nil
     \/ x.lo = nil /\ x.hi # nil /\ y.lo # nil /\ y.hi = nil

-----------------------------------------------------------------------------
(* What a compiler relies on when it drops a bounds check: the result of   *)
(* an operation on two integers of the ranges is in the range that the     *)
(* operation on ranges returned.                                           *)
Sound ==
  Called /\ ok => \A i \in Elements(x), j \in Operands(y) : Contains(z, Apply(i, j))

(* No range is larger than it must be: both bounds of the result are       *)
(* reached, and only if an operand is empty is the result.  The exception  *)
(* is Sub of rays: [3, oo) - (-oo, 15] is [-12, oo), the code returns      *)
(* (-oo, oo), and so do its tests.                                         *)
Tight == Called /\ ok /\ ~SubOfRays => Exact

(* An operation fails exactly if some two integers of the ranges have no   *)
(* result: a division by zero, a negative shift, a negative bit pattern.   *)
(* If an operand is empty there are no such two: the comments of Lsh, Quo  *)
(* and Rsh say so ("x is non-empty and ..."), those of And and Or do not.  *)
FailsIfUndefined ==
  Called => (ok <=> \A i \in Elements(x), j \in Operands(y) : Defined(i, j))

(* The comments of And and Or: "ok is false ... if x or y contains at      *)
(* least one negative value. Otherwise, ok is true."  The code tests for   *)
(* an empty operand first and then succeeds whatever the other one holds.  *)
FailsIfNegative ==
  Called /\ op \in {"And", "Or"} =>
    (ok <=> \A i \in Elements(x) \cup Elements(y) : i >= 0)

(* The two "unreachable" panics of Or are.                                 *)
NoPanic == z # panic

(* Two ranges are equal exactly if they hold the same integers, in any of  *)
(* the representations of the empty range, and the tests of their signs    *)
(* agree with their elements.                                              *)
SetSemantics ==
  /\ Eq(x, y) <=> Elements(x) = Elements(y)
  /\ ContainsNegative(x) <=> \E i \in Elements(x) : i < 0
  /\ ContainsPositive(x) <=> \E i \in Elements(x) : i > 0
  /\ Empty(x) <=> Elements(x) = {}

=============================================================================
