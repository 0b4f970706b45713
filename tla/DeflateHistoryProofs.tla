------------------------ MODULE DeflateHistoryProofs ------------------------
(***************************************************************************)
(* Proofs about DeflateHistory for every ring size, match length, buffer   *)
(* size and text.                                                          *)
(***************************************************************************)
EXTENDS DeflateHistory, SequenceTheorems, TLAPS

-----------------------------------------------------------------------------
(* Arithmetic.                                                             *)

(* A multiple of d strictly between -d and d is zero.                      *)
LEMMA MultipleIsZero ==
  ASSUME NEW d \in Nat \ {0}, NEW k \in Int, d * k < d, -d < d * k
  PROVE  k = 0
<1>1. CASE k >= 1
  <2>1. d * k >= d BY <1>1
  <2> QED BY <2>1
<1>2. CASE k <= -1
  <2>1. d * k <= -d BY <1>2
  <2> QED BY <2>1
<1> QED BY <1>1, <1>2

(* Division with remainder.                                                *)
LEMMA DivMod ==
  ASSUME NEW d \in Nat \ {0}, NEW a \in Nat
  PROVE  /\ a = d * (a \div d) + (a % d)
         /\ a % d \in 0..d - 1
         /\ a \div d \in Int
OBVIOUS

(* Subtracting the divisor does not change the remainder: the byte d back  *)
(* in an overlapping copy is the byte that was repeated.                   *)
LEMMA ModPeriod ==
  ASSUME NEW d \in Nat \ {0}, NEW a \in Nat, a >= d
  PROVE  a % d = (a - d) % d
<1> DEFINE q == a \div d
           r == a % d
           s == (a - d) \div d
           t == (a - d) % d
<1>1. a = d * q + r /\ r \in 0..d - 1 /\ q \in Int BY DivMod
<1>2. a - d \in Nat OBVIOUS
<1>3. a - d = d * s + t /\ t \in 0..d - 1 /\ s \in Int BY <1>2, DivMod
<1> HIDE DEF q, r, s, t
<1>4. d * (q - 1 - s) = t - r BY <1>1, <1>3
<1>5. q - 1 - s = 0 BY <1>4, <1>1, <1>3, MultipleIsZero
<1>6. t = r BY <1>4, <1>5, <1>1, <1>3
<1> QED BY <1>6 DEF t, r

(* x & 0x7FFF over the range of history_index.                             *)
LEMMA MaskCases ==
  ASSUME NEW x \in 0..2 * R
  PROVE  /\ x < R => Mask(x) = x
         /\ R <= x /\ x < 2 * R => Mask(x) = x - R
         /\ x = 2 * R => Mask(x) = 0
         /\ Mask(x) \in 0..R - 1
<1> USE DeflateHistoryAssumption
<1>1. x < R => x % R = x OBVIOUS
<1>2. R <= x /\ x < 2 * R => x % R = x - R OBVIOUS
<1>3. x = 2 * R => x % R = 0 OBVIOUS
<1>4. x % R \in 0..R - 1 OBVIOUS
<1> QED BY <1>1, <1>2, <1>3, <1>4 DEF Mask

-----------------------------------------------------------------------------
(* Sequences.                                                              *)

(* u is t followed by n more bytes.                                        *)
Extends(t, u, n) ==
  /\ u \in Seq(Bytes)
  /\ Len(u) = Len(t) + n
  /\ \A i \in 1..Len(t) : u[i] = t[i]

LEMMA FunctionIsSeq ==
  ASSUME NEW S, NEW n \in Nat, NEW f \in [1..n -> S]
  PROVE  f \in Seq(S) /\ Len(f) = n
<1>1. f \in Seq(S) BY SeqDef
<1>2. DOMAIN f = 1..n OBVIOUS
<1>3. DOMAIN f = 1..Len(f) /\ Len(f) \in Nat BY <1>1, LenProperties
<1> QED BY <1>1, <1>2, <1>3

(* copy_from_slice32 appends the ring's bytes from slot Mask(at) on.       *)
LEMMA SliceExtends ==
  ASSUME NEW t \in Seq(Bytes), NEW at \in 0..2 * R, NEW n \in Nat,
         n <= R - Mask(at), history \in [0..R - 1 -> Bytes]
  PROVE  /\ Extends(t, CopyFromSlice(t, at, n), n)
         /\ \A j \in 0..n - 1 :
              CopyFromSlice(t, at, n)[Len(t) + 1 + j] = history[Mask(at) + j]
<1> DEFINE u == CopyFromSlice(t, at, n)
<1>1. Len(t) \in Nat /\ \A i \in 1..Len(t) : t[i] \in Bytes BY LenProperties
<1>2. Mask(at) \in 0..R - 1 BY MaskCases
<1>3. R \in Nat BY DeflateHistoryAssumption
<1>4. \A i \in 1..Len(t) + n : i > Len(t) =>
        Mask(at) + (i - Len(t) - 1) \in 0..R - 1
  BY <1>1, <1>2, <1>3, SMTT(30)
<1>5. u \in [1..Len(t) + n -> Bytes] BY <1>1, <1>4 DEF CopyFromSlice
<1>6. u \in Seq(Bytes) /\ Len(u) = Len(t) + n BY <1>1, <1>5, FunctionIsSeq
<1>7. \A i \in 1..Len(t) : u[i] = t[i] BY <1>1 DEF CopyFromSlice
<1>8. \A j \in 0..n - 1 : u[Len(t) + 1 + j] = history[Mask(at) + j]
  <2> TAKE j \in 0..n - 1
  <2>1. Len(t) + 1 + j \in 1..Len(t) + n /\ ~(Len(t) + 1 + j <= Len(t)) BY <1>1
  <2>2. (Len(t) + 1 + j) - Len(t) - 1 = j BY <1>1
  <2> QED BY <2>1, <2>2 DEF CopyFromSlice
<1> QED BY <1>6, <1>7, <1>8 DEF Extends

(* The byte by byte copy appends bytes that each equal the one d back.     *)
LEMMA HistoryCopyExtends ==
  ASSUME NEW t \in Seq(Bytes), NEW d \in 1..Len(t), NEW n \in Nat
  PROVE  /\ Extends(t, CopyFromHistory(t, d, n), n)
         /\ \A i \in Len(t) + 1..Len(t) + n :
              CopyFromHistory(t, d, n)[i] = CopyFromHistory(t, d, n)[i - d]
<1> DEFINE u == CopyFromHistory(t, d, n)
           L == Len(t)
<1>1. L \in Nat /\ \A i \in 1..L : t[i] \in Bytes BY LenProperties
<1> HIDE DEF L
<1>2. d \in Nat \ {0} /\ d <= L BY <1>1 DEF L
<1>3. \A i \in 1..L + n : i > L =>
        (i - L - 1) % d \in 0..d - 1 /\ L - d + 1 + ((i - L - 1) % d) \in 1..L
  <2> TAKE i \in 1..L + n
  <2> HAVE i > L
  <2>1. i - L - 1 \in Nat BY <1>1
  <2>2. (i - L - 1) % d \in 0..d - 1 BY <2>1, <1>2, DivMod
  <2> QED BY <2>2, <1>1, <1>2
<1>4. u \in [1..L + n -> Bytes] BY <1>1, <1>3, SMTT(30) DEF CopyFromHistory, L
<1>5. u \in Seq(Bytes) /\ Len(u) = L + n BY <1>1, <1>4, FunctionIsSeq
<1>6. \A i \in 1..L : u[i] = t[i] BY <1>1 DEF CopyFromHistory, L
<1>7. \A i \in L + 1..L + n : u[i] = t[L - d + 1 + ((i - L - 1) % d)]
  BY <1>1 DEF CopyFromHistory, L
<1>8. ASSUME NEW i \in L + 1..L + n PROVE u[i] = u[i - d]
  <2> DEFINE a == i - L - 1
  <2>1. a \in Nat /\ i \in Int BY <1>1
  <2>2. CASE a < d
    <3>1. a % d = a
      <4> HIDE DEF a
      <4> QED BY <2>1, <2>2, <1>2
    <3>2. u[i] = t[i - d]
      <4>1. u[i] = t[L - d + 1 + (a % d)] BY <1>7
      <4>2. L - d + 1 + a = i - d BY <1>1, <1>2, <2>1
      <4> QED BY <4>1, <4>2, <3>1
    <3>3. i - d \in 1..L BY <1>1, <1>2, <2>2
    <3> QED BY <3>2, <3>3, <1>6
  <2>3. CASE a >= d
    <3>1. a % d = (a - d) % d BY <2>1, <2>3, <1>2, ModPeriod
    <3>2. i - d \in L + 1..L + n BY <1>1, <1>2, <2>3
    <3>3. (i - d) - L - 1 = a - d BY <1>1, <1>2
    <3>4. u[i - d] = t[L - d + 1 + ((a - d) % d)] BY <3>2, <3>3, <1>7
    <3> QED BY <3>1, <3>4, <1>7
  <2> QED BY <2>1, <2>2, <2>3, <1>2
<1> QED BY <1>1, <1>5, <1>6, <1>8 DEF Extends, L

-----------------------------------------------------------------------------
(* decode appends what was written since the mark, the last n bytes of t,  *)
(* to a ring that holds the bytes before: the ring then holds all of t.    *)
LEMMA AppendKeepsRing ==
  ASSUME NEW t \in Seq(Bytes), NEW n \in Nat, n <= Len(t),
         history \in [0..R - 1 -> Bytes], history_index \in 0..2 * R,
         HoldsText(history, history_index, t, Len(t) - n)
  PROVE  /\ AppendedHistory(t, n) \in [0..R - 1 -> Bytes]
         /\ AppendedIndex(n) \in 0..2 * R
         /\ HoldsText(AppendedHistory(t, n), AppendedIndex(n), t, Len(t))
<1> DEFINE L  == Len(t)
           at == Mask(history_index)
           w  == [i \in 0..n - 1 |-> t[L - n + i + 1]]
           c  == Minimum(n, R - at)
           h  == AppendedHistory(t, n)
           x  == AppendedIndex(n)
<1>1. L \in Nat /\ \A i \in 1..L : t[i] \in Bytes BY LenProperties
<1>2. R \in Nat \ {0} BY DeflateHistoryAssumption
<1>3. at \in 0..R - 1 BY MaskCases
<1>4. \A i \in 0..n - 1 : w[i] = t[L - n + i + 1] /\ w[i] \in Bytes BY <1>1
<1>5. c \in Nat /\ c <= n /\ c <= R - at /\ (c = n \/ c = R - at)
  BY <1>2, <1>3 DEF Minimum
<1>6. \A j \in 0..R - 1 :
        h[j] = IF n >= R THEN w[n - R + j]
               ELSE IF at <= j /\ j < at + c THEN w[j - at]
               ELSE IF j < n - c THEN w[c + j] ELSE history[j]
  BY DEF AppendedHistory
<1>7. x = IF n >= R THEN R ELSE IF c < n THEN (n - c) + R
          ELSE at + c + (IF history_index >= R THEN R ELSE 0)
  BY DEF AppendedIndex
<1>8. h = [j \in 0..R - 1 |-> h[j]]
  <2>1. CASE n >= R BY <2>1 DEF AppendedHistory
  <2>2. CASE ~(n >= R) BY <2>2 DEF AppendedHistory
  <2> QED BY <2>1, <2>2
<1>a. \A y \in 0..R - 1 : Mask(y) = y BY <1>2, MaskCases
<1>b. \A y \in R..2 * R - 1 : Mask(y) = y - R BY <1>2, MaskCases
<1>c. /\ history_index < R => at = history_index
      /\ R <= history_index /\ history_index < 2 * R => at = history_index - R
      /\ history_index = 2 * R => at = 0
  BY MaskCases
<1> HIDE DEF w, c, h, x, L, at
<1>9. h \in [0..R - 1 -> Bytes]
  <2> SUFFICES ASSUME NEW j \in 0..R - 1 PROVE h[j] \in Bytes BY <1>8
  <2>1. n >= R => n - R + j \in 0..n - 1 BY <1>2
  <2>2. at <= j /\ j < at + c => j - at \in 0..n - 1 BY <1>2, <1>3, <1>5
  <2>3. j < n - c => c + j \in 0..n - 1 BY <1>2, <1>5
  <2> QED BY <1>4, <1>6, <2>1, <2>2, <2>3
<1>10. x \in 0..2 * R BY <1>2, <1>3, <1>5, <1>7
<1>11. /\ L < R => x = L
       /\ L >= R => x >= R
  <2>1. L - n < R => history_index = L - n BY DEF HoldsText, L
  <2>2. L - n >= R => history_index >= R BY DEF HoldsText, L
  <2>3. L - n < R => at = L - n BY <2>1, <1>1, <1>2, <1>c
  <2> QED BY <2>1, <2>2, <2>3, <1>1, <1>2, <1>3, <1>5, <1>7
<1>12. ASSUME NEW k \in 1..Minimum(L, R) PROVE h[Mask(x - k)] = t[L - k + 1]
  <2> k \in Nat /\ 1 <= k /\ k <= L /\ k <= R BY <1>1, <1>2 DEF Minimum
  <2>1. CASE n >= R
    <3>1. x = R BY <2>1, <1>7
    <3>2. Mask(R - k) = R - k BY <1>2, MaskCases
    <3>3. h[R - k] = w[n - R + (R - k)] BY <2>1, <1>2, <1>6
    <3>4. n - R + (R - k) = n - k /\ n - k \in 0..n - 1 BY <2>1, <1>2
    <3>5. L - n + (n - k) + 1 = L - k + 1 BY <1>1
    <3> QED BY <3>1, <3>2, <3>3, <3>4, <3>5, <1>4
  <2>3. k > n => history[Mask(history_index - (k - n))] = t[L - k + 1]
    <3> HAVE k > n
    <3>1. k - n \in 1..Minimum(L - n, R) BY <1>1, <1>2 DEF Minimum
    <3>2. history[Mask(history_index - (k - n))] = t[(L - n) - (k - n) + 1]
      BY <3>1 DEF HoldsText, L
    <3>3. (L - n) - (k - n) + 1 = L - k + 1 BY <1>1
    <3> QED BY <3>2, <3>3
  <2>4. k <= n => w[n - k] = t[L - k + 1]
    <3>1. k <= n => n - k \in 0..n - 1 BY <1>1
    <3>2. L - n + (n - k) + 1 = L - k + 1 BY <1>1
    <3> QED BY <3>1, <3>2, <1>4
  <2>5. /\ L - n < R => history_index = L - n
        /\ L - n >= R => history_index >= R
    BY DEF HoldsText, L
  <2>7. CASE n < R /\ c < n
    <3>1. c = R - at /\ x = n - c + R BY <2>7, <1>5, <1>7, <1>2
    <3>2. CASE k <= n - c
      <4>1. x - k \in R..2 * R - 1 /\ (x - k) - R = n - c - k
        <5>0. n \in Int /\ c \in Int /\ k \in Int /\ R \in Int BY <1>2, <1>5
        <5>1. (x - k) - R = n - c - k /\ x - k \in Int
          BY ONLY <3>1, <5>0, SMTT(30)
        <5>2. n - c - k \in 0..R - 1
          BY <3>2, <2>7, <1>2, <1>5
        <5> QED BY ONLY <5>0, <5>1, <5>2, SMTT(30)
      <4>2. n - c - k \in 0..R - 1 /\ n - c - k < at /\ n - c - k < n - c
        BY <3>1, <3>2, <2>7, <1>2, <1>3, <1>5
      <4>3. h[n - c - k] = w[c + (n - c - k)] BY <4>2, <2>7, <1>2, <1>3, <1>5, <1>6
      <4>4. c + (n - c - k) = n - k /\ k <= n BY <1>5, <3>2
      <4> QED BY <4>1, <4>3, <4>4, <2>4, <1>b
    <3>3. CASE n - c < k /\ k <= n
      <4>1. x - k \in 0..R - 1 /\ at <= x - k /\ x - k < at + c
        BY <3>1, <3>3, <2>7, <1>2, <1>3, <1>5
      <4>2. h[x - k] = w[(x - k) - at] BY <4>1, <2>7, <1>2, <1>6
      <4>3. (x - k) - at = n - k BY <3>1, <1>2, <1>3, <1>5
      <4> QED BY <4>1, <4>2, <4>3, <3>3, <2>4, <1>a
    <3>4. CASE k > n
      <4>1. x - k = at - (k - n) /\ x - k \in 0..R - 1
        BY <3>1, <3>4, <2>7, <1>2, <1>3, <1>5
      <4>2. x - k < at /\ ~(x - k < n - c) BY <3>1, <3>4, <4>1, <1>2, <1>3, <1>5
      <4>3. h[x - k] = history[x - k] BY <4>1, <4>2, <2>7, <1>2, <1>3, <1>5, <1>6, SMTT(30)
      <4>4. \/ history_index - (k - n) = x - k
            \/ /\ history_index - (k - n) \in R..2 * R - 1
               /\ (history_index - (k - n)) - R = x - k
        BY <3>4, <4>1, <1>c, <1>2, <1>3, SMTT(30)
      <4>5. Mask(history_index - (k - n)) = x - k BY <4>1, <4>4, <1>a, <1>b
      <4> QED BY <4>1, <4>3, <4>5, <3>4, <2>3, <1>a
    <3> QED BY <3>2, <3>3, <3>4, <1>5
  <2>8. CASE n < R /\ c = n
    <3>1. x = at + n + (IF history_index >= R THEN R ELSE 0) /\ n <= R - at
      BY <2>8, <1>5, <1>7, <1>2
    <3>2. CASE k <= n
      <4>1. at + n - k \in 0..R - 1 /\ at <= at + n - k /\ at + n - k < at + c
        BY <3>1, <3>2, <2>8, <1>2, <1>3
      <4>2. \/ x - k = at + n - k
            \/ x - k \in R..2 * R - 1 /\ (x - k) - R = at + n - k
        BY <3>1, <4>1, <1>2, <1>3
      <4>3. Mask(x - k) = at + n - k BY <4>1, <4>2, <1>a, <1>b
      <4>4. h[at + n - k] = w[(at + n - k) - at] BY <4>1, <2>8, <1>2, <1>6
      <4>5. (at + n - k) - at = n - k BY <1>3
      <4> QED BY <4>3, <4>4, <4>5, <3>2, <2>4
    <3>3. CASE k > n
      <4> DEFINE y == IF k - n <= at THEN at - (k - n) ELSE R + at - (k - n)
      <4>1. y \in 0..R - 1 /\ ~(at <= y /\ y < at + c)
        BY <3>1, <3>3, <2>8, <1>2, <1>3
      <4>2. k - n <= at \/ history_index >= R
        BY <3>3, <2>5, <1>c, <1>1, <1>2
      <4>3. history_index - (k - n) = y \/
              (history_index - (k - n) \in R..2 * R - 1 /\ history_index - (k - n) - R = y)
        BY <3>3, <4>2, <1>c, <1>2, <1>3
      <4>4. x - k = y \/ (x - k \in R..2 * R - 1 /\ x - k - R = y)
        BY <3>1, <3>3, <4>2, <1>2, <1>3
      <4> HIDE DEF y
      <4>5. Mask(history_index - (k - n)) = y /\ Mask(x - k) = y
        BY <4>1, <4>3, <4>4, <1>a, <1>b
      <4>6. h[y] = history[y] BY <4>1, <2>8, <1>2, <1>6
      <4> QED BY <4>5, <4>6, <3>3, <2>3
    <3> QED BY <3>2, <3>3
  <2> QED BY <2>1, <2>7, <2>8, <1>5, <1>2
<1> QED BY <1>9, <1>10, <1>11, <1>12 DEF HoldsText, h, x, L

(* A ring holds the same bytes of a longer text.                           *)
LEMMA ExtendedText ==
  ASSUME NEW h, NEW x, NEW t \in Seq(Bytes), NEW u, NEW m \in Nat,
         NEW n \in 0..Len(t), Extends(t, u, m), HoldsText(h, x, t, n)
  PROVE  HoldsText(h, x, u, n)
<1>1. Len(t) \in Nat BY LenProperties
<1>2. \A k \in 1..Minimum(n, R) : n - k + 1 \in 1..Len(t)
  BY <1>1, DeflateHistoryAssumption DEF Minimum
<1> QED BY <1>2 DEF HoldsText, Extends

(* A yield with m more bytes written: decode flushes them to the ring.     *)
LEMMA YieldKeepsRing ==
  ASSUME TypeOK, RingHoldsText, pc # "caller",
         NEW t, NEW m \in Nat, Extends(out, t, m), out' = t,
         NEW why, NEW at, Yield(why, at, t, since + m)
  PROVE  /\ history' \in [0..R - 1 -> Bytes]
         /\ history_index' \in 0..2 * R
         /\ RingHoldsText'
<1>1. out \in Seq(Bytes) /\ since \in Nat BY DEF TypeOK
<1>2. Len(out) \in Nat BY <1>1, LenProperties
<1>3. t \in Seq(Bytes) /\ Len(t) = Len(out) + m BY DEF Extends
<1>4. since <= Len(out) /\ HoldsText(history, history_index, out, Len(out) - since)
  BY DEF RingHoldsText, Unflushed
<1>5. Len(out) - since \in 0..Len(out) BY <1>1, <1>2, <1>4
<1>6. HoldsText(history, history_index, t, Len(out) - since)
  BY <1>1, <1>4, <1>5, ExtendedText
<1>7. Len(t) - (since + m) = Len(out) - since BY <1>1, <1>2, <1>3
<1>8. since + m \in Nat /\ since + m <= Len(t) BY <1>1, <1>2, <1>3, <1>4
<1>9. /\ AppendedHistory(t, since + m) \in [0..R - 1 -> Bytes]
      /\ AppendedIndex(since + m) \in 0..2 * R
      /\ HoldsText(AppendedHistory(t, since + m), AppendedIndex(since + m), t, Len(t))
  BY <1>3, <1>6, <1>7, <1>8, AppendKeepsRing DEF TypeOK
<1>10. pc' = "caller" /\ history' = AppendedHistory(t, since + m)
       /\ history_index' = AppendedIndex(since + m)
  BY DEF Yield
<1>11. Unflushed' = 0 /\ Len(t) - 0 = Len(t) /\ 0 <= Len(t)
  BY <1>2, <1>3, <1>10 DEF Unflushed
<1> QED BY <1>9, <1>10, <1>11 DEF RingHoldsText

(* Without a yield, the m bytes are still in the buffer.                   *)
LEMMA WriteKeepsRing ==
  ASSUME TypeOK, RingHoldsText, pc # "caller", pc' # "caller",
         NEW m \in Nat, Extends(out, out', m), since' = since + m, UNCHANGED ring
  PROVE  RingHoldsText'
<1>1. out \in Seq(Bytes) /\ since \in Nat BY DEF TypeOK
<1>2. Len(out) \in Nat BY <1>1, LenProperties
<1>3. Len(out') = Len(out) + m BY DEF Extends
<1>4. since <= Len(out) /\ HoldsText(history, history_index, out, Len(out) - since)
  BY DEF RingHoldsText, Unflushed
<1>5. Len(out) - since \in 0..Len(out) BY <1>1, <1>2, <1>4
<1>6. HoldsText(history, history_index, out', Len(out) - since)
  BY <1>1, <1>4, <1>5, ExtendedText
<1>7. Len(out') - since' = Len(out) - since /\ since' <= Len(out')
  BY <1>1, <1>2, <1>3, <1>4
<1>8. history' = history /\ history_index' = history_index BY DEF ring
<1>9. Unflushed' = since' BY DEF Unflushed
<1>10. HoldsText(history', history_index', out', Len(out') - since')
  BY <1>6, <1>7, <1>8
<1> QED BY <1>7, <1>9, <1>10 DEF RingHoldsText

LEMMA NothingWritten ==
  ASSUME TypeOK
  PROVE  Extends(out, out, 0)
<1>1. out \in Seq(Bytes) BY DEF TypeOK
<1>2. Len(out) \in Nat BY <1>1, LenProperties
<1> QED BY <1>1, <1>2 DEF Extends

-----------------------------------------------------------------------------
(* Reading the ring.                                                       *)

LEMMA MaskAdd ==
  ASSUME NEW x \in 0..2 * R, NEW j \in Nat, x + j <= 2 * R
  PROVE  /\ Mask(x) + j < R => Mask(x + j) = Mask(x) + j
         /\ Mask(x) + j = R => Mask(x + j) = 0
<1>1. R \in Nat \ {0} BY DeflateHistoryAssumption
<1>2. x + j \in 0..2 * R BY <1>1
<1>3. /\ x < R => Mask(x) = x
      /\ R <= x /\ x < 2 * R => Mask(x) = x - R
      /\ x = 2 * R => Mask(x) = 0
  BY MaskCases
<1>4. /\ x + j < R => Mask(x + j) = x + j
      /\ R <= x + j /\ x + j < 2 * R => Mask(x + j) = x + j - R
      /\ x + j = 2 * R => Mask(x + j) = 0
  <2> DEFINE y == x + j
  <2> HIDE DEF y
  <2>1. y \in 0..2 * R BY <1>2 DEF y
  <2>2. /\ y < R => Mask(y) = y
        /\ R <= y /\ y < 2 * R => Mask(y) = y - R
        /\ y = 2 * R => Mask(y) = 0
    BY <2>1, MaskCases
  <2>3. y = x + j BY DEF y
  <2> QED BY <2>1, <2>2, <2>3, <1>1
<1> QED BY <1>1, <1>3, <1>4

(* A distance within the text is within the ring and the buffer: the test  *)
(* "history_index < hdist" fails.                                          *)
LEMMA DistanceInRing ==
  ASSUME TypeOK, RingHoldsText, NEW d \in 1..R, d <= Len(out), d > Unflushed
  PROVE  /\ d - Unflushed <= history_index
         /\ d - Unflushed \in 1..Minimum(Len(out) - Unflushed, R)
         /\ history_index - (d - Unflushed) \in 0..2 * R
<1>1. out \in Seq(Bytes) /\ Unflushed \in Nat /\ history_index \in 0..2 * R
  BY DEF TypeOK, Unflushed
<1>2. Len(out) \in Nat BY <1>1, LenProperties
<1>3. R \in Nat \ {0} BY DeflateHistoryAssumption
<1>4. /\ Len(out) - Unflushed < R => history_index = Len(out) - Unflushed
      /\ Len(out) - Unflushed >= R => history_index >= R
  BY DEF RingHoldsText, HoldsText
<1> QED BY <1>1, <1>2, <1>3, <1>4 DEF Minimum

(* A distance beyond the text fails that test.                             *)
LEMMA DistanceBeyondText ==
  ASSUME TypeOK, RingHoldsText, NEW d \in 1..R, d > Unflushed,
         history_index < d - Unflushed
  PROVE  d > Len(out)
<1>1. out \in Seq(Bytes) /\ Unflushed \in Nat /\ history_index \in 0..2 * R
  BY DEF TypeOK, Unflushed
<1>2. Len(out) \in Nat BY <1>1, LenProperties
<1>3. R \in Nat \ {0} BY DeflateHistoryAssumption
<1>4. /\ Len(out) - Unflushed < R => history_index = Len(out) - Unflushed
      /\ Len(out) - Unflushed >= R => history_index >= R
  BY DEF RingHoldsText, HoldsText
<1> QED BY <1>1, <1>2, <1>3, <1>4

(* t is s and n more bytes, each one equal to the byte d back.             *)
Continues(s, t, d, n) ==
  /\ Extends(s, t, n)
  /\ \A i \in Len(s) + 1..Len(s) + n : t[i] = t[i - d]

(* From the slot where the byte d back is, copying n bytes without running *)
(* past the ring's end continues the text with the bytes d back.           *)
LEMMA RingCopyRepeats ==
  ASSUME NEW s \in Seq(Bytes), NEW u \in Nat, u <= Len(s),
         HoldsText(history, history_index, s, Len(s) - u),
         history \in [0..R - 1 -> Bytes], history_index \in 0..2 * R,
         NEW d \in 1..R, d <= Len(s), d > u,
         NEW x \in 0..2 * R, Mask(x) = Mask(history_index - (d - u)),
         NEW n \in Nat, n <= d - u, n <= R - Mask(x)
  PROVE  Continues(s, CopyFromSlice(s, x, n), d, n)
<1> DEFINE t == CopyFromSlice(s, x, n)
           b == d - u
<1>1. s \in Seq(Bytes) /\ u \in Nat OBVIOUS
<1>2. Len(s) \in Nat BY <1>1, LenProperties
<1>3. R \in Nat \ {0} BY DeflateHistoryAssumption
<1>4. /\ b <= history_index /\ b \in 1..Minimum(Len(s) - u, R)
      /\ history_index - b \in 0..2 * R
  <2>1. /\ Len(s) - u < R => history_index = Len(s) - u
        /\ Len(s) - u >= R => history_index >= R
    BY DEF HoldsText
  <2> QED BY <2>1, <1>1, <1>2, <1>3, SMTT(30) DEF Minimum
<1>5. /\ Extends(s, t, n)
      /\ \A j \in 0..n - 1 : t[Len(s) + 1 + j] = history[Mask(x) + j]
  BY <1>1, SliceExtends
<1> HIDE DEF t, b
<1>6. b \in Nat /\ b = d - u /\ b <= Len(s) - u /\ b <= R
  BY <1>1, <1>2, <1>3, <1>4 DEF b, Minimum
<1>7. ASSUME NEW j \in 0..n - 1
      PROVE  t[Len(s) + 1 + j] = t[Len(s) + 1 + j - d]
  <2>1. n <= b /\ n <= R - Mask(history_index - b) /\ j \in Nat /\ j < n
    BY DEF b
  <2>2. b - j \in 1..Minimum(Len(s) - u, R)
    BY <2>1, <1>1, <1>2, <1>3, <1>6 DEF Minimum
  <2>3. history[Mask(history_index - (b - j))]
          = s[(Len(s) - u) - (b - j) + 1]
    BY <2>2 DEF HoldsText
  <2>4. history_index - (b - j) = (history_index - b) + j BY <1>1, <1>6, <2>1
  <2>5. Mask(history_index - b) \in 0..R - 1 BY <1>4, MaskCases
  <2>6. (history_index - b) + j <= 2 * R BY <1>1, <1>3, <1>6, <2>1
  <2>7. Mask((history_index - b) + j) = Mask(history_index - b) + j
    <3>1. Mask(history_index - b) + j < R BY <2>1, <2>5, <1>3, SMTT(30)
    <3> QED BY <3>1, <2>1, <2>6, <1>4, MaskAdd
  <2>8. (Len(s) - u) - (b - j) + 1 = Len(s) + 1 + j - d
    BY <1>1, <1>2, <1>6, <2>1
  <2>9. Len(s) + 1 + j - d \in 1..Len(s)
    BY <2>1, <1>1, <1>2, <1>6
  <2>10. t[Len(s) + 1 + j - d] = s[Len(s) + 1 + j - d]
    BY <2>9, <1>5 DEF Extends
  <2>11. Mask(x) = Mask(history_index - b) BY DEF b
  <2> QED BY <1>5, <2>3, <2>4, <2>7, <2>8, <2>10, <2>11
<1>8. ASSUME NEW i \in Len(s) + 1..Len(s) + n PROVE t[i] = t[i - d]
  <2>1. i - Len(s) - 1 \in 0..n - 1 /\ Len(s) + 1 + (i - Len(s) - 1) = i
    BY <1>2
  <2> DEFINE j == i - Len(s) - 1
  <2>2. t[Len(s) + 1 + j] = t[Len(s) + 1 + j - d] BY <2>1, <1>7
  <2> QED BY <2>1, <2>2
<1>9. Continues(s, t, d, n) BY <1>5, <1>8 DEF Continues
<1> QED BY <1>9 DEF t

(* The bytes of t after the first m repeat those d back, up to the n-th.   *)
Repeats(t, d, m, n) == \A i \in m + 1..n : t[i] = t[i - d]

(* The bytes of a match so far and the bytes just copied form a longer     *)
(* part of the match.                                                      *)
LEMMA MatchGrows ==
  ASSUME NEW s \in Seq(Bytes), NEW m \in Nat, m <= Len(s), NEW d \in 1..R, d <= m,
         Repeats(s, d, m, Len(s)),
         NEW t, NEW n \in Nat, Extends(s, t, n),
         Repeats(t, d, Len(s), Len(s) + n)
  PROVE  Repeats(t, d, m, Len(t))
<1> USE DEF Repeats
<1>1. Len(s) \in Nat /\ m \in Nat BY LenProperties
<1>2. d \in Nat BY DeflateHistoryAssumption
<1> TAKE i \in m + 1..Len(t)
<1>3. Len(t) = Len(s) + n BY DEF Extends
<1>4. CASE i <= Len(s)
  <2>1. i \in 1..Len(s) /\ i - d \in 1..Len(s) /\ i \in m + 1..Len(s)
    BY <1>1, <1>2, <1>3, <1>4
  <2> QED BY <2>1 DEF Extends
<1>5. CASE i > Len(s)
  <2>1. i \in Len(s) + 1..Len(s) + n BY <1>1, <1>3, <1>5
  <2> QED BY <2>1
<1> QED BY <1>1, <1>3, <1>4, <1>5

(* Where decode leaves history_index after it appends m bytes.             *)
LEMMA IndexAfterAppend ==
  ASSUME NEW m \in Nat, NEW d \in 1..R, m < d, history_index \in 0..2 * R,
         d - m <= history_index, d <= AppendedIndex(m)
  PROVE  Mask(AppendedIndex(m) - d) = Mask(history_index - (d - m))
<1> DEFINE at == Mask(history_index)
           x  == AppendedIndex(m)
<1>1. R \in Nat \ {0} BY DeflateHistoryAssumption
<1>2. at \in 0..R - 1 BY MaskCases
<1>3. /\ history_index < R => at = history_index
      /\ R <= history_index /\ history_index < 2 * R => at = history_index - R
      /\ history_index = 2 * R => at = 0
  BY MaskCases
<1>4. x = IF R - at < m THEN at + m
          ELSE at + m + (IF history_index >= R THEN R ELSE 0)
  BY <1>1, <1>2 DEF AppendedIndex, Minimum
<1> HIDE DEF at, x
<1> DEFINE a == x - d
           b == history_index - (d - m)
<1>5. a \in 0..2 * R /\ b \in 0..2 * R BY <1>1, <1>2, <1>3, <1>4 DEF x
<1>6. a = b \/ a = b + R \/ b = a + R \/ a = b + 2 * R \/ b = a + 2 * R
  BY <1>1, <1>2, <1>3, <1>4
<1> HIDE DEF a, b
<1>7. /\ a < R => Mask(a) = a
      /\ R <= a /\ a < 2 * R => Mask(a) = a - R
      /\ a = 2 * R => Mask(a) = 0
  BY <1>5, MaskCases
<1>8. /\ b < R => Mask(b) = b
      /\ R <= b /\ b < 2 * R => Mask(b) = b - R
      /\ b = 2 * R => Mask(b) = 0
  BY <1>5, MaskCases
<1>9. Mask(a) = Mask(b) BY <1>1, <1>5, <1>6, <1>7, <1>8
<1> QED BY <1>9 DEF a, b, x

-----------------------------------------------------------------------------
(* Every step preserves the inductive invariant: one lemma per action.     *)

LEMMA InitStep == Init => ResumableCopies
<1> SUFFICES ASSUME Init PROVE ResumableCopies OBVIOUS
<1>1. R \in Nat \ {0} /\ Bytes # {} BY DeflateHistoryAssumption
<1>2. (CHOOSE b \in Bytes : TRUE) \in Bytes BY <1>1
<1>3. Len(out) = 0 /\ out \in Seq(Bytes) /\ stream \in Seq(Symbols)
  <2>1. out = << >> /\ stream = << >> BY DEF Init
  <2> QED BY <2>1, EmptySeq
<1>4. TypeOK
  <2>1. history \in [0..R - 1 -> Bytes] BY <1>2 DEF Init
  <2>2. history_index \in 0..2 * R /\ hdist \in 0..2 * R /\ distance \in 0..R
    <3>1. history_index = 0 /\ hdist = 0 /\ distance = 0 BY DEF Init
    <3> QED BY <1>1, <3>1
  <2>3. pc = "caller" /\ resume \in Resumable /\ status = "not_called"
    BY DEF Init, Resumable
  <2>4. /\ avail \in Nat /\ since \in Nat /\ length \in Nat /\ hlen \in Nat
        /\ start \in Nat /\ final \in BOOLEAN
    BY DEF Init
  <2>5. literal = << >> /\ symbol = NoSymbol BY DEF Init
  <2> QED BY <1>3, <2>1, <2>2, <2>3, <2>4, <2>5 DEF TypeOK
<1>5. RingHoldsText
  <2>1. Unflushed = 0 /\ history_index = 0 BY DEF Init, Unflushed
  <2>2. Minimum(0, R) = 0 BY <1>1 DEF Minimum
  <2> QED BY <1>1, <1>3, <2>1, <2>2 DEF RingHoldsText, HoldsText
<1>6. pc = "caller" /\ At = "blocks" /\ status = "not_called" /\ start = 0
  BY DEF Init, At
<1>7. MatchState /\ RingCopyState /\ LiteralState /\ UncheckedCopyIsSafe
  BY <1>6 DEF MatchState, RingCopyState, LiteralState, UncheckedCopyIsSafe,
     MatchPoints, RingPoints
<1>8. start <= Len(out) /\ start = Len(out)
  <2>1. Len(out) = 0 BY <1>3
  <2> QED BY <1>6, <2>1
<1>9. IdleState /\ NoInternalError BY <1>6, <1>8 DEF IdleState, NoInternalError
<1> QED BY <1>4, <1>5, <1>7, <1>9 DEF ResumableCopies

LEMMA CallStep ==
  ASSUME ResumableCopies, NEW cap \in 0..MaxCap, Call(cap)
  PROVE  ResumableCopies'
<1>1. MaxCap \in Nat BY DeflateHistoryAssumption
<1>2. /\ UNCHANGED <<resume, status, history, history_index, out, final, length,
                     distance, hlen, hdist, literal, start, stream, symbol>>
      /\ pc = "caller" /\ pc' = resume /\ avail' = cap /\ since' = 0
  BY DEF Call, ring, locals, ghosts
<1>3. resume \in Resumable BY DEF ResumableCopies, TypeOK
<1>4. At' = At /\ Unflushed' = Unflushed BY <1>2, <1>3 DEF At, Unflushed, Resumable
<1>5. TypeOK'
  <2>1. pc' \in Running /\ avail' \in Nat /\ since' \in Nat
    BY <1>1, <1>2, <1>3 DEF Running
  <2>2. TypeOK BY DEF ResumableCopies
  <2> QED BY <1>2, <2>1, <2>2 DEF TypeOK
<1>6. RingHoldsText' BY <1>2, <1>4 DEF ResumableCopies, RingHoldsText, HoldsText
<1>7. MatchState' BY <1>2, <1>4 DEF ResumableCopies, MatchState
<1>8. RingCopyState' BY <1>2, <1>4 DEF ResumableCopies, RingCopyState
<1>9. LiteralState' BY <1>2, <1>4 DEF ResumableCopies, LiteralState
<1>10. IdleState' BY <1>2, <1>4 DEF ResumableCopies, IdleState
<1>11. UncheckedCopyIsSafe' /\ NoInternalError'
  BY <1>2, <1>3 DEF ResumableCopies, UncheckedCopyIsSafe, NoInternalError, Resumable
<1> QED BY <1>5, <1>6, <1>7, <1>8, <1>9, <1>10, <1>11 DEF ResumableCopies

(* From one idle point to another without writing.                         *)
LEMMA IdleMoves ==
  ASSUME ResumableCopies, At \in IdlePoints, pc # "caller", UNCHANGED <<buffer, ghosts>>,
         At' \in IdlePoints \cup {"returned"}, TypeOK', RingHoldsText',
         status' # "bad_distance", NoInternalError'
  PROVE  ResumableCopies'
<1>1. MatchState' /\ RingCopyState' /\ LiteralState'
  BY DEF MatchState, RingCopyState, LiteralState, MatchPoints, RingPoints, IdlePoints
<1>2. IdleState' BY DEF ResumableCopies, IdleState, buffer, ghosts
<1>3. UncheckedCopyIsSafe' BY DEF UncheckedCopyIsSafe, At, IdlePoints
<1> QED BY <1>1, <1>2, <1>3 DEF ResumableCopies

LEMMA ShortReadStep ==
  ASSUME ResumableCopies, ShortRead
  PROVE  ResumableCopies'
<1>1. /\ pc \in {"blocks", "slow"} /\ pc' = "caller" /\ resume' = pc
      /\ status' = "short_read" /\ Yield("short_read", pc, out, since)
      /\ UNCHANGED <<buffer, locals, ghosts>>
  BY DEF ShortRead, Yield
<1>2. TypeOK /\ RingHoldsText BY DEF ResumableCopies
<1>3. since + 0 = since /\ out' = out
  <2>1. since \in Nat BY <1>2 DEF TypeOK
  <2>2. out' = out BY <1>1 DEF buffer
  <2> QED BY <2>1, <2>2
<1>4. /\ history' \in [0..R - 1 -> Bytes] /\ history_index' \in 0..2 * R
      /\ RingHoldsText'
  BY <1>1, <1>2, <1>3, NothingWritten, YieldKeepsRing
<1>5. TypeOK' BY <1>1, <1>2, <1>4 DEF TypeOK, Resumable, buffer, locals, ghosts
<1> QED
  BY <1>1, <1>4, <1>5, IdleMoves DEF At, IdlePoints, NoInternalError

(* The other steps from an idle point that write nothing.                  *)
LEMMA QuietStep ==
  ASSUME ResumableCopies,
         NEW f \in BOOLEAN, NEW n \in 0..MaxStored,
         \/ BadStream \/ DecodeDone \/ EndOfBlock \/ FastExit
         \/ HuffmanHeader(f) \/ StoredHeader(f, n)
  PROVE  ResumableCopies'
<1>1. MaxStored \in Nat BY DeflateHistoryAssumption
<1>2. TypeOK /\ RingHoldsText BY DEF ResumableCopies
<1>3. /\ pc \in IdlePoints /\ pc' \in IdlePoints \cup {"returned"}
      /\ UNCHANGED <<buffer, ghosts, ring, resume>>
      /\ status' \in {status, "ok", "bad_stream"}
      /\ length' \in Nat /\ final' \in BOOLEAN
      /\ UNCHANGED <<distance, hlen, hdist, literal>>
  <2>0. length \in Nat /\ final \in BOOLEAN BY <1>2 DEF TypeOK
  <2>1. CASE BadStream BY <2>0, <2>1 DEF BadStream, Return, IdlePoints, locals
  <2>2. CASE DecodeDone BY <2>0, <2>2 DEF DecodeDone, Return, IdlePoints, locals
  <2>3. CASE EndOfBlock BY <2>0, <2>3 DEF EndOfBlock, GoTo, IdlePoints, locals
  <2>4. CASE FastExit BY <2>0, <2>4 DEF FastExit, GoTo, IdlePoints, locals
  <2>5. CASE HuffmanHeader(f) BY <2>0, <2>5 DEF HuffmanHeader, GoTo, IdlePoints
  <2>6. CASE StoredHeader(f, n)
    BY <1>1, <2>0, <2>6 DEF StoredHeader, GoTo, IdlePoints
  <2> QED BY <2>1, <2>2, <2>3, <2>4, <2>5, <2>6
<1>4. TypeOK'
  BY <1>2, <1>3 DEF TypeOK, IdlePoints, Running, Resumable, buffer, ghosts, ring
<1>5. since' = since + 0 /\ out' = out
  <2>1. since \in Nat BY <1>2 DEF TypeOK
  <2>2. since' = since /\ out' = out BY <1>3 DEF buffer
  <2> QED BY <2>1, <2>2
<1>6. RingHoldsText'
  BY <1>2, <1>3, <1>5, NothingWritten, WriteKeepsRing DEF IdlePoints
<1>7. status' # "bad_distance" /\ NoInternalError'
  BY <1>3 DEF ResumableCopies, IdleState, NoInternalError, IdlePoints
<1> QED BY <1>3, <1>4, <1>6, <1>7, IdleMoves DEF At, IdlePoints

(* A symbol is completed at an idle point.                                 *)
LEMMA CompleteMoves ==
  ASSUME TypeOK', RingHoldsText', start' = Len(out'),
         At' \in IdlePoints \cup {"returned"}, pc' # "fast_dst",
         status' = "bad_distance" => pc' = "returned", NoInternalError'
  PROVE  ResumableCopies'
<1>1. MatchState' /\ RingCopyState' /\ LiteralState' /\ UncheckedCopyIsSafe'
  BY DEF MatchState, RingCopyState, LiteralState, MatchPoints, RingPoints,
     IdlePoints, UncheckedCopyIsSafe
<1>2. Len(out') \in Nat BY LenProperties DEF TypeOK
<1>3. start' <= Len(out') BY <1>2
<1>4. IdleState' BY <1>3 DEF IdleState
<1> QED BY <1>1, <1>4 DEF ResumableCopies

LEMMA RunsAreSeqs ==
  ASSUME NEW bytes \in Runs
  PROVE  bytes \in Seq(Bytes) /\ Len(bytes) \in Nat
<1>1. \E n \in Nat : bytes \in [1..n -> Bytes]
  <2>1. PICK n \in 1..MaxStored : bytes \in [1..n -> Bytes] BY DEF Runs
  <2>2. n \in Nat BY DeflateHistoryAssumption
  <2> QED BY <2>1, <2>2
<1>2. PICK n \in Nat : bytes \in [1..n -> Bytes] BY <1>1
<1> QED BY <1>2, FunctionIsSeq

LEMMA ConcatExtends ==
  ASSUME NEW t \in Seq(Bytes), NEW bytes \in Seq(Bytes)
  PROVE  Extends(t, t \o bytes, Len(bytes))
<1>1. Len(t) \in Nat /\ Len(bytes) \in Nat BY LenProperties
<1>2. /\ t \o bytes \in Seq(Bytes)
      /\ Len(t \o bytes) = Len(t) + Len(bytes)
      /\ \A i \in 1..Len(t) + Len(bytes) :
           (t \o bytes)[i] = IF i <= Len(t) THEN t[i] ELSE bytes[i - Len(t)]
  BY ConcatProperties
<1>3. \A i \in 1..Len(t) : (t \o bytes)[i] = t[i] BY <1>1, <1>2
<1> QED BY <1>2, <1>3 DEF Extends

LEMMA AppendExtends ==
  ASSUME NEW t \in Seq(Bytes), NEW b \in Bytes
  PROVE  Extends(t, Append(t, b), 1)
<1>1. Len(t) \in Nat BY LenProperties
<1>2. Append(t, b) \in Seq(Bytes) /\ Len(Append(t, b)) = Len(t) + 1
  OBVIOUS
<1>3. \A i \in 1..Len(t) : Append(t, b)[i] = t[i] BY <1>1
<1> QED BY <1>2, <1>3 DEF Extends

LEMMA OneByteRun ==
  ASSUME NEW b \in Bytes
  PROVE  <<b>> \in [1..1 -> Bytes] /\ <<b>> \in Runs /\ LiteralSymbol(<<b>>) \in Symbols
<1>1. <<b>> \in [1..1 -> Bytes] OBVIOUS
<1>2. <<b>> \in Runs
  <2>1. 1 \in 1..MaxStored BY DeflateHistoryAssumption
  <2>2. \E n \in 1..MaxStored : <<b>> \in [1..n -> Bytes] BY <1>1, <2>1
  <2> QED BY <2>2 DEF Runs
<1> QED BY <1>1, <1>2 DEF Symbols

LEMMA FastLiteralStep ==
  ASSUME ResumableCopies, NEW b \in Bytes, FastLiteral(b)
  PROVE  ResumableCopies'
<1>1. TypeOK /\ RingHoldsText BY DEF ResumableCopies
<1>2. /\ pc = "fast" /\ pc' = "fast" /\ avail >= MaxLength
      /\ out' = Append(out, b) /\ avail' = avail - 1 /\ since' = since + 1
      /\ symbol' = NoSymbol /\ stream' = Append(stream, LiteralSymbol(<<b>>))
      /\ start' = Len(out')
      /\ UNCHANGED <<resume, status, history, history_index, final, length,
                     distance, hlen, hdist, literal>>
  BY DEF FastLiteral, FastSpace, Write, Complete, coroutine, ring, locals
<1>3. out \in Seq(Bytes) /\ avail \in Nat /\ since \in Nat /\ stream \in Seq(Symbols)
  BY <1>1 DEF TypeOK
<1>4. Extends(out, out', 1) BY <1>2, <1>3, AppendExtends
<1>5. out' \in Seq(Bytes) /\ Len(out') \in Nat BY <1>4, LenProperties DEF Extends
<1>6. avail' \in Nat /\ since' \in Nat BY <1>2, <1>3, DeflateHistoryAssumption
<1>7. stream' \in Seq(Symbols) BY <1>2, <1>3, OneByteRun
<1>8. TypeOK' BY <1>1, <1>2, <1>5, <1>6, <1>7 DEF TypeOK
<1>9. RingHoldsText' BY <1>1, <1>2, <1>4, WriteKeepsRing DEF ring
<1>10. status' # "bad_distance" /\ NoInternalError'
  BY <1>2 DEF ResumableCopies, IdleState, NoInternalError
<1> QED BY <1>2, <1>8, <1>9, <1>10, CompleteMoves DEF At, IdlePoints

LEMMA StoredStep ==
  ASSUME ResumableCopies, NEW bytes \in Runs \cup {<< >>}, Stored(bytes)
  PROVE  ResumableCopies'
<1> DEFINE n == Len(bytes)
           t == out \o bytes
<1>1. TypeOK /\ RingHoldsText BY DEF ResumableCopies
<1>2. /\ pc = "stored" /\ n <= Minimum(length, avail)
      /\ out' = t /\ avail' = avail - n /\ since' = since + n
      /\ IF n = 0 THEN UNCHANGED <<start, stream, symbol>>
                  ELSE Complete(LiteralSymbol(bytes), t)
      /\ IF length <= n THEN length' = 0 /\ GoTo("blocks")
         ELSE /\ length' = length - n
              /\ Yield(IF avail - n = 0 THEN "short_write" ELSE "short_read",
                       "stored", t, since + n)
      /\ UNCHANGED <<final, distance, hlen, hdist, literal>>
  BY DEF Stored, Write, ghosts
<1>3. /\ out \in Seq(Bytes) /\ avail \in Nat /\ since \in Nat
      /\ stream \in Seq(Symbols) /\ length \in Nat /\ start \in Nat
      /\ symbol \in Symbols \cup {NoSymbol}
  BY <1>1 DEF TypeOK
<1>4. bytes \in Seq(Bytes) /\ n \in Nat BY RunsAreSeqs, EmptySeq
<1>5. Extends(out, t, n) BY <1>3, <1>4, ConcatExtends
<1>6. t \in Seq(Bytes) /\ Len(t) \in Nat /\ Len(t) = Len(out) + n /\ Len(out) \in Nat
  BY <1>3, <1>5, LenProperties DEF Extends
<1> HIDE DEF n, t
<1>7. n <= length /\ n <= avail BY <1>2, <1>3, <1>4 DEF Minimum
<1>8. avail' \in Nat /\ since' \in Nat /\ length' \in Nat
  BY <1>2, <1>3, <1>4, <1>7
<1>9. /\ start' = Len(out') /\ start' \in Nat /\ stream' \in Seq(Symbols)
      /\ symbol' \in Symbols \cup {NoSymbol}
  <2>1. CASE n = 0
    <3>1. start = Len(out) BY <1>2 DEF ResumableCopies, IdleState, At, IdlePoints
    <3> QED BY <2>1, <3>1, <1>2, <1>3, <1>6
  <2>2. CASE n # 0
    <3>1. bytes \in Runs BY <2>2, EmptySeq DEF n
    <3>2. LiteralSymbol(bytes) \in Symbols BY <3>1 DEF Symbols
    <3>3. start' = Len(t) /\ symbol' = NoSymbol
          /\ stream' = Append(stream, LiteralSymbol(bytes))
      BY <2>2, <1>2 DEF Complete
    <3> QED BY <3>2, <3>3, <1>2, <1>3, <1>6
  <2> QED BY <2>1, <2>2
<1>10. CASE length <= n
  <2>1. pc' = "blocks" /\ UNCHANGED <<resume, status, ring, history, history_index>>
    BY <1>2, <1>10 DEF GoTo, ring
  <2>2. TypeOK'
    BY <1>1, <1>2, <1>6, <1>8, <1>9, <2>1 DEF TypeOK, Running, Resumable
  <2>3. RingHoldsText' BY <1>1, <1>2, <1>4, <1>5, <2>1, WriteKeepsRing
  <2>4. status' # "bad_distance" /\ NoInternalError'
    BY <1>2, <2>1 DEF ResumableCopies, IdleState, NoInternalError
  <2> QED BY <1>9, <2>1, <2>2, <2>3, <2>4, CompleteMoves DEF At, IdlePoints
<1>11. CASE ~(length <= n)
  <2> DEFINE why == IF avail - n = 0 THEN "short_write" ELSE "short_read"
  <2>1. pc' = "caller" /\ resume' = "stored" /\ status' \in {"short_write", "short_read"}
    BY <1>2, <1>11 DEF Yield
  <2>2. Yield(why, "stored", t, since + n) BY <1>2, <1>11
  <2>3. /\ history' \in [0..R - 1 -> Bytes] /\ history_index' \in 0..2 * R
        /\ RingHoldsText'
    BY <1>1, <1>2, <1>4, <1>5, <2>2, YieldKeepsRing
  <2>4. TypeOK'
    BY <1>1, <1>2, <1>6, <1>8, <1>9, <2>1, <2>3 DEF TypeOK, Resumable
  <2> QED BY <1>9, <2>1, <2>3, <2>4, CompleteMoves DEF At, IdlePoints, NoInternalError
<1> QED BY <1>10, <1>11

LEMMA SlowLiteralStep ==
  ASSUME ResumableCopies, NEW b \in Bytes, SlowLiteral(b)
  PROVE  ResumableCopies'
<1>1. TypeOK /\ RingHoldsText BY DEF ResumableCopies
<1>2. /\ pc = "slow" /\ pc' = "literal" /\ literal' = <<b>>
      /\ symbol' = LiteralSymbol(<<b>>) /\ start' = Len(out)
      /\ UNCHANGED <<resume, status, history, history_index, avail, since, out,
                     final, length, distance, hlen, hdist, stream>>
  BY DEF SlowLiteral, Begin, GoTo, buffer, ring
<1>3. out \in Seq(Bytes) /\ since \in Nat BY <1>1 DEF TypeOK
<1>4. Len(out) \in Nat BY <1>3, LenProperties
<1>5. literal' \in [1..1 -> Bytes] /\ symbol' \in Symbols BY <1>2, OneByteRun
<1>6. TypeOK' BY <1>1, <1>2, <1>4, <1>5 DEF TypeOK, Running, Resumable
<1>7. since' = since + 0 BY <1>2, <1>3
<1>8. RingHoldsText' BY <1>1, <1>2, <1>7, NothingWritten, WriteKeepsRing DEF ring
<1>9. MatchState' /\ RingCopyState' /\ UncheckedCopyIsSafe'
  BY <1>2 DEF MatchState, RingCopyState, UncheckedCopyIsSafe, MatchPoints,
     RingPoints, At
<1>10. LiteralState' BY <1>2, <1>5 DEF LiteralState
<1>11. start' <= Len(out') BY <1>2, <1>4
<1>12. IdleState' /\ NoInternalError'
  BY <1>2, <1>11 DEF ResumableCopies, IdleState, NoInternalError
<1> QED BY <1>6, <1>8, <1>9, <1>10, <1>12 DEF ResumableCopies

LEMMA WriteU8Step ==
  ASSUME ResumableCopies, WriteU8
  PROVE  ResumableCopies'
<1>1. TypeOK /\ RingHoldsText /\ LiteralState /\ IdleState BY DEF ResumableCopies
<1>2. /\ pc = "literal"
      /\ UNCHANGED <<final, length, distance, hlen, hdist>>
  BY DEF WriteU8
<1>3. /\ out \in Seq(Bytes) /\ since \in Nat /\ avail \in Nat
      /\ stream \in Seq(Symbols) /\ symbol \in Symbols \cup {NoSymbol}
  BY <1>1 DEF TypeOK
<1>4. /\ literal \in [1..1 -> Bytes] /\ symbol = LiteralSymbol(literal)
      /\ start = Len(out)
  BY <1>1, <1>2 DEF LiteralState, At
<1>5. Len(out) \in Nat BY <1>3, LenProperties
<1>6. CASE avail = 0
  <2>1. /\ Yield("short_write", "literal", out, since)
        /\ UNCHANGED <<avail, since, out, literal, start, stream, symbol>>
    BY <1>6 DEF WriteU8, buffer, ghosts
  <2>2. pc' = "caller" /\ resume' = "literal" /\ status' = "short_write"
    BY <2>1 DEF Yield
  <2>3. since + 0 = since BY <1>3
  <2>4. /\ history' \in [0..R - 1 -> Bytes] /\ history_index' \in 0..2 * R
        /\ RingHoldsText'
    BY <1>1, <1>2, <2>1, <2>3, NothingWritten, YieldKeepsRing
  <2>5. TypeOK' BY <1>1, <1>2, <2>1, <2>2, <2>4 DEF TypeOK, Resumable
  <2>6. MatchState' /\ RingCopyState' /\ UncheckedCopyIsSafe'
    BY <2>2 DEF MatchState, RingCopyState, UncheckedCopyIsSafe, MatchPoints,
       RingPoints, At
  <2>7. LiteralState' BY <1>4, <2>1 DEF LiteralState
  <2>8. IdleState' /\ NoInternalError'
    BY <1>1, <2>1, <2>2 DEF IdleState, NoInternalError, At, IdlePoints
  <2> QED BY <2>4, <2>5, <2>6, <2>7, <2>8 DEF ResumableCopies
<1>7. CASE avail # 0
  <2>1. /\ out' = out \o literal /\ avail' = avail - 1 /\ since' = since + 1
        /\ symbol' = NoSymbol /\ stream' = Append(stream, symbol)
        /\ start' = Len(out') /\ literal' = << >> /\ pc' = "slow"
        /\ UNCHANGED <<resume, status, ring, history, history_index>>
    BY <1>7 DEF WriteU8, Write, Complete, GoTo, ring
  <2>2. literal \in Seq(Bytes) /\ Len(literal) = 1 BY <1>4, FunctionIsSeq
  <2>3. Extends(out, out', 1) BY <1>3, <2>1, <2>2, ConcatExtends
  <2>4. out' \in Seq(Bytes) /\ Len(out') \in Nat BY <2>3, LenProperties DEF Extends
  <2>5. avail' \in Nat /\ since' \in Nat BY <1>3, <1>7, <2>1
  <2>6. symbol # NoSymbol BY <1>4 DEF LiteralSymbol, NoSymbol
  <2>7. stream' \in Seq(Symbols) BY <1>3, <2>1, <2>6
  <2>8. TypeOK'
    BY <1>1, <1>2, <2>1, <2>4, <2>5, <2>7 DEF TypeOK, Running, Resumable
  <2>9. RingHoldsText' BY <1>1, <1>2, <2>1, <2>3, WriteKeepsRing
  <2>10. status' # "bad_distance" /\ NoInternalError'
    BY <1>1, <1>2, <2>1 DEF ResumableCopies, IdleState, NoInternalError
  <2> QED BY <2>1, <2>8, <2>9, <2>10, CompleteMoves DEF At, IdlePoints
<1> QED BY <1>6, <1>7

LEMMA MatchIsSymbol ==
  ASSUME NEW l \in Lengths, NEW d \in 1..R
  PROVE  /\ MatchSymbol(l, d) \in Symbols /\ MatchSymbol(l, d) # NoSymbol
         /\ l \in 1..MaxLength /\ l \in Nat /\ d \in Nat
<1>1. MatchSymbol(l, d) \in Symbols BY DEF Symbols
<1>2. MatchSymbol(l, d) # NoSymbol BY DEF MatchSymbol, NoSymbol
<1>3. l \in 1..MaxLength /\ l \in Nat /\ d \in Nat BY DeflateHistoryAssumption
<1> QED BY <1>1, <1>2, <1>3

LEMMA SlowMatchStep ==
  ASSUME ResumableCopies, NEW l \in Lengths, NEW d \in 1..R, SlowMatch(l, d)
  PROVE  ResumableCopies'
<1>1. TypeOK /\ RingHoldsText BY DEF ResumableCopies
<1>2. /\ pc = "slow" /\ pc' = "match" /\ length' = l /\ distance' = d
      /\ symbol' = MatchSymbol(l, d) /\ start' = Len(out)
      /\ UNCHANGED <<resume, status, history, history_index, avail, since, out,
                     final, hlen, hdist, literal, stream>>
  BY DEF SlowMatch, Begin, GoTo, buffer, ring
<1>3. out \in Seq(Bytes) /\ since \in Nat BY <1>1 DEF TypeOK
<1>4. Len(out) \in Nat BY <1>3, LenProperties
<1>5. /\ symbol' \in Symbols /\ l \in 1..MaxLength /\ l \in Nat
      /\ d \in 0..R
  BY <1>2, MatchIsSymbol, DeflateHistoryAssumption
<1>6. TypeOK' BY <1>1, <1>2, <1>4, <1>5 DEF TypeOK, Running, Resumable
<1>7. since' = since + 0 BY <1>2, <1>3
<1>8. RingHoldsText' BY <1>1, <1>2, <1>7, NothingWritten, WriteKeepsRing DEF ring
<1>9. At' = "match" BY <1>2 DEF At
<1>10. RingCopyState' /\ UncheckedCopyIsSafe' /\ LiteralState'
  BY <1>2, <1>9 DEF RingCopyState, UncheckedCopyIsSafe, LiteralState, RingPoints
<1>11. MatchState'
  <2>1. l = (Len(out') - start') + length' + 0 /\ length' > 0
    BY <1>2, <1>4, <1>5, DeflateHistoryAssumption
  <2>2. \A i \in start' + 1..Len(out') : FALSE BY <1>2, <1>4
  <2>3. \E m \in Lengths :
          /\ symbol' = MatchSymbol(m, distance')
          /\ m = (Len(out') - start') + length'
                  + RingPart(At', hlen')
    BY <1>2, <1>9, <2>1 DEF RingPoints, RingPart
  <2> QED BY <1>2, <1>9, <2>1, <2>2, <2>3 DEF MatchState
<1>12. start' <= Len(out') BY <1>2, <1>4
<1>13. IdleState' /\ NoInternalError'
  BY <1>2, <1>9, <1>12 DEF ResumableCopies, IdleState, NoInternalError, IdlePoints
<1> QED BY <1>6, <1>8, <1>10, <1>11, <1>13 DEF ResumableCopies

(* Facts about a match in progress, in a form the steps below use.         *)
LEMMA MatchFacts ==
  ASSUME ResumableCopies, pc \in MatchPoints
  PROVE  /\ At = pc /\ Unflushed = since
         /\ out \in Seq(Bytes) /\ Len(out) \in Nat /\ start \in Nat
         /\ start <= Len(out) /\ since \in Nat /\ avail \in Nat
         /\ since <= Len(out)
         /\ length \in Nat /\ hlen \in Nat /\ hdist \in 0..2 * R
         /\ history \in [0..R - 1 -> Bytes] /\ history_index \in 0..2 * R
         /\ R \in Nat \ {0} /\ MaxLength \in Nat /\ MaxLength < R
         /\ distance \in 1..R /\ distance \in Nat
         /\ symbol \in Symbols /\ symbol # NoSymbol /\ stream \in Seq(Symbols)
         /\ status # "bad_distance"
<1>1. TypeOK /\ RingHoldsText /\ MatchState /\ IdleState BY DEF ResumableCopies
<1>2. At = pc /\ Unflushed = since BY DEF At, Unflushed, MatchPoints
<1>3. /\ out \in Seq(Bytes) /\ start \in Nat /\ since \in Nat /\ avail \in Nat
      /\ length \in Nat /\ hlen \in Nat /\ hdist \in 0..2 * R
      /\ history \in [0..R - 1 -> Bytes] /\ history_index \in 0..2 * R
      /\ stream \in Seq(Symbols)
  BY <1>1 DEF TypeOK
<1>4. Len(out) \in Nat BY <1>3, LenProperties
<1>5. start <= Len(out) /\ status # "bad_distance"
  BY <1>1 DEF IdleState, MatchPoints
<1>6. since <= Len(out) BY <1>1, <1>2 DEF RingHoldsText
<1>7. distance \in 1..R /\ \E l \in Lengths : symbol = MatchSymbol(l, distance)
  BY <1>1, <1>2 DEF MatchState
<1>8. symbol \in Symbols /\ symbol # NoSymbol BY <1>7, MatchIsSymbol
<1>9. R \in Nat \ {0} /\ MaxLength \in Nat /\ MaxLength < R
  BY DeflateHistoryAssumption
<1>10. distance \in Nat BY <1>7, <1>9
<1> QED BY <1>2, <1>3, <1>4, <1>5, <1>6, <1>7, <1>8, <1>9, <1>10

(* Two names of one slot stay so when both advance within the ring.        *)
LEMMA SlotsAdvance ==
  ASSUME NEW x \in 0..2 * R, NEW y \in 0..2 * R, Mask(x) = Mask(y),
         NEW n \in Nat, x + n <= 2 * R, y + n <= 2 * R, n <= R - Mask(x)
  PROVE  Mask(x + n) = Mask(y + n)
<1>1. R \in Nat \ {0} /\ Mask(x) \in 0..R - 1 BY MaskCases, DeflateHistoryAssumption
<1>2. Mask(x) + n < R \/ Mask(x) + n = R BY <1>1
<1>3. CASE Mask(x) + n < R
  <2>1. Mask(x + n) = Mask(x) + n BY <1>3, MaskAdd
  <2>2. Mask(y + n) = Mask(y) + n BY <1>3, MaskAdd
  <2> QED BY <2>1, <2>2
<1>4. CASE Mask(x) + n = R
  <2>1. Mask(x + n) = 0 BY <1>4, MaskAdd
  <2>2. Mask(y + n) = 0 BY <1>4, MaskAdd
  <2> QED BY <2>1, <2>2
<1> QED BY <1>2, <1>3, <1>4

(* A step's effect on the locals of the copy loop, when it copies n bytes:  *)
(* what is left of the match, what came from the ring, the next slot.      *)
LeavesToCopy(n) ==
  length' + RingPart(At', hlen') = length + RingPart(pc, hlen) - n
CopiesFromRing(n) ==
  /\ n = SliceCount(hdist, hlen, avail)
  /\ out' = CopyFromSlice(out, hdist, n)
AdvancesSlot(n) ==
  /\ hdist' \in 0..2 * R
  /\ Mask(hdist') = Mask(hdist + n)
  /\ hdist' + hlen' <= RingLimit(pc)

(* n more bytes of the match were written, and it is not complete.         *)
LEMMA GrowMatch ==
  ASSUME ResumableCopies, pc \in MatchPoints, distance <= start,
         NEW n \in Nat, Extends(out, out', n),
         \A i \in Len(out) + 1..Len(out) + n : out'[i] = out'[i - distance],
         start' = start, symbol' = symbol, distance' = distance,
         At' \in MatchPoints, At' = "match" => length' > 0,
         LeavesToCopy(n), length' \in Nat, hlen' \in Nat
  PROVE  MatchState'
<1>1. TypeOK /\ MatchState BY DEF ResumableCopies
<1>2. /\ At = pc /\ start <= Len(out) /\ distance \in 1..R /\ Len(out) \in Nat
      /\ start \in Nat /\ length \in Nat /\ hlen \in Nat
  BY MatchFacts
<1>3. \A i \in start + 1..Len(out') : out'[i] = out'[i - distance]
  <2>1. \A i \in start + 1..Len(out) : out[i] = out[i - distance]
    BY <1>1, <1>2 DEF MatchState
  <2>2. out \in Seq(Bytes) BY <1>1 DEF TypeOK
  <2>3. /\ Repeats(out, distance, start, Len(out))
        /\ Repeats(out', distance, Len(out), Len(out) + n)
    BY <2>1 DEF Repeats
  <2>4. Repeats(out', distance, start, Len(out')) BY <1>2, <2>2, <2>3, MatchGrows
  <2> QED BY <2>4 DEF Repeats
<1>4. Len(out') = Len(out) + n BY DEF Extends
<1>5. \A k \in Nat :
        k = (Len(out) - start) + length + RingPart(pc, hlen)
        => k = (Len(out') - start') + length' + RingPart(At', hlen')
  <2> DEFINE a == RingPart(pc, hlen)
             b == RingPart(At', hlen')
             u == length'
             v == start'
  <2>1. a \in Nat /\ b \in Nat BY <1>2 DEF RingPart
  <2>2. u + b = length + a - n BY DEF LeavesToCopy
  <2>3. u \in Nat /\ v = start OBVIOUS
  <2> HIDE DEF a, b, u, v
  <2>4. ASSUME NEW k \in Nat, k = (Len(out) - start) + length + a
        PROVE  k = (Len(out') - v) + u + b
    BY <1>2, <1>4, <2>1, <2>2, <2>3, <2>4, SMTT(30)
  <2> QED BY <2>4 DEF a, b, u, v
<1>6. PICK l \in Lengths :
        /\ symbol = MatchSymbol(l, distance)
        /\ l = (Len(out) - start) + length + RingPart(pc, hlen)
  BY <1>1, <1>2 DEF MatchState
<1>7. \E m \in Lengths :
        /\ symbol' = MatchSymbol(m, distance')
        /\ m = (Len(out') - start') + length'
                + RingPart(At', hlen')
  <2>1. l \in Nat BY <1>2, MatchIsSymbol
  <2>2. l = (Len(out') - start') + length' + RingPart(At', hlen')
    BY <1>5, <1>6, <2>1
  <2> QED BY <1>6, <2>2
<1> QED BY <1>2, <1>3, <1>7 DEF MatchState

(* A copy of n bytes from the ring, in decode_huffman_slow.                *)
LEMMA RingCopyFacts ==
  ASSUME ResumableCopies, pc \in RingPoints
  PROVE  LET n == SliceCount(hdist, hlen, avail)
             t == CopyFromSlice(out, hdist, n)
             y == history_index - (distance - since)
         IN  /\ n \in Nat /\ n <= hlen /\ n <= avail /\ n <= R - Mask(hdist)
             /\ distance <= start /\ distance - since <= history_index
             /\ hlen \in 1..distance - since
             /\ Extends(out, t, n)
             /\ \A i \in Len(out) + 1..Len(out) + n : t[i] = t[i - distance]
             /\ y \in 0..2 * R /\ y + n <= 2 * R /\ hdist + n \in 0..2 * R
             /\ Mask(hdist) = Mask(y) /\ Mask(hdist + n) = Mask(y + n)
             /\ hdist + hlen <= RingLimit(pc)
<1> DEFINE n == SliceCount(hdist, hlen, avail)
           t == CopyFromSlice(out, hdist, n)
           y == history_index - (distance - since)
<1>1. pc \in MatchPoints BY DEF RingPoints, MatchPoints
<1>2. TypeOK /\ RingHoldsText /\ MatchState /\ RingCopyState BY DEF ResumableCopies
<1>3. /\ At = pc /\ Unflushed = since /\ out \in Seq(Bytes) /\ Len(out) \in Nat
      /\ start \in Nat /\ start <= Len(out) /\ since \in Nat /\ avail \in Nat
      /\ hlen \in Nat /\ hdist \in 0..2 * R /\ history_index \in 0..2 * R
      /\ R \in Nat \ {0} /\ distance \in 1..R /\ distance \in Nat
  BY <1>1, MatchFacts
<1>4. Mask(hdist) \in 0..R - 1 BY <1>3, MaskCases
<1>5. n \in Nat /\ n <= hlen /\ n <= avail /\ n <= R - Mask(hdist)
  BY <1>3, <1>4 DEF SliceCount, Minimum
<1>6. /\ hlen \in 1..distance - since /\ Mask(hdist) = Mask(y)
      /\ hdist + hlen <= RingLimit(pc)
  BY <1>2, <1>3 DEF RingCopyState
<1>7. distance <= start
  BY <1>1, <1>2, <1>3 DEF MatchState, RingPoints
<1>8. distance <= Len(out) /\ distance > Unflushed BY <1>3, <1>6, <1>7
<1>9. distance - since <= history_index /\ y \in 0..2 * R
  BY <1>2, <1>3, <1>8, DistanceInRing
<1> HIDE DEF n, y
<1>10. /\ Extends(out, t, n)
       /\ \A i \in Len(out) + 1..Len(out) + n : t[i] = t[i - distance]
  <2>1. n \in Nat /\ n <= distance - since /\ n <= R - Mask(hdist) BY <1>3, <1>5, <1>6
  <2>2. Mask(hdist) = Mask(history_index - (distance - since))
    BY <1>6 DEF y
  <2>3. since <= Len(out) /\ HoldsText(history, history_index, out, Len(out) - since)
    BY <1>2, <1>3 DEF RingHoldsText
  <2>4. history \in [0..R - 1 -> Bytes] BY <1>2 DEF TypeOK
  <2>5. distance <= Len(out) /\ distance > since BY <1>3, <1>8
  <2>6. /\ out \in Seq(Bytes) /\ since \in Nat /\ distance \in 1..R
        /\ hdist \in 0..2 * R /\ history_index \in 0..2 * R
    BY <1>3
  <2>7. Continues(out, CopyFromSlice(out, hdist, n), distance, n)
    BY <2>1, <2>2, <2>3, <2>4, <2>5, <2>6, RingCopyRepeats, ZenonT(60)
  <2> QED BY <2>7, Zenon DEF Continues
<1>11. y + n <= 2 * R /\ hdist + n \in 0..2 * R
  <2>1. RingLimit(pc) \in {R, 2 * R} BY DEF RingLimit
  <2> QED BY <1>3, <1>5, <1>6, <1>9, <2>1 DEF y
<1>12. Mask(hdist + n) = Mask(y + n)
  <2>1. hdist + n <= 2 * R BY <1>3, <1>11
  <2> QED BY <1>3, <1>5, <1>6, <1>9, <1>11, <2>1, SlotsAdvance
<1> QED BY <1>5, <1>6, <1>7, <1>9, <1>10, <1>11, <1>12 DEF n, y

(* A yield in the middle of a copy from the ring, with n bytes written:    *)
(* although decode appends to the ring, slot x + n is still the next one.  *)
LEMMA YieldInRingCopy ==
  ASSUME ResumableCopies, pc \in RingPoints,
         NEW n \in Nat, n < hlen, CopiesFromRing(n), AdvancesSlot(n),
         Yield("short_write", pc, out', since + n),
         avail' = avail - n, since' = since + n, hlen' = hlen - n,
         UNCHANGED <<final, length, distance, literal, ghosts>>
  PROVE  ResumableCopies'
<1> DEFINE y == history_index - (distance - since)
<1>1. pc \in MatchPoints /\ pc # "caller" BY DEF RingPoints, MatchPoints
<1>2. TypeOK /\ RingHoldsText BY DEF ResumableCopies
<1>3. /\ At = pc /\ Unflushed = since /\ out \in Seq(Bytes) /\ Len(out) \in Nat
      /\ start \in Nat /\ start <= Len(out) /\ since \in Nat /\ avail \in Nat
      /\ hlen \in Nat /\ hdist \in 0..2 * R /\ history_index \in 0..2 * R
      /\ R \in Nat \ {0} /\ distance \in 1..R /\ distance \in Nat /\ length \in Nat
  BY <1>1, MatchFacts
<1>4. /\ n <= avail /\ distance <= start /\ distance - since <= history_index
      /\ hlen \in 1..distance - since
      /\ Extends(out, out', n)
      /\ \A i \in Len(out) + 1..Len(out) + n : out'[i] = out'[i - distance]
      /\ y \in 0..2 * R /\ y + n <= 2 * R
      /\ Mask(hdist + n) = Mask(y + n)
  BY RingCopyFacts DEF CopiesFromRing
<1>4a. /\ n <= avail /\ distance <= start /\ distance - since <= history_index
       /\ hlen \in 1..distance - since
  BY <1>4
<1> HIDE DEF y
<1>5. /\ history' \in [0..R - 1 -> Bytes] /\ history_index' \in 0..2 * R
      /\ RingHoldsText'
  BY <1>1, <1>2, <1>4, YieldKeepsRing
<1>6. /\ pc' = "caller" /\ resume' = pc /\ status' = "short_write"
      /\ history_index' = AppendedIndex(since + n)
  BY DEF Yield
<1>7. At' = pc /\ Unflushed' = 0 BY <1>6 DEF At, Unflushed
<1>8. UNCHANGED <<start, stream, symbol>> BY DEF ghosts
<1>9. avail' \in Nat /\ since' \in Nat /\ hlen' \in Nat BY <1>3, <1>4a
<1>10. out' \in Seq(Bytes) /\ Len(out') = Len(out) + n BY <1>4 DEF Extends
<1>11. TypeOK'
  <2>1. hdist' \in 0..2 * R BY DEF AdvancesSlot
  <2> QED
    BY <1>2, <1>5, <1>6, <1>8, <1>9, <1>10, <2>1 DEF TypeOK, RingPoints, Resumable
<1>12. MatchState'
  <2>1. LeavesToCopy(n)
    <3>1. RingPart(At', hlen') = hlen' /\ RingPart(pc, hlen) = hlen
      BY <1>7 DEF RingPart
    <3> QED BY <1>3, <3>1 DEF LeavesToCopy
  <2>2. length' \in Nat /\ At' \in MatchPoints /\ At' # "match"
    BY <1>1, <1>3, <1>7 DEF RingPoints
  <2> QED BY <1>1, <1>4, <1>8, <1>9, <2>1, <2>2, GrowMatch
<1>13. RingCopyState'
  <2>1. distance' = distance /\ distance' <= Len(out') /\ distance' > Unflushed'
    BY <1>3, <1>4a, <1>7, <1>10
  <2>2. distance - 0 <= history_index'
    <3>1. distance <= Len(out') /\ distance > Unflushed' BY <2>1
    <3>2. out' \in Seq(Bytes) /\ history_index' \in 0..2 * R BY <1>5, <1>10
    <3>3. /\ Len(out') - 0 < R => history_index' = Len(out') - 0
          /\ Len(out') - 0 >= R => history_index' >= R
      BY <1>5, <1>7 DEF RingHoldsText, HoldsText
    <3> QED BY <3>1, <3>2, <3>3, <1>3, <1>10
  <2>3. since + n \in Nat /\ since + n < distance
        /\ distance - (since + n) <= history_index
    BY <1>3, <1>4a
  <2>4. Mask(history_index' - distance) = Mask(history_index - (distance - (since + n)))
    BY <1>3, <1>6, <2>2, <2>3, IndexAfterAppend
  <2>5. history_index - (distance - (since + n)) = y + n BY <1>3 DEF y
  <2>6. Mask(hdist') = Mask(history_index' - distance)
    BY <1>4, <2>4, <2>5 DEF AdvancesSlot
  <2>7. hlen' \in 1..distance' - Unflushed' BY <1>3, <1>4a, <1>7
  <2>8. history_index' - (distance' - Unflushed') = history_index' - distance
    BY <1>3, <1>5, <1>7
  <2>9. hdist' + hlen' <= RingLimit(At') BY <1>7 DEF AdvancesSlot
  <2> QED BY <2>6, <2>7, <2>8, <2>9 DEF RingCopyState
<1>14. LiteralState' /\ UncheckedCopyIsSafe' /\ NoInternalError'
  BY <1>6, <1>7 DEF LiteralState, UncheckedCopyIsSafe, NoInternalError, RingPoints
<1>15. start' <= Len(out') BY <1>3, <1>8, <1>10
<1>16. IdleState' BY <1>6, <1>7, <1>15 DEF IdleState, RingPoints, IdlePoints
<1> QED BY <1>5, <1>11, <1>12, <1>13, <1>14, <1>16 DEF ResumableCopies

(* The copy from the ring is complete.                                     *)
LEMMA RingPartDoneStep ==
  ASSUME ResumableCopies, pc \in RingPoints,
         NEW n \in Nat, n = hlen, CopiesFromRing(n), RingPartDone(out'),
         avail' = avail - n, since' = since + n, hlen' = hlen - n,
         UNCHANGED <<final, length, distance, literal, hdist>>
  PROVE  ResumableCopies'
<1>1. pc \in MatchPoints /\ pc # "caller" BY DEF RingPoints, MatchPoints
<1>2. TypeOK /\ RingHoldsText BY DEF ResumableCopies
<1>3. /\ out \in Seq(Bytes) /\ Len(out) \in Nat
      /\ start \in Nat /\ start <= Len(out) /\ since \in Nat /\ avail \in Nat
      /\ hlen \in Nat /\ length \in Nat /\ symbol \in Symbols /\ stream \in Seq(Symbols)
      /\ status # "bad_distance"
  BY <1>1, MatchFacts, ZenonT(60)
<1>4. /\ n <= avail /\ distance <= start
      /\ Extends(out, out', n)
      /\ \A i \in Len(out) + 1..Len(out) + n : out'[i] = out'[i - distance]
  BY RingCopyFacts DEF CopiesFromRing
<1>5. avail' \in Nat /\ since' \in Nat /\ hlen' \in Nat BY <1>3, <1>4
<1>6. out' \in Seq(Bytes) /\ Len(out') = Len(out) + n BY <1>4 DEF Extends
<1>7. Len(out') \in Nat BY <1>3, <1>6
<1>8. /\ pc' \in {"slow", "dst"}
      /\ UNCHANGED <<resume, status, ring, history, history_index>>
  BY DEF RingPartDone, GoTo, ring
<1>9. RingHoldsText' BY <1>1, <1>2, <1>4, <1>8, WriteKeepsRing
<1>10. NoInternalError' BY <1>8 DEF ResumableCopies, NoInternalError
<1>11. CASE length = 0
  <2>1. /\ pc' = "slow" /\ start' = Len(out') /\ symbol' = NoSymbol
        /\ stream' = Append(stream, symbol)
    BY <1>11 DEF RingPartDone, GoTo, Complete
  <2>2. stream' \in Seq(Symbols) BY <1>3, <2>1
  <2>3. TypeOK'
    BY <1>2, <1>5, <1>6, <1>7, <1>8, <2>1, <2>2 DEF TypeOK, Running, Resumable
  <2> QED BY <1>3, <1>8, <1>9, <1>10, <2>1, <2>3, CompleteMoves DEF At, IdlePoints
<1>12. CASE length # 0
  <2>1. pc' = "dst" /\ UNCHANGED <<start, stream, symbol>>
    BY <1>12 DEF RingPartDone, GoTo, ghosts
  <2>2. At' = "dst" BY <2>1 DEF At
  <2>3. TypeOK' BY <1>2, <1>5, <1>6, <1>8, <2>1 DEF TypeOK, Running, Resumable
  <2>4. MatchState'
    <3>1. LeavesToCopy(n)
      <4>1. RingPart(At', hlen') = 0 /\ RingPart(pc, hlen) = hlen
        BY <2>2 DEF RingPart, RingPoints
      <4> QED BY <1>3, <4>1 DEF LeavesToCopy
    <3>2. length' \in Nat /\ At' \in MatchPoints /\ At' # "match"
      BY <1>3, <2>2 DEF MatchPoints
    <3> QED BY <1>1, <1>4, <1>5, <2>1, <3>1, <3>2, GrowMatch
  <2>5. RingCopyState' /\ LiteralState' /\ UncheckedCopyIsSafe'
    BY <2>1, <2>2 DEF RingCopyState, LiteralState, UncheckedCopyIsSafe, RingPoints
  <2>6. start' <= Len(out') BY <1>3, <1>6, <2>1
  <2>7. IdleState' BY <1>3, <1>8, <2>2, <2>6 DEF IdleState, IdlePoints
  <2> QED BY <1>9, <1>10, <2>3, <2>4, <2>5, <2>7 DEF ResumableCopies
<1> QED BY <1>11, <1>12

LEMMA CopyToRingEndStep ==
  ASSUME ResumableCopies, CopyToRingEnd
  PROVE  ResumableCopies'
<1> DEFINE n == SliceCount(hdist, hlen, avail)
           t == CopyFromSlice(out, hdist, n)
           y == history_index - (distance - since)
<1>1. /\ pc = "hist_end" /\ out' = t /\ avail' = avail - n /\ since' = since + n
      /\ UNCHANGED <<final, length, distance, literal>>
      /\ hlen' = hlen - n
      /\ hdist' = IF n > 0 /\ n < hlen THEN Mask(hdist + n) ELSE hdist
      /\ \/ n = hlen /\ RingPartDone(t)
         \/ /\ n < hlen /\ n > 0 /\ hdist' = 0 /\ GoTo("hist_start")
            /\ UNCHANGED ghosts
         \/ /\ n < hlen /\ ~(n > 0 /\ hdist' = 0)
            /\ Yield("short_write", "hist_end", t, since + n)
            /\ UNCHANGED ghosts
  BY DEF CopyToRingEnd, Write
<1>2. pc \in RingPoints /\ pc \in MatchPoints /\ pc # "caller"
  BY <1>1 DEF RingPoints, MatchPoints
<1>3. /\ n \in Nat /\ n <= hlen /\ n <= avail /\ n <= R - Mask(hdist)
      /\ distance <= start /\ hlen \in 1..distance - since
      /\ Extends(out, t, n)
      /\ \A i \in Len(out) + 1..Len(out) + n : t[i] = t[i - distance]
      /\ y \in 0..2 * R /\ y + n <= 2 * R /\ hdist + n \in 0..2 * R
      /\ Mask(hdist + n) = Mask(y + n) /\ hdist + hlen <= RingLimit(pc)
  BY <1>2, RingCopyFacts
<1>4. /\ out \in Seq(Bytes) /\ Len(out) \in Nat
      /\ start \in Nat /\ start <= Len(out) /\ since \in Nat /\ avail \in Nat
      /\ hlen \in Nat /\ hdist \in 0..2 * R /\ history_index \in 0..2 * R
      /\ length \in Nat /\ R \in Nat \ {0} /\ distance \in 1..R /\ MaxLength < R
      /\ status # "bad_distance" /\ MaxLength \in Nat
      /\ since <= Len(out) /\ At = pc /\ Unflushed = since
  BY <1>2, MatchFacts
<1>5. CopiesFromRing(n) BY <1>1 DEF CopiesFromRing
<1> HIDE DEF n, t, y
<1>6. RingLimit(pc) = 2 * R BY <1>1 DEF RingLimit
<1>6a. Mask(hdist + n) \in 0..R - 1 BY <1>3, MaskCases
<1>6b. hlen <= R BY <1>3, <1>4
<1>7. CASE n = hlen /\ RingPartDone(t)
  <2>1. UNCHANGED hdist BY <1>1, <1>3, <1>4, <1>7
  <2> QED BY <1>1, <1>2, <1>3, <1>5, <1>7, <2>1, RingPartDoneStep
<1>8. CASE /\ n < hlen /\ n > 0 /\ hdist' = 0 /\ GoTo("hist_start")
           /\ UNCHANGED ghosts
  <2>1. /\ pc' = "hist_start" /\ UNCHANGED <<resume, status, ring, history, history_index>>
        /\ UNCHANGED <<start, stream, symbol>>
    BY <1>8 DEF GoTo, ring, ghosts
  <2>2. At' = "hist_start" /\ Unflushed' = since + n
    BY <1>1, <2>1 DEF At, Unflushed
  <2>3. TypeOK /\ RingHoldsText BY DEF ResumableCopies
  <2>4. avail' \in Nat /\ since' \in Nat /\ hlen' \in Nat /\ hdist' \in 0..2 * R
        /\ out' \in Seq(Bytes) /\ Len(out') = Len(out) + n
    BY <1>1, <1>3, <1>4, <1>8 DEF Extends
  <2>5. TypeOK' BY <1>1, <2>1, <2>3, <2>4 DEF TypeOK, Running, Resumable
  <2>6. RingHoldsText' BY <1>1, <1>2, <1>3, <2>1, <2>3, WriteKeepsRing
  <2>7. MatchState'
    <3>1. LeavesToCopy(n)
      <4>1. RingPart(At', hlen') = hlen' /\ RingPart(pc, hlen) = hlen
        BY <1>2, <2>2 DEF RingPart, RingPoints
      <4> QED BY <1>1, <1>3, <1>4, <4>1 DEF LeavesToCopy
    <3>2. length' \in Nat /\ At' \in MatchPoints /\ At' # "match"
      BY <1>1, <1>4, <2>2 DEF MatchPoints
    <3> QED BY <1>1, <1>2, <1>3, <2>1, <2>4, <3>1, <3>2, GrowMatch
  <2>8. RingCopyState'
    <3>1. Mask(hdist + n) = 0 BY <1>1, <1>8
    <3>2. Mask(hdist') = 0 BY <1>8, <1>4, MaskCases
    <3>3. history_index' - (distance' - Unflushed') = y + n
      BY <1>1, <1>3, <1>4, <2>1, <2>2 DEF y
    <3>4. Mask(hdist') = Mask(history_index' - (distance' - Unflushed'))
      BY <1>3, <3>1, <3>2, <3>3
    <3>5. hlen' \in 1..distance' - Unflushed'
      BY <1>1, <1>3, <1>4, <1>8, <2>2
    <3>6. hdist' + hlen' <= R BY <1>1, <1>3, <1>4, <1>6b, <1>8
    <3> QED BY <2>2, <3>4, <3>5, <3>6 DEF RingCopyState, RingLimit
  <2>9. LiteralState' /\ UncheckedCopyIsSafe' /\ NoInternalError'
    BY <2>1, <2>2
    DEF ResumableCopies, LiteralState, UncheckedCopyIsSafe, NoInternalError
  <2>10. start' <= Len(out') BY <1>3, <1>4, <2>1, <2>4
  <2>11. IdleState' BY <1>4, <2>1, <2>2, <2>10 DEF IdleState, IdlePoints
  <2> QED BY <2>5, <2>6, <2>7, <2>8, <2>9, <2>11 DEF ResumableCopies
<1>9. CASE /\ n < hlen /\ ~(n > 0 /\ hdist' = 0)
           /\ Yield("short_write", "hist_end", t, since + n)
           /\ UNCHANGED ghosts
  <2>1. AdvancesSlot(n)
    <3>1. CASE n > 0
      <4>1. hdist' = Mask(hdist + n) BY <1>1, <1>9, <3>1
      <4>2. hdist' \in 0..R - 1 BY <4>1, <1>6a
      <4>3. Mask(hdist') = hdist' BY <4>2, <1>4, MaskCases
      <4>4. hdist' + hlen' <= 2 * R BY <4>2, <1>1, <1>3, <1>4, <1>6b, SMTT(40)
      <4> QED BY <4>1, <4>2, <4>3, <4>4, <1>4, <1>6 DEF AdvancesSlot
    <3>2. CASE n = 0
      <4>1. hdist' = hdist /\ hdist + n = hdist /\ hlen' = hlen
        BY <1>1, <1>4, <3>2
      <4> QED BY <4>1, <1>3, <1>4 DEF AdvancesSlot
    <3> QED BY <1>3, <3>1, <3>2
  <2> QED BY <1>1, <1>2, <1>3, <1>5, <1>9, <2>1, YieldInRingCopy
<1> QED BY <1>1, <1>7, <1>8, <1>9

LEMMA CopyFromRingStartStep ==
  ASSUME ResumableCopies, CopyFromRingStart
  PROVE  ResumableCopies'
<1> DEFINE n == SliceCount(hdist, hlen, avail)
           t == CopyFromSlice(out, hdist, n)
<1>1. /\ pc = "hist_start" /\ out' = t /\ avail' = avail - n /\ since' = since + n
      /\ UNCHANGED <<final, length, distance, literal>>
      /\ hlen' = hlen - n
      /\ \/ n = hlen /\ RingPartDone(t) /\ UNCHANGED hdist
         \/ /\ n # hlen /\ hdist' = hdist + n
            /\ Yield("short_write", "hist_start", t, since + n)
            /\ UNCHANGED ghosts
  BY DEF CopyFromRingStart, Write
<1>2. pc \in RingPoints /\ pc \in MatchPoints BY <1>1 DEF RingPoints, MatchPoints
<1>3. /\ n \in Nat /\ n <= hlen /\ n <= avail
      /\ hdist + n \in 0..2 * R /\ hdist + hlen <= RingLimit(pc)
  BY <1>2, RingCopyFacts
<1>4. hlen \in Nat /\ hdist \in 0..2 * R /\ R \in Nat BY <1>2, MatchFacts
<1>5. CopiesFromRing(n) BY <1>1 DEF CopiesFromRing
<1> HIDE DEF n, t
<1>6. CASE n = hlen /\ RingPartDone(t) /\ UNCHANGED hdist
  BY <1>1, <1>2, <1>3, <1>5, <1>6, RingPartDoneStep
<1>7. CASE /\ n # hlen /\ hdist' = hdist + n
           /\ Yield("short_write", "hist_start", t, since + n)
           /\ UNCHANGED ghosts
  <2>1. hdist' + hlen' = hdist + hlen BY <1>1, <1>3, <1>4, <1>7
  <2>2. AdvancesSlot(n) BY <1>3, <1>7, <2>1 DEF AdvancesSlot
  <2>3. n < hlen BY <1>3, <1>4, <1>7
  <2> QED BY <1>1, <1>2, <1>3, <1>5, <1>7, <2>2, <2>3, YieldInRingCopy
<1> QED BY <1>1, <1>6, <1>7

LEMMA CopyFromBufferStep ==
  ASSUME ResumableCopies, CopyFromBuffer
  PROVE  ResumableCopies'
<1> DEFINE n == IF since < distance THEN 0 ELSE Minimum(length, avail)
           t == CopyFromHistory(out, distance, n)
<1>1. /\ pc = "dst" /\ out' = t /\ avail' = avail - n /\ since' = since + n
      /\ UNCHANGED <<final, distance, hlen, hdist, literal>>
      /\ length' = length - n
      /\ \/ n = length /\ GoTo("slow") /\ Complete(symbol, t)
         \/ /\ n # length
            /\ Yield("short_write", "match", t, since + n)
            /\ UNCHANGED ghosts
  BY DEF CopyFromBuffer, Write
<1>2. pc \in MatchPoints /\ pc # "caller" BY <1>1 DEF MatchPoints
<1>3. /\ out \in Seq(Bytes) /\ Len(out) \in Nat
      /\ start \in Nat /\ start <= Len(out) /\ since \in Nat /\ avail \in Nat
      /\ hlen \in Nat /\ length \in Nat /\ R \in Nat \ {0} /\ distance \in 1..R
      /\ distance \in Nat /\ status # "bad_distance" /\ At = pc
      /\ symbol \in Symbols /\ stream \in Seq(Symbols)
  BY <1>2, MatchFacts
<1>4. n \in Nat /\ n <= length /\ n <= avail BY <1>3 DEF Minimum
<1>5. TypeOK /\ RingHoldsText /\ MatchState BY DEF ResumableCopies
<1>6. distance <= start BY <1>1, <1>3, <1>5 DEF MatchState, MatchPoints
<1>7. distance \in 1..Len(out) BY <1>3, <1>6
<1> HIDE DEF n, t
<1>8. /\ Extends(out, t, n)
      /\ \A i \in Len(out) + 1..Len(out) + n : t[i] = t[i - distance]
  BY <1>3, <1>4, <1>7, HistoryCopyExtends DEF t
<1>9. avail' \in Nat /\ since' \in Nat /\ length' \in Nat BY <1>1, <1>3, <1>4
<1>10. out' \in Seq(Bytes) /\ Len(out') = Len(out) + n /\ Len(out') \in Nat
  BY <1>1, <1>3, <1>4, <1>8 DEF Extends
<1>11. CASE n = length /\ GoTo("slow") /\ Complete(symbol, t)
  <2>1. /\ pc' = "slow" /\ start' = Len(out') /\ symbol' = NoSymbol
        /\ stream' = Append(stream, symbol)
        /\ UNCHANGED <<resume, status, ring, history, history_index>>
    BY <1>1, <1>11 DEF GoTo, Complete, ring
  <2>2. stream' \in Seq(Symbols) BY <1>3, <2>1
  <2>3. TypeOK'
    BY <1>1, <1>5, <1>9, <1>10, <2>1, <2>2 DEF TypeOK, Running, Resumable
  <2>4. RingHoldsText' BY <1>1, <1>2, <1>4, <1>5, <1>8, <2>1, WriteKeepsRing
  <2>5. NoInternalError' BY <2>1 DEF ResumableCopies, NoInternalError
  <2> QED BY <1>3, <2>1, <2>3, <2>4, <2>5, CompleteMoves DEF At, IdlePoints
<1>12. CASE /\ n # length
            /\ Yield("short_write", "match", t, since + n)
            /\ UNCHANGED ghosts
  <2>1. /\ pc' = "caller" /\ resume' = "match" /\ status' = "short_write"
        /\ UNCHANGED <<start, stream, symbol>>
    BY <1>12 DEF Yield, ghosts
  <2>2. /\ history' \in [0..R - 1 -> Bytes] /\ history_index' \in 0..2 * R
        /\ RingHoldsText'
    BY <1>1, <1>2, <1>4, <1>5, <1>8, <1>12, YieldKeepsRing
  <2>3. TypeOK'
    BY <1>1, <1>5, <1>9, <1>10, <2>1, <2>2 DEF TypeOK, Resumable
  <2>4. At' = "match" BY <2>1 DEF At
  <2>5. MatchState'
    <3>1. LeavesToCopy(n)
      <4>1. RingPart(At', hlen') = 0 /\ RingPart(pc, hlen) = 0
        BY <1>1, <2>4 DEF RingPart, RingPoints
      <4> QED BY <1>1, <1>3, <1>4, <4>1 DEF LeavesToCopy
    <3>2. At' \in MatchPoints /\ length' > 0 /\ hlen' \in Nat
      BY <1>1, <1>3, <1>4, <1>12, <2>4 DEF MatchPoints
    <3> QED BY <1>1, <1>2, <1>4, <1>6, <1>8, <1>9, <2>1, <3>1, <3>2, GrowMatch
  <2>6. RingCopyState' /\ LiteralState' /\ UncheckedCopyIsSafe' /\ NoInternalError'
    BY <2>1, <2>4
    DEF RingCopyState, LiteralState, UncheckedCopyIsSafe, NoInternalError, RingPoints
  <2>7. start' <= Len(out') BY <1>3, <1>4, <1>10, <2>1
  <2>8. IdleState' BY <2>1, <2>4, <2>7 DEF IdleState, IdlePoints
  <2> QED BY <2>2, <2>3, <2>5, <2>6, <2>8 DEF ResumableCopies
<1> QED BY <1>1, <1>11, <1>12

(* The check of decode_huffman_*: a distance the ring has room for before  *)
(* its index does not reach back beyond the start of the text.             *)
LEMMA RingReachesBack ==
  ASSUME TypeOK, RingHoldsText, NEW d \in 1..R, d > Unflushed,
         history_index >= d - Unflushed, Unflushed \in Nat
  PROVE  d <= Len(out)
<1>1. out \in Seq(Bytes) /\ history_index \in 0..2 * R BY DEF TypeOK
<1>2. Len(out) \in Nat /\ R \in Nat BY <1>1, LenProperties, DeflateHistoryAssumption
<1>3. /\ Unflushed <= Len(out)
      /\ Len(out) - Unflushed < R => history_index = Len(out) - Unflushed
  BY DEF RingHoldsText, HoldsText
<1> QED BY <1>1, <1>2, <1>3

LEMMA SplitMatchStep ==
  ASSUME ResumableCopies, SplitMatch
  PROVE  ResumableCopies'
<1> DEFINE hd == distance - since
           hn == Minimum(length, hd)
<1>1. /\ pc = "match"
      /\ UNCHANGED <<avail, since, out, final, distance, literal>>
      /\ \/ /\ distance <= since /\ GoTo("dst")
            /\ UNCHANGED <<length, hlen, hdist, start, stream, symbol>>
         \/ /\ distance > since /\ hlen' = hn /\ length' = length - hn
            /\ history_index < hd /\ Return("bad_distance")
            /\ Complete(symbol, out) /\ hdist' = hd
         \/ /\ distance > since /\ hlen' = hn /\ length' = length - hn
            /\ ~(history_index < hd) /\ GoTo("hist_end")
            /\ hdist' = history_index - hd /\ UNCHANGED <<start, stream, symbol>>
  BY DEF SplitMatch, buffer, ghosts
<1>2. pc \in MatchPoints /\ pc # "caller" BY <1>1 DEF MatchPoints
<1>3. /\ out \in Seq(Bytes) /\ Len(out) \in Nat
      /\ start \in Nat /\ start <= Len(out) /\ since \in Nat /\ avail \in Nat
      /\ hlen \in Nat /\ length \in Nat /\ R \in Nat \ {0} /\ distance \in 1..R
      /\ distance \in Nat /\ status # "bad_distance" /\ At = pc
      /\ symbol \in Symbols /\ stream \in Seq(Symbols) /\ Unflushed = since
      /\ history_index \in 0..2 * R /\ since <= Len(out)
  BY <1>2, MatchFacts
<1>4. TypeOK /\ RingHoldsText /\ MatchState BY DEF ResumableCopies
<1>5. length > 0 /\ (distance <= start \/ Len(out) = start)
  BY <1>1, <1>2, <1>3, <1>4 DEF MatchState
<1>6. Extends(out, out', 0) BY <1>1, <1>4, NothingWritten
<1>7. \A i \in Len(out) + 1..Len(out) + 0 : out'[i] = out'[i - distance] BY <1>3
<1>8. since' = since + 0 /\ Len(out') = Len(out) BY <1>1, <1>3
<1>9. CASE /\ distance <= since /\ GoTo("dst")
           /\ UNCHANGED <<length, hlen, hdist, start, stream, symbol>>
  <2>1. pc' = "dst" /\ UNCHANGED <<resume, status, ring, history, history_index>>
    BY <1>9 DEF GoTo, ring
  <2>2. At' = "dst" BY <2>1 DEF At
  <2>3. TypeOK' BY <1>1, <1>4, <1>9, <2>1 DEF TypeOK, Running, Resumable
  <2>4. RingHoldsText' BY <1>2, <1>4, <1>6, <1>8, <2>1, WriteKeepsRing
  <2>5. MatchState'
    <3>1. LeavesToCopy(0)
      <4>1. RingPart(At', hlen') = 0 /\ RingPart(pc, hlen) = 0
        BY <1>1, <2>2 DEF RingPart, RingPoints
      <4> QED BY <1>3, <1>9, <4>1 DEF LeavesToCopy
    <3>2. At' \in MatchPoints /\ At' # "match" /\ hlen' \in Nat /\ length' \in Nat
      BY <1>3, <1>9, <2>2 DEF MatchPoints
    <3>3. distance <= start BY <1>3, <1>5, <1>9
    <3> QED BY <1>1, <1>2, <1>6, <1>7, <1>9, <3>1, <3>2, <3>3, GrowMatch
  <2>6. RingCopyState' /\ LiteralState' /\ UncheckedCopyIsSafe' /\ NoInternalError'
    BY <2>1, <2>2 DEF ResumableCopies, RingCopyState, LiteralState,
                      UncheckedCopyIsSafe, NoInternalError, RingPoints
  <2>7. IdleState' BY <1>3, <1>8, <1>9, <2>1, <2>2 DEF IdleState, IdlePoints
  <2> QED BY <2>3, <2>4, <2>5, <2>6, <2>7 DEF ResumableCopies
<1>10. ASSUME distance > since, hlen' = hn, length' = length - hn
       PROVE  /\ hd \in 1..R /\ hn \in 1..hd /\ hn <= length
              /\ hlen' \in Nat /\ length' \in Nat /\ hlen' = hn
  BY <1>3, <1>5, <1>10 DEF Minimum
<1> HIDE DEF hn
<1>11. CASE /\ distance > since /\ hlen' = hn /\ length' = length - hn
            /\ history_index < hd /\ Return("bad_distance")
            /\ Complete(symbol, out) /\ hdist' = hd
  <2>1. /\ pc' = "returned" /\ status' = "bad_distance"
        /\ UNCHANGED <<resume, ring, history, history_index>>
        /\ start' = Len(out') /\ symbol' = NoSymbol /\ stream' = Append(stream, symbol)
    BY <1>1, <1>11 DEF Return, Complete, ring
  <2>2. stream' \in Seq(Symbols) BY <1>3, <2>1
  <2>3. hlen' \in Nat /\ length' \in Nat /\ hdist' \in 0..2 * R /\ start' \in Nat
    BY <1>3, <1>8, <1>10, <1>11, <2>1
  <2>4. TypeOK'
    BY <1>1, <1>4, <2>1, <2>2, <2>3 DEF TypeOK, Running, Resumable
  <2>5. RingHoldsText' BY <1>2, <1>4, <1>6, <1>8, <2>1, WriteKeepsRing
  <2>6. NoInternalError' BY <2>1 DEF NoInternalError
  <2> QED BY <2>1, <2>4, <2>5, <2>6, CompleteMoves DEF At
<1>12. CASE /\ distance > since /\ hlen' = hn /\ length' = length - hn
            /\ ~(history_index < hd) /\ GoTo("hist_end")
            /\ hdist' = history_index - hd /\ UNCHANGED <<start, stream, symbol>>
  <2>1. pc' = "hist_end" /\ UNCHANGED <<resume, status, ring, history, history_index>>
    BY <1>12 DEF GoTo, ring
  <2>2. At' = "hist_end" /\ Unflushed' = since BY <1>1, <2>1 DEF At, Unflushed
  <2>3. hd \in 1..R /\ hn \in 1..hd /\ hn <= length /\ hlen' \in Nat /\ length' \in Nat
    BY <1>10, <1>12
  <2>4. hdist' \in 0..2 * R /\ hdist' + hlen' <= 2 * R
    BY <1>3, <1>12, <2>3
  <2>5. TypeOK' BY <1>1, <1>4, <1>12, <2>1, <2>3, <2>4 DEF TypeOK, Running, Resumable
  <2>6. RingHoldsText' BY <1>2, <1>4, <1>6, <1>8, <2>1, WriteKeepsRing
  <2>7. distance <= start
    <3>1. history_index >= distance - since BY <1>3, <1>12
    <3>2. distance <= Len(out) BY <1>3, <1>4, <1>12, <3>1, RingReachesBack
    <3> QED BY <1>5, <3>2
  <2>8. MatchState'
    <3>1. LeavesToCopy(0)
      <4>1. RingPart(At', hlen') = hlen' /\ RingPart(pc, hlen) = 0
        BY <1>1, <2>2 DEF RingPart, RingPoints
      <4> QED BY <1>3, <1>12, <2>3, <4>1 DEF LeavesToCopy
    <3>2. At' \in MatchPoints /\ At' # "match" BY <2>2 DEF MatchPoints
    <3> QED BY <1>1, <1>2, <1>6, <1>7, <1>12, <2>3, <2>7, <3>1, <3>2, GrowMatch
  <2>9. RingCopyState'
    <3>1. hdist' = history_index' - (distance' - Unflushed')
      BY <1>1, <1>12, <2>1, <2>2
    <3>2. hlen' \in 1..distance' - Unflushed' BY <1>1, <1>12, <2>2, <2>3
    <3> QED BY <2>2, <2>4, <3>1, <3>2 DEF RingCopyState, RingLimit
  <2>10. LiteralState' /\ UncheckedCopyIsSafe' /\ NoInternalError'
    BY <2>1, <2>2
    DEF ResumableCopies, LiteralState, UncheckedCopyIsSafe, NoInternalError
  <2>11. IdleState' BY <1>3, <1>8, <1>12, <2>1, <2>2 DEF IdleState, IdlePoints
  <2> QED BY <2>5, <2>6, <2>8, <2>9, <2>10, <2>11 DEF ResumableCopies
<1> QED BY <1>1, <1>9, <1>11, <1>12 DEF hn

LEMMA FastCopyStep ==
  ASSUME ResumableCopies, FastCopy
  PROVE  ResumableCopies'
<1> DEFINE t == CopyFromHistory(out, distance, length)
<1>1. /\ pc = "fast_dst" /\ out' = t /\ avail' = avail - length
      /\ since' = since + length /\ length' = 0 /\ pc' = "fast"
      /\ symbol' = NoSymbol /\ stream' = Append(stream, symbol) /\ start' = Len(out')
      /\ UNCHANGED <<final, distance, hlen, hdist, literal>>
      /\ UNCHANGED <<resume, status, ring, history, history_index>>
  BY DEF FastCopy, Write, Complete, GoTo, ring
<1>2. pc \in MatchPoints /\ pc # "caller" BY <1>1 DEF MatchPoints
<1>3. /\ out \in Seq(Bytes) /\ Len(out) \in Nat
      /\ start \in Nat /\ start <= Len(out) /\ since \in Nat /\ avail \in Nat
      /\ length \in Nat /\ R \in Nat \ {0} /\ distance \in 1..R
      /\ distance \in Nat /\ status # "bad_distance"
      /\ symbol \in Symbols /\ stream \in Seq(Symbols) /\ since <= Len(out)
  BY <1>2, MatchFacts
<1>4. TypeOK /\ RingHoldsText BY DEF ResumableCopies
<1>5. distance <= since /\ length <= avail
  BY <1>1 DEF ResumableCopies, UncheckedCopyIsSafe
<1>6. distance \in 1..Len(out) BY <1>3, <1>5
<1>7. Extends(out, t, length) BY <1>3, <1>6, HistoryCopyExtends
<1> HIDE DEF t
<1>8. out' \in Seq(Bytes) /\ Len(out') = Len(out) + length BY <1>1, <1>7 DEF Extends
<1>9. avail' \in Nat /\ since' \in Nat /\ start' \in Nat BY <1>1, <1>3, <1>5, <1>8
<1>10. stream' \in Seq(Symbols) BY <1>1, <1>3
<1>11. TypeOK'
  BY <1>1, <1>4, <1>8, <1>9, <1>10 DEF TypeOK, Running, Resumable
<1>12. RingHoldsText' BY <1>1, <1>2, <1>3, <1>4, <1>7, WriteKeepsRing
<1>13. NoInternalError' BY <1>1 DEF ResumableCopies, NoInternalError
<1> QED BY <1>1, <1>3, <1>11, <1>12, <1>13, CompleteMoves DEF At, IdlePoints

LEMMA SliceCountBounds ==
  ASSUME NEW x \in 0..2 * R, NEW n \in Nat, NEW space \in Nat, n <= space
  PROVE  LET c == SliceCount(x, n, space)
         IN  /\ c \in Nat /\ c <= n /\ c <= R - Mask(x)
             /\ c = n \/ c = R - Mask(x)
<1>1. Mask(x) \in 0..R - 1 BY MaskCases
<1>2. R - Mask(x) \in Nat BY <1>1, DeflateHistoryAssumption
<1> QED BY <1>2 DEF SliceCount, Minimum

(* The one or two copies from the ring of decode_huffman_fast.             *)
LEMMA FastRingCopy ==
  ASSUME ResumableCopies, pc = "fast", avail >= MaxLength,
         NEW l \in Lengths, NEW d \in 1..R, d > since, history_index >= d - since
  PROVE  LET hd == d - since
             hn == Minimum(l, hd)
             n1 == SliceCount(history_index - hd, hn, avail)
             t1 == CopyFromSlice(out, history_index - hd, n1)
             n2 == SliceCount(0, hn - n1, avail - n1)
             t2 == CopyFromSlice(t1, 0, n2)
         IN  /\ n1 + n2 = hn /\ hn \in 1..hd /\ hn <= l /\ l <= avail
             /\ d <= Len(out)
             /\ Extends(out, t2, hn) /\ Repeats(t2, d, Len(out), Len(out) + hn)
<1> DEFINE hd == d - since
           x  == history_index - hd
           hn == Minimum(l, hd)
           n1 == SliceCount(x, hn, avail)
           t1 == CopyFromSlice(out, x, n1)
           n2 == SliceCount(0, hn - n1, avail - n1)
           t2 == CopyFromSlice(t1, 0, n2)
<1>1. TypeOK /\ RingHoldsText BY DEF ResumableCopies
<1>2. /\ out \in Seq(Bytes) /\ since \in Nat /\ avail \in Nat
      /\ history \in [0..R - 1 -> Bytes] /\ history_index \in 0..2 * R
  BY <1>1 DEF TypeOK
<1>3. Unflushed = since BY DEF Unflushed
<1>4. since <= Len(out) /\ HoldsText(history, history_index, out, Len(out) - since)
  BY <1>1, <1>3 DEF RingHoldsText
<1>5. Len(out) \in Nat BY <1>2, LenProperties
<1>6. R \in Nat \ {0} /\ MaxLength \in Nat /\ MaxLength < R BY DeflateHistoryAssumption
<1>7. d <= Len(out) BY <1>1, <1>2, <1>3, RingReachesBack
<1>8. l \in 1..MaxLength /\ l \in Nat /\ d \in Nat BY MatchIsSymbol
<1>9. hd \in 1..R /\ hn \in 1..hd /\ hn <= l /\ l <= avail /\ l < R
  BY <1>2, <1>6, <1>8 DEF Minimum
<1>10. x \in 0..2 * R BY <1>2, <1>6, <1>9
<1>11. Mask(x) \in 0..R - 1 /\ Mask(0) = 0 BY <1>6, <1>10, MaskCases
<1> HIDE DEF hn, x
<1>12. /\ n1 \in Nat /\ n1 <= hn /\ n1 <= R - Mask(x) /\ n1 <= avail
       /\ n1 = hn \/ n1 = R - Mask(x)
  <2>1. hn \in Nat /\ hn <= avail BY <1>2, <1>8, <1>9
  <2>2. n1 \in Nat /\ n1 <= hn /\ n1 <= R - Mask(x) /\ (n1 = hn \/ n1 = R - Mask(x))
    BY <1>2, <1>10, <2>1, SliceCountBounds
  <2> QED BY <1>2, <2>1, <2>2
<1> HIDE DEF n1
<1>13. n2 = hn - n1 /\ n2 \in Nat /\ n2 <= R
  <2>1. /\ hn - n1 \in Nat /\ avail - n1 \in Nat /\ hn - n1 <= avail - n1
        /\ hn - n1 < R /\ 0 \in 0..2 * R
    BY <1>2, <1>6, <1>8, <1>9, <1>12
  <2>2. n2 = hn - n1 \/ n2 = R - Mask(0) BY <2>1, SliceCountBounds
  <2>3. n2 <= hn - n1 BY <2>1, SliceCountBounds
  <2> HIDE DEF n2
  <2> QED BY <2>1, <2>2, <2>3, <1>6, <1>11
<1> HIDE DEF n2, hd
<1>14. /\ Extends(out, t1, n1) /\ Repeats(t1, d, Len(out), Len(out) + n1)
  <2>1. n1 <= d - since BY <1>9, <1>12 DEF hd
  <2>2. Mask(x) = Mask(history_index - (d - since)) BY DEF x, hd
  <2>3. n1 \in Nat /\ n1 <= R - Mask(x) /\ x \in 0..2 * R BY <1>10, <1>12
  <2>4. Continues(out, CopyFromSlice(out, x, n1), d, n1)
    BY <1>2, <1>4, <1>7, <2>1, <2>2, <2>3, RingCopyRepeats, ZenonT(60)
  <2> QED BY <2>4, Zenon DEF Continues, Repeats
<1> HIDE DEF t1
<1>15. t1 \in Seq(Bytes) /\ Len(t1) = Len(out) + n1 BY <1>14 DEF Extends
<1>16. Extends(t1, t2, n2) /\ Repeats(t2, d, Len(t1), Len(t1) + n2)
  <2>1. CASE n2 = 0
    <3>1. 0 \in 0..2 * R BY <1>6
    <3>2. n2 <= R - Mask(0) BY <1>6, <1>11, <1>13
    <3>3. Extends(t1, t2, n2)
      BY <1>2, <1>13, <1>15, <3>1, <3>2, SliceExtends
    <3> QED BY <2>1, <3>3, <1>5, <1>12, <1>15 DEF Repeats
  <2>2. CASE n2 # 0
    <3> DEFINE v == since + n1
    <3>1. v \in Nat /\ v <= Len(t1) /\ v < d /\ d <= Len(t1) /\ n2 <= d - v
      BY <1>2, <1>4, <1>5, <1>7, <1>8, <1>9, <1>12, <1>13, <1>15, <2>2, SMTT(30) DEF hd
    <3>2. Len(t1) - v = Len(out) - since BY <1>2, <1>5, <1>12, <1>15
    <3>3. Len(out) - since \in 0..Len(out) BY <1>2, <1>4, <1>5
    <3>4. HoldsText(history, history_index, t1, Len(t1) - v)
      BY <1>2, <1>4, <1>12, <1>14, <3>2, <3>3, ExtendedText
    <3>5. n1 = R - Mask(x) BY <1>12, <1>13, <2>2
    <3>6. x + n1 <= 2 * R
      BY <1>2, <1>6, <1>9, <1>12 DEF x
    <3>7. Mask(x) + n1 = R BY <1>6, <1>11, <3>5
    <3>8. Mask(x + n1) = 0 BY <1>10, <1>12, <3>6, <3>7, MaskAdd
    <3>9. history_index - (d - v) = x + n1 BY <1>2, <1>8, <1>12 DEF x, hd
    <3>10. Mask(0) = Mask(history_index - (d - v)) BY <1>11, <3>8, <3>9
    <3>11. 0 \in 0..2 * R /\ n2 <= R - Mask(0) BY <1>6, <1>11, <1>13
    <3> HIDE DEF v
    <3>a. d > v /\ d \in 1..R /\ n2 \in Nat BY <1>13, <3>1
    <3>12. Continues(t1, CopyFromSlice(t1, 0, n2), d, n2)
      BY <1>2, <1>15, <3>1, <3>4, <3>10, <3>11, <3>a, RingCopyRepeats, ZenonT(60)
    <3> QED BY <3>12, Zenon DEF Continues, Repeats
  <2> QED BY <2>1, <2>2
<1> HIDE DEF t2
<1>17. n1 + n2 = hn BY <1>9, <1>12, <1>13
<1>18. Len(t1) \in Nat /\ Len(t2) = Len(out) + hn /\ Len(t2) = Len(t1) + n2
  BY <1>5, <1>12, <1>13, <1>15, <1>16, <1>17 DEF Extends
<1>19. Extends(out, t2, hn)
  <2>1. t2 \in Seq(Bytes) /\ \A i \in 1..Len(t1) : t2[i] = t1[i]
    BY <1>16 DEF Extends
  <2>2. \A i \in 1..Len(out) : i \in 1..Len(t1) /\ t1[i] = out[i]
    BY <1>5, <1>12, <1>14, <1>15 DEF Extends
  <2> QED BY <1>18, <2>1, <2>2 DEF Extends
<1>20. Repeats(t2, d, Len(out), Len(t2))
  <2>1. Len(out) <= Len(t1) BY <1>5, <1>12, <1>15
  <2>2. Repeats(t1, d, Len(out), Len(t1)) BY <1>14, <1>15
  <2> QED BY <1>5, <1>7, <1>13, <1>15, <1>16, <2>1, <2>2, MatchGrows
<1>21. Repeats(t2, d, Len(out), Len(out) + hn) BY <1>18, <1>20
<1>22. /\ n1 + n2 = hn /\ hn \in 1..hd /\ hn <= l /\ l <= avail
       /\ d <= Len(out)
       /\ Extends(out, t2, hn) /\ Repeats(t2, d, Len(out), Len(out) + hn)
  BY <1>7, <1>9, <1>17, <1>19, <1>21
<1> QED BY <1>22 DEF hd, x, hn, n1, n2, t1, t2

LEMMA FastMatchStep ==
  ASSUME ResumableCopies, NEW l \in Lengths, NEW d \in 1..R, FastMatch(l, d)
  PROVE  ResumableCopies'
<1> DEFINE hd == d - since
           hn == Minimum(l, hd)
           n1 == SliceCount(history_index - hd, hn, avail)
           t1 == CopyFromSlice(out, history_index - hd, n1)
           n2 == SliceCount(0, hn - n1, avail - n1)
           t2 == CopyFromSlice(t1, 0, n2)
<1>1. /\ pc = "fast" /\ avail >= MaxLength /\ distance' = d
      /\ UNCHANGED <<final, hlen, hdist, literal>>
      /\ \/ /\ d <= since /\ length' = l /\ Begin(MatchSymbol(l, d))
            /\ GoTo("fast_dst") /\ UNCHANGED <<avail, since, out>>
         \/ /\ d > since /\ history_index < hd /\ length' = l - hn
            /\ Complete(MatchSymbol(l, d), out) /\ Return("bad_distance")
            /\ UNCHANGED <<avail, since, out>>
         \/ /\ d > since /\ history_index >= hd /\ length' = l - hn
            /\ out' = t2 /\ avail' = avail - (n1 + n2) /\ since' = since + (n1 + n2)
            /\ \/ length' = 0 /\ Complete(MatchSymbol(l, d), t2) /\ GoTo("fast")
               \/ /\ length' > 0 /\ Begin(MatchSymbol(l, d))
                  /\ IF d > since' THEN Return("inconsistent_distance")
                                   ELSE GoTo("fast_dst")
  BY DEF FastMatch, FastSpace, Write, buffer
<1>2. TypeOK /\ RingHoldsText /\ IdleState BY DEF ResumableCopies
<1>3. /\ out \in Seq(Bytes) /\ since \in Nat /\ avail \in Nat
      /\ history \in [0..R - 1 -> Bytes] /\ history_index \in 0..2 * R
      /\ stream \in Seq(Symbols)
  BY <1>2 DEF TypeOK
<1>4. Len(out) \in Nat /\ MaxLength \in Nat BY <1>3, LenProperties, DeflateHistoryAssumption
<1>5. Unflushed = since /\ At = "fast" BY <1>1 DEF Unflushed, At
<1>6. since <= Len(out) /\ status # "bad_distance" /\ status # "inconsistent_distance"
  BY <1>1, <1>2, <1>5 DEF RingHoldsText, IdleState, ResumableCopies, NoInternalError
<1>7. /\ l \in 1..MaxLength /\ l \in Nat /\ d \in Nat
      /\ MatchSymbol(l, d) \in Symbols
  BY MatchIsSymbol
<1>8. CASE /\ d <= since /\ length' = l /\ Begin(MatchSymbol(l, d))
           /\ GoTo("fast_dst") /\ UNCHANGED <<avail, since, out>>
  <2>1. /\ pc' = "fast_dst" /\ UNCHANGED <<resume, status, ring, history, history_index>>
        /\ symbol' = MatchSymbol(l, d) /\ start' = Len(out) /\ UNCHANGED stream
    BY <1>8 DEF Begin, GoTo, ring
  <2>2. At' = "fast_dst" BY <2>1 DEF At
  <2>3. TypeOK'
    <3>1. length' \in Nat /\ distance' \in 0..R /\ symbol' \in Symbols /\ start' \in Nat
      BY <1>1, <1>4, <1>7, <1>8, <2>1
    <3> QED BY <1>1, <1>2, <1>8, <2>1, <3>1 DEF TypeOK, Running, Resumable
  <2>4. RingHoldsText'
    <3>1. Extends(out, out', 0) /\ since' = since + 0
      BY <1>2, <1>3, <1>8, NothingWritten
    <3> QED BY <1>1, <1>2, <2>1, <3>1, WriteKeepsRing
  <2>5. MatchState'
    <3>1. RingPart(At', hlen') = 0 BY <2>2 DEF RingPart, RingPoints
    <3>2. start' = Len(out') BY <1>8, <2>1
    <3>3. \A k \in Nat : k = (Len(out') - start') + k + 0 BY <1>4, <1>8, <3>2
    <3>4. l = (Len(out') - start') + length' + RingPart(At', hlen')
      BY <1>7, <1>8, <3>1, <3>3
    <3>5. distance' <= start' BY <1>1, <1>3, <1>4, <1>6, <1>7, <1>8, <2>1
    <3>6. \A i \in start' + 1..Len(out') : out'[i] = out'[i - distance']
      BY <1>4, <1>8, <3>2
    <3> QED BY <1>1, <2>1, <2>2, <3>4, <3>5, <3>6 DEF MatchState
  <2>6. UncheckedCopyIsSafe'
    <3>1. l <= avail BY <1>1, <1>3, <1>4, <1>7
    <3> QED BY <1>1, <1>7, <1>8, <3>1 DEF UncheckedCopyIsSafe
  <2>7. RingCopyState' /\ LiteralState' /\ NoInternalError'
    BY <1>6, <2>1, <2>2 DEF RingCopyState, LiteralState, NoInternalError, RingPoints
  <2>8. start' <= Len(out') BY <1>4, <1>8, <2>1
  <2>9. IdleState' BY <1>6, <2>1, <2>2, <2>8 DEF IdleState, IdlePoints
  <2> QED BY <2>3, <2>4, <2>5, <2>6, <2>7, <2>9 DEF ResumableCopies
<1>9. CASE /\ d > since /\ history_index < hd /\ length' = l - hn
           /\ Complete(MatchSymbol(l, d), out) /\ Return("bad_distance")
           /\ UNCHANGED <<avail, since, out>>
  <2>1. /\ pc' = "returned" /\ status' = "bad_distance"
        /\ UNCHANGED <<resume, ring, history, history_index>>
        /\ start' = Len(out') /\ symbol' = NoSymbol
        /\ stream' = Append(stream, MatchSymbol(l, d))
    BY <1>9 DEF Return, Complete, ring
  <2>2. stream' \in Seq(Symbols) /\ start' \in Nat BY <1>3, <1>4, <1>7, <1>9, <2>1
  <2>3. length' \in Nat /\ distance' \in 0..R
    BY <1>1, <1>3, <1>7, <1>9 DEF Minimum
  <2>4. TypeOK' BY <1>1, <1>2, <1>9, <2>1, <2>2, <2>3 DEF TypeOK, Running, Resumable
  <2>5. RingHoldsText'
    <3>1. Extends(out, out', 0) /\ since' = since + 0
      BY <1>2, <1>3, <1>9, NothingWritten
    <3> QED BY <1>1, <1>2, <2>1, <3>1, WriteKeepsRing
  <2>6. NoInternalError' BY <2>1 DEF NoInternalError
  <2> QED BY <2>1, <2>4, <2>5, <2>6, CompleteMoves DEF At
<1>10. CASE /\ d > since /\ history_index >= hd /\ length' = l - hn
            /\ out' = t2 /\ avail' = avail - (n1 + n2) /\ since' = since + (n1 + n2)
            /\ \/ length' = 0 /\ Complete(MatchSymbol(l, d), t2) /\ GoTo("fast")
               \/ /\ length' > 0 /\ Begin(MatchSymbol(l, d))
                  /\ IF d > since' THEN Return("inconsistent_distance")
                                   ELSE GoTo("fast_dst")
  <2>1. /\ n1 + n2 = hn /\ hn \in 1..hd /\ hn <= l /\ l <= avail /\ d <= Len(out)
        /\ Extends(out, t2, hn) /\ Repeats(t2, d, Len(out), Len(out) + hn)
    BY <1>1, <1>10, FastRingCopy
  <2>2. hn = l \/ hn = hd BY DEF Minimum
  <2>3. /\ out' = t2 /\ avail' = avail - hn /\ since' = since + hn /\ length' = l - hn
    BY <1>10, <2>1
  <2> HIDE DEF t2, n1, n2, hn
  <2>4. hn \in Nat /\ length' \in Nat /\ avail' \in Nat /\ since' \in Nat
        /\ length' <= avail'
    BY <1>3, <1>7, <2>1, <2>3
  <2>5. out' \in Seq(Bytes) /\ Len(out') = Len(out) + hn
    BY <2>1, <2>3 DEF Extends
  <2>6. distance' \in 0..R BY <1>1, <1>7
  <2>7. CASE length' = 0 /\ Complete(MatchSymbol(l, d), t2) /\ GoTo("fast")
    <3>1. /\ pc' = "fast" /\ UNCHANGED <<resume, status, ring, history, history_index>>
          /\ start' = Len(out') /\ symbol' = NoSymbol
          /\ stream' = Append(stream, MatchSymbol(l, d))
      BY <2>3, <2>7 DEF GoTo, Complete, ring
    <3>2. stream' \in Seq(Symbols) /\ start' \in Nat BY <1>3, <1>4, <1>7, <2>4, <2>5, <3>1
    <3>3. TypeOK'
      BY <1>1, <1>2, <2>4, <2>5, <2>6, <3>1, <3>2 DEF TypeOK, Running, Resumable
    <3>4. RingHoldsText' BY <1>1, <1>2, <2>1, <2>3, <2>4, <3>1, WriteKeepsRing
    <3>5. NoInternalError' BY <1>6, <3>1 DEF NoInternalError
    <3> QED BY <1>6, <3>1, <3>3, <3>4, <3>5, CompleteMoves DEF At, IdlePoints
  <2>8. CASE /\ length' > 0 /\ Begin(MatchSymbol(l, d))
             /\ IF d > since' THEN Return("inconsistent_distance") ELSE GoTo("fast_dst")
    <3>1. since' = d BY <1>3, <1>7, <2>2, <2>3, <2>4, <2>8
    <3>2. /\ pc' = "fast_dst"
          /\ UNCHANGED <<resume, status, ring, history, history_index>>
          /\ symbol' = MatchSymbol(l, d) /\ start' = Len(out) /\ UNCHANGED stream
      BY <1>7, <2>8, <3>1 DEF Begin, GoTo, ring
    <3>3. At' = "fast_dst" BY <3>2 DEF At
    <3>4. symbol' \in Symbols /\ start' \in Nat BY <1>4, <1>7, <3>2
    <3>5. TypeOK'
      BY <1>1, <1>2, <2>4, <2>5, <2>6, <3>2, <3>4 DEF TypeOK, Running, Resumable
    <3>6. RingHoldsText' BY <1>1, <1>2, <2>1, <2>3, <2>4, <3>2, WriteKeepsRing
    <3>7. MatchState'
      <4>1. RingPart(At', hlen') = 0 BY <3>3 DEF RingPart, RingPoints
      <4>2. l = (Len(out') - start') + length' + RingPart(At', hlen')
        BY <1>4, <1>7, <2>3, <2>4, <2>5, <3>2, <4>1
      <4>3. \A i \in start' + 1..Len(out') : out'[i] = out'[i - distance']
        BY <1>1, <2>1, <2>3, <2>5, <3>2 DEF Repeats
      <4>4. distance' <= start' BY <1>1, <2>1, <3>2
      <4> QED BY <1>1, <3>2, <3>3, <4>2, <4>3, <4>4 DEF MatchState
    <3>8. UncheckedCopyIsSafe' BY <1>1, <1>7, <2>4, <3>1 DEF UncheckedCopyIsSafe
    <3>9. RingCopyState' /\ LiteralState' /\ NoInternalError'
      BY <1>6, <3>2, <3>3 DEF RingCopyState, LiteralState, NoInternalError, RingPoints
    <3>10. start' <= Len(out') BY <1>4, <2>4, <2>5, <3>2
    <3>11. IdleState' BY <1>6, <3>2, <3>3, <3>10 DEF IdleState, IdlePoints
    <3> QED BY <3>5, <3>6, <3>7, <3>8, <3>9, <3>11 DEF ResumableCopies
  <2> QED BY <1>10, <2>7, <2>8
<1> QED BY <1>1, <1>8, <1>9, <1>10

-----------------------------------------------------------------------------
LEMMA StutterStep ==
  ASSUME ResumableCopies, UNCHANGED vars
  PROVE  ResumableCopies'
<1>1. UNCHANGED <<pc, resume, status, history, history_index, avail, since, out,
                  final, length, distance, hlen, hdist, literal, start, stream, symbol>>
  BY DEF vars, coroutine, ring, buffer, locals, ghosts
<1>2. At' = At /\ Unflushed' = Unflushed BY <1>1 DEF At, Unflushed
<1>3. TypeOK' BY <1>1 DEF ResumableCopies, TypeOK
<1>4. RingHoldsText' BY <1>1, <1>2 DEF ResumableCopies, RingHoldsText, HoldsText
<1>5. MatchState' BY <1>1, <1>2 DEF ResumableCopies, MatchState
<1>6. RingCopyState' BY <1>1, <1>2 DEF ResumableCopies, RingCopyState
<1>7. LiteralState' BY <1>1, <1>2 DEF ResumableCopies, LiteralState
<1>8. IdleState' BY <1>1, <1>2 DEF ResumableCopies, IdleState
<1>9. UncheckedCopyIsSafe' /\ NoInternalError'
  BY <1>1 DEF ResumableCopies, UncheckedCopyIsSafe, NoInternalError
<1> QED BY <1>3, <1>4, <1>5, <1>6, <1>7, <1>8, <1>9 DEF ResumableCopies

(* Every step preserves the inductive invariant.                           *)
LEMMA NextStep ==
  ASSUME ResumableCopies, [Next]_vars
  PROVE  ResumableCopies'
<1> USE DeflateHistoryAssumption
<1>1. CASE \E cap \in 0..MaxCap : Call(cap) BY <1>1, CallStep
<1>2. CASE ShortRead BY <1>2, ShortReadStep
<1>3. CASE BadStream \/ DecodeDone \/ EndOfBlock \/ FastExit
  <2>1. TRUE \in BOOLEAN /\ 0 \in 0..MaxStored OBVIOUS
  <2> QED BY <1>3, <2>1, QuietStep
<1>4. CASE \E f \in BOOLEAN : HuffmanHeader(f)
  <2>1. 0 \in 0..MaxStored OBVIOUS
  <2> QED BY <1>4, <2>1, QuietStep
<1>5. CASE \E f \in BOOLEAN, n \in 0..MaxStored : StoredHeader(f, n)
  BY <1>5, QuietStep
<1>6. CASE \E bytes \in Runs \cup {<< >>} : Stored(bytes) BY <1>6, StoredStep
<1>7. CASE \E b \in Bytes : FastLiteral(b) \/ SlowLiteral(b)
  BY <1>7, FastLiteralStep, SlowLiteralStep
<1>8. CASE \E l \in Lengths, d \in 1..R : FastMatch(l, d) \/ SlowMatch(l, d)
  BY <1>8, FastMatchStep, SlowMatchStep
<1>9. CASE FastCopy BY <1>9, FastCopyStep
<1>10. CASE WriteU8 BY <1>10, WriteU8Step
<1>11. CASE SplitMatch BY <1>11, SplitMatchStep
<1>12. CASE CopyToRingEnd BY <1>12, CopyToRingEndStep
<1>13. CASE CopyFromRingStart BY <1>13, CopyFromRingStartStep
<1>14. CASE CopyFromBuffer BY <1>14, CopyFromBufferStep
<1>15. CASE Returned \/ UNCHANGED vars BY <1>15, StutterStep DEF Returned
<1> QED
  BY <1>1, <1>2, <1>3, <1>4, <1>5, <1>6, <1>7, <1>8, <1>9, <1>10, <1>11, <1>12,
     <1>13, <1>14, <1>15
  DEF Next, Decode

(* For every ring size, buffer size and cut of the text into buffers, each *)
(* match that decode_huffman_fast or decode_huffman_slow expands is        *)
(* continued correctly after each suspension.                              *)
THEOREM ResumableCopiesInvariant == Spec => []ResumableCopies
<1>1. Init => ResumableCopies BY InitStep
<1>2. ResumableCopies /\ [Next]_vars => ResumableCopies' BY NextStep
<1> QED BY <1>1, <1>2, PTL DEF Spec

(* decoder.history holds the last bytes of the text whenever it is read.   *)
THEOREM RingInvariant == Spec => []RingHoldsText
<1>1. ResumableCopies => RingHoldsText BY DEF ResumableCopies
<1> QED BY <1>1, ResumableCopiesInvariant, PTL

(* The preconditions of copy_from_history32__bco hold at its call, and the *)
(* fast loop never reports an inconsistent distance.                       *)
THEOREM UncheckedCopyInvariant == Spec => [](UncheckedCopyIsSafe /\ NoInternalError)
<1>1. ResumableCopies => UncheckedCopyIsSafe /\ NoInternalError BY DEF ResumableCopies
<1> QED BY <1>1, ResumableCopiesInvariant, PTL

=============================================================================
