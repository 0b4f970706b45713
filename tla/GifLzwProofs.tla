---------------------------- MODULE GifLzwProofs ----------------------------
(***************************************************************************)
(* For every literal width and every table size, the prefix chains of the  *)
(* LZW decoder descend: LzwInv is inductive.                               *)
(***************************************************************************)
EXTENDS GifLzw, TLAPS

LEMMA Constants ==
  ASSUME literal_width \in LiteralWidths
  PROVE  /\ clear_code \in Nat /\ end_code \in Nat /\ Last \in Nat
         /\ clear_code >= 2 /\ end_code = clear_code + 1 /\ end_code <= Last
<1>1. literal_width \in 0..MaxWidth /\ MaxWidth \in 0..MaxWidth /\ literal_width < MaxWidth
      /\ 0 \in 0..MaxWidth /\ 0 < literal_width
  BY GifLzwAssumption
<1>2. Pow2(0) \in Nat /\ Pow2(0) >= 1 /\ Pow2(literal_width) \in Nat /\ Pow2(MaxWidth) \in Nat
  BY <1>1, GifLzwAssumption
<1>3. 2 * Pow2(0) <= Pow2(literal_width) /\ 2 * Pow2(literal_width) <= Pow2(MaxWidth)
  BY <1>1, GifLzwAssumption
<1> QED BY <1>2, <1>3 DEF clear_code, end_code, Last

LEMMA InitInv == Init => LzwInv
<1> SUFFICES ASSUME Init PROVE LzwInv OBVIOUS
<1>1. literal_width \in LiteralWidths BY DEF Init
<1>2. /\ clear_code \in Nat /\ end_code \in Nat /\ Last \in Nat
      /\ clear_code >= 2 /\ end_code = clear_code + 1 /\ end_code <= Last
  BY <1>1, Constants
<1>3. literal_width \in 1..MaxWidth - 1 /\ MaxWidth \in Nat BY <1>1, GifLzwAssumption
<1>4. TypeOK
  BY <1>1, <1>2, <1>3 DEF Init, TypeOK, Slots
<1>5. ChainsDescend
  BY <1>2 DEF Init, ChainsDescend, DictionaryDescends, CodeDescends, At
<1>6. WidthFits
  <2>1. literal_width \in 0..MaxWidth /\ literal_width + 1 \in 0..MaxWidth
        /\ literal_width < literal_width + 1
    BY <1>3
  <2>2. Pow2(literal_width) \in Nat /\ Pow2(literal_width + 1) \in Nat
        /\ 2 * Pow2(literal_width) <= Pow2(literal_width + 1)
    BY <2>1, GifLzwAssumption
  <2>3. save_code < Pow2(width) BY <1>2, <2>2 DEF Init, clear_code
  <2> QED BY <1>3, <2>3 DEF Init, WidthFits, At
<1> QED BY <1>4, <1>5, <1>6 DEF Init, LzwInv, NotCyclical

(* The dictionary stays as it is.                                          *)
LEMMA SameDictionary ==
  ASSUME DictionaryDescends,
         UNCHANGED <<literal_width, save_code, prev_code, suffixes, prefixes>>
  PROVE  DictionaryDescends' /\ clear_code' = clear_code /\ end_code' = end_code
BY DEF DictionaryDescends, Defined, clear_code, end_code

(* Save: the entry that the code defines leads to the code before it.      *)
LEMMA SaveStep ==
  ASSUME TypeOK, DictionaryDescends, WidthFits, NEW last \in Slots, last < clear_code,
         code \in Defined(save_code + 1), literal_width' = literal_width, Save(last),
         UNCHANGED n_bits
  PROVE  /\ DictionaryDescends'
         /\ save_code' \in end_code..Last + 1 /\ prev_code' \in Slots /\ width' \in 1..MaxWidth
         /\ suffixes' \in [Slots -> Slots] /\ prefixes' \in [Slots -> Slots]
         /\ save_code' < Pow2(width') \/ width' = MaxWidth
         /\ width' >= width
<1>1. /\ clear_code \in Nat /\ end_code \in Nat /\ Last \in Nat
      /\ clear_code >= 2 /\ end_code = clear_code + 1 /\ end_code <= Last
  BY Constants DEF TypeOK
<1>2. clear_code' = clear_code /\ end_code' = end_code BY DEF clear_code, end_code
<1>3. /\ save_code \in end_code..Last + 1 /\ prev_code \in 0..Last /\ code \in 0..Last
      /\ width \in 1..MaxWidth
      /\ suffixes \in [0..Last -> 0..Last] /\ prefixes \in [0..Last -> 0..Last]
  BY DEF TypeOK, Slots
<1>4. prev_code' = code BY DEF Save
<1>5. CASE save_code <= Last
  <2>1. /\ suffixes' = [suffixes EXCEPT ![save_code] = last]
        /\ prefixes' = [prefixes EXCEPT ![save_code] = prev_code]
        /\ save_code' = save_code + 1 /\ width' = Widened
    BY <1>5 DEF Save, Prefix
  <2>2. suffixes' \in [0..Last -> 0..Last] /\ prefixes' \in [0..Last -> 0..Last]
    BY <2>1, <1>3 DEF Slots
  <2>3. ASSUME NEW k \in end_code + 1..save_code
        PROVE  prefixes'[k] \in Defined(k) /\ suffixes'[k] < clear_code
    <3>1. CASE k = save_code
      <4>1. prefixes'[k] = prev_code /\ suffixes'[k] = last
        <5>1. save_code \in 0..Last BY <1>1, <1>3, <1>5
        <5> QED BY <3>1, <2>1, <1>3, <5>1
      <4>2. prev_code \in Defined(save_code) BY <3>1, <1>1, <1>3 DEF DictionaryDescends
      <4> QED BY <3>1, <4>1, <4>2
    <3>2. CASE k # save_code
      <4>1. k \in end_code + 1..save_code - 1 BY <3>2, <1>1, <1>3
      <4>2. prefixes'[k] = prefixes[k] /\ suffixes'[k] = suffixes[k]
        BY <3>2, <2>1, <1>1, <1>3, <4>1
      <4> QED BY <4>1, <4>2 DEF DictionaryDescends
    <3> QED BY <3>1, <3>2
  <2>4. DictionaryDescends'
    <3>1. save_code' - 1 = save_code BY <2>1, <1>3
    <3>2. prev_code' \in Defined(save_code') BY <2>1, <1>4
    <3>3. \A k, j : (k \in Defined(j))' <=> (k \in Defined(j)) BY <1>2 DEF Defined
    <3> QED BY <2>3, <3>1, <3>2, <1>2 DEF DictionaryDescends, Defined
  <2>5. width' \in 1..MaxWidth /\ width' >= width BY <2>1, <1>3, GifLzwAssumption DEF Widened
  <2>6. save_code' < Pow2(width') \/ width' = MaxWidth
    <3>1. CASE save_code + 1 = Pow2(width) /\ width < MaxWidth
      <4>1. width' = width + 1 BY <2>1, <3>1 DEF Widened
      <4>2. width \in 0..MaxWidth /\ width + 1 \in 0..MaxWidth /\ width < width + 1
        BY <3>1, <1>3, GifLzwAssumption
      <4>3. Pow2(width) \in Nat /\ Pow2(width) >= 1 /\ 2 * Pow2(width) <= Pow2(width + 1)
            /\ Pow2(width + 1) \in Nat
        BY <4>2, GifLzwAssumption
      <4> QED BY <4>1, <4>3, <2>1, <3>1
    <3>2. CASE ~(save_code + 1 = Pow2(width) /\ width < MaxWidth)
      <4>1. width' = width BY <2>1, <3>2 DEF Widened
      <4>2. Pow2(width) \in Nat BY <1>3, GifLzwAssumption
      <4>3. save_code < Pow2(width) \/ width = MaxWidth BY DEF WidthFits
      <4>4. width \in Nat /\ MaxWidth \in Nat /\ width <= MaxWidth BY <1>3, GifLzwAssumption
      <4>5. CASE width = MaxWidth BY <4>1, <4>5
      <4>6. CASE width # MaxWidth
        <5>1. width < MaxWidth BY <4>4, <4>6
        <5>2. save_code < Pow2(width) /\ save_code + 1 # Pow2(width) BY <5>1, <4>3, <4>6, <3>2
        <5>3. save_code \in Nat BY <1>1, <1>3
        <5>4. save_code + 1 < Pow2(width) BY <5>2, <5>3, <4>2
        <5> QED BY <5>4, <4>1, <2>1
      <4> QED BY <4>5, <4>6
    <3> QED BY <3>1, <3>2
  <2>7. save_code' \in end_code..Last + 1 BY <2>1, <1>1, <1>3, <1>5
  <2>8. prev_code' \in Slots BY <1>3, <1>4 DEF Slots
  <2> QED BY <2>2, <2>4, <2>5, <2>6, <2>7, <2>8 DEF Slots
<1>6. CASE save_code > Last
  <2>1. UNCHANGED <<suffixes, prefixes, save_code, width>> BY <1>6, <1>1, <1>3 DEF Save, tables
  <2>2. code \in Defined(save_code)
    BY <1>6, <1>1, <1>3 DEF Defined
  <2>3. DictionaryDescends' BY <2>1, <2>2, <1>2, <1>4 DEF DictionaryDescends, Defined
  <2> QED BY <2>1, <2>3, <1>3, <1>4 DEF WidthFits, TypeOK, Slots
<1>7. save_code <= Last \/ save_code > Last BY <1>1, <1>3
<1> QED BY <1>5, <1>6, <1>7

LEMMA CallStep ==
  ASSUME LzwInv, NEW n \in 0..MaxSrc, NEW m \in 0..MaxDst, Call(n, m)
  PROVE  LzwInv'
<1>1. DictionaryDescends' /\ clear_code' = clear_code /\ end_code' = end_code
  BY SameDictionary DEF LzwInv, ChainsDescend, Call, tables
<1>2. n \in Nat /\ m \in Nat BY GifLzwAssumption
<1>3. TypeOK' BY <1>1, <1>2 DEF LzwInv, TypeOK, Call, tables
<1>4. At' = At BY DEF Call, At, LzwInv, TypeOK
<1>5. CodeDescends' BY <1>1, <1>4 DEF LzwInv, ChainsDescend, CodeDescends, Defined, Call
<1>6. WidthFits' BY <1>4 DEF LzwInv, WidthFits, Call
<1> QED BY <1>1, <1>3, <1>5, <1>6 DEF LzwInv, ChainsDescend, NotCyclical, Call

LEMMA ReadU8Step ==
  ASSUME LzwInv, ReadU8
  PROVE  LzwInv'
<1>1. DictionaryDescends' /\ clear_code' = clear_code /\ end_code' = end_code
  BY SameDictionary DEF LzwInv, ChainsDescend, ReadU8, tables
<1>2. At' = "read" BY DEF ReadU8, At, Suspend, GoTo
<1>3. /\ n_bits \in Nat /\ avail \in Nat /\ width \in 1..MaxWidth
      /\ n_bits < width
  BY DEF LzwInv, TypeOK, ReadU8
<1>4. n_bits' \in Nat /\ avail' \in Nat /\ n_bits' < width + 8
  BY <1>3 DEF ReadU8
<1>5. pc' \in {"caller", "read"} /\ resume' \in {"read", "write", "copy"}
      /\ status' \in {"not_called", "short_read", "short_write", "ok", "out_of_range", "cyclical"}
      /\ status' # "cyclical"
  BY DEF ReadU8, Suspend, GoTo, LzwInv, TypeOK, NotCyclical
<1>6. TypeOK' BY <1>1, <1>4, <1>5 DEF LzwInv, TypeOK, ReadU8, tables
<1>7. CodeDescends' BY <1>2 DEF CodeDescends
<1>8. WidthFits' BY <1>2, <1>4 DEF LzwInv, WidthFits, ReadU8
<1> QED BY <1>1, <1>5, <1>6, <1>7, <1>8 DEF LzwInv, ChainsDescend, NotCyclical

(* A code is read; its action decides where to go.                         *)
LEMMA ReadCodeStep ==
  ASSUME LzwInv, NEW x \in Slots, ReadCode(x)
  PROVE  /\ n_bits' \in Nat /\ n_bits' < 8 /\ count' \in Nat /\ code' = x
         /\ UNCHANGED <<literal_width, suffixes, prefixes, stack, avail, space>>
         /\ clear_code' = clear_code /\ end_code' = end_code
<1>1. n_bits \in Nat /\ width \in 1..MaxWidth /\ n_bits < width + 8 /\ count \in Nat
  BY DEF LzwInv, TypeOK, WidthFits
<1>2. n_bits >= width /\ n_bits' = n_bits - width /\ count' = count + 1 BY DEF ReadCode
<1>3. n_bits' \in Nat /\ n_bits' < 8 BY <1>1, <1>2
<1> QED BY <1>1, <1>2, <1>3 DEF ReadCode, tables, buffers, clear_code, end_code

LEMMA LiteralStep ==
  ASSUME LzwInv, NEW x \in Slots, Literal(x)
  PROVE  LzwInv'
<1>1. /\ n_bits' \in Nat /\ n_bits' < 8 /\ count' \in Nat /\ code' = x
      /\ UNCHANGED <<literal_width, suffixes, prefixes, stack, avail, space>>
      /\ clear_code' = clear_code /\ end_code' = end_code
  BY ReadCodeStep DEF Literal
<1>2. DictionaryDescends' BY SameDictionary, <1>1 DEF LzwInv, ChainsDescend, Literal
<1>3. At' = "write" /\ pc' = "write" BY DEF Literal, GoTo, At
<1>4. TypeOK' BY <1>1, <1>3 DEF LzwInv, TypeOK, Literal, GoTo
<1>5. CodeDescends' BY <1>1, <1>3 DEF CodeDescends, Literal
<1>6. width' = width /\ width \in Nat /\ save_code' = save_code
  BY GifLzwAssumption DEF LzwInv, TypeOK, Literal
<1>7. n_bits' < width' + 8 BY <1>1, <1>6
<1>8. WidthFits' BY <1>1, <1>6, <1>7 DEF LzwInv, WidthFits
<1> QED BY <1>2, <1>4, <1>5, <1>8 DEF LzwInv, ChainsDescend, NotCyclical, Literal, GoTo

LEMMA ClearStep ==
  ASSUME LzwInv, Clear
  PROVE  LzwInv'
<1>1. /\ clear_code \in Nat /\ end_code \in Nat /\ Last \in Nat
      /\ clear_code >= 2 /\ end_code = clear_code + 1 /\ end_code <= Last
  BY Constants DEF LzwInv, TypeOK
<1>2. clear_code \in Slots BY <1>1 DEF Slots
<1>3. /\ n_bits' \in Nat /\ n_bits' < 8 /\ count' \in Nat /\ code' = clear_code
      /\ UNCHANGED <<literal_width, suffixes, prefixes, stack, avail, space>>
      /\ clear_code' = clear_code /\ end_code' = end_code
  BY <1>2, ReadCodeStep DEF Clear
<1>4. At' = "read" /\ pc' = "read" BY DEF Clear, GoTo, At
<1>5. literal_width \in 1..MaxWidth - 1 /\ MaxWidth \in Nat
  BY GifLzwAssumption DEF LzwInv, TypeOK
<1>6. save_code' = end_code /\ prev_code' = 0 /\ width' = literal_width + 1 BY DEF Clear
<1>7. DictionaryDescends' BY <1>1, <1>3, <1>6 DEF DictionaryDescends
<1>8. TypeOK'
  <2>1. save_code' \in end_code'..Last + 1 BY <1>1, <1>3, <1>6
  <2>2. width' \in 1..MaxWidth BY <1>5, <1>6
  <2>3. prev_code' \in Slots BY <1>1, <1>6 DEF Slots
  <2> QED BY <2>1, <2>2, <2>3, <1>2, <1>3, <1>4 DEF LzwInv, TypeOK, Clear, GoTo
<1>9. WidthFits'
  <2>1. literal_width \in 0..MaxWidth /\ literal_width + 1 \in 0..MaxWidth
        /\ literal_width < literal_width + 1
    BY <1>5
  <2>2. Pow2(literal_width) \in Nat /\ Pow2(literal_width + 1) \in Nat
        /\ 2 * Pow2(literal_width) <= Pow2(literal_width + 1)
    BY <2>1, GifLzwAssumption
  <2>3. save_code' < Pow2(width') BY <1>1, <1>6, <2>2 DEF clear_code
  <2>4. n_bits' < width' + 8 BY <1>3, <1>5, <1>6
  <2> QED BY <1>3, <2>3, <2>4 DEF WidthFits
<1>10. CodeDescends' BY <1>4 DEF CodeDescends
<1> QED BY <1>7, <1>8, <1>9, <1>10 DEF LzwInv, ChainsDescend, NotCyclical, Clear, GoTo

(* End and OutOfRange return.                                              *)
LEMMA ReturnStep ==
  ASSUME LzwInv, NEW x \in Slots, ReadCode(x), NEW what \in {"ok", "out_of_range"},
         Return(what), UNCHANGED <<save_code, prev_code, width, s, c>>
  PROVE  LzwInv'
<1>1. /\ n_bits' \in Nat /\ n_bits' < 8 /\ count' \in Nat /\ code' = x
      /\ UNCHANGED <<literal_width, suffixes, prefixes, stack, avail, space>>
      /\ clear_code' = clear_code /\ end_code' = end_code
  BY ReadCodeStep
<1>2. DictionaryDescends' BY SameDictionary, <1>1 DEF LzwInv, ChainsDescend
<1>3. At' = "returned" /\ pc' = "returned" /\ status' = what /\ resume' = resume BY DEF Return, At
<1>4. TypeOK' BY <1>1, <1>3 DEF LzwInv, TypeOK
<1>5. CodeDescends' BY <1>3 DEF CodeDescends
<1>6. width' = width /\ width \in Nat /\ save_code' = save_code
  BY GifLzwAssumption DEF LzwInv, TypeOK
<1>7. n_bits' < width' + 8 BY <1>1, <1>6
<1>8. WidthFits' BY <1>1, <1>6, <1>7 DEF LzwInv, WidthFits
<1>9. NotCyclical' BY <1>3 DEF NotCyclical
<1> QED BY <1>2, <1>4, <1>5, <1>8, <1>9 DEF LzwInv, ChainsDescend

LEMMA BackReferenceStep ==
  ASSUME LzwInv, NEW x \in Slots, BackReference(x)
  PROVE  LzwInv'
<1>1. /\ n_bits' \in Nat /\ n_bits' < 8 /\ count' \in Nat /\ code' = x
      /\ UNCHANGED <<literal_width, suffixes, prefixes, stack, avail, space>>
      /\ clear_code' = clear_code /\ end_code' = end_code
  BY ReadCodeStep DEF BackReference
<1>2. DictionaryDescends' BY SameDictionary, <1>1 DEF LzwInv, ChainsDescend, BackReference
<1>3. At' = "chain" /\ pc' = "chain" BY DEF BackReference, GoTo, At
<1>4. /\ clear_code \in Nat /\ end_code \in Nat /\ Last \in Nat
      /\ clear_code >= 2 /\ end_code = clear_code + 1 /\ end_code <= Last
  BY Constants DEF LzwInv, TypeOK
<1>5. save_code \in end_code..Last + 1 /\ prev_code \in 0..Last /\ x \in 0..Last
  BY DEF LzwInv, TypeOK, Slots
<1>6. end_code < x /\ x <= save_code BY DEF BackReference
<1>7. save_code > end_code BY <1>4, <1>5, <1>6
<1>8. prev_code \in Defined(save_code)
  BY <1>7 DEF LzwInv, ChainsDescend, DictionaryDescends
<1>9. s' \in 0..Last /\ c' \in 0..Last /\ c' \in Defined(save_code) /\ c' <= s'
  <2>1. CASE x = save_code
    <3>1. s' = Last - 1 /\ c' = prev_code BY <2>1 DEF BackReference
    <3>2. save_code <= Last BY <2>1, <1>5
    <3>3. prev_code <= Last - 1 BY <3>2, <1>4, <1>5, <1>7, <1>8 DEF Defined
    <3> QED BY <3>1, <3>3, <1>4, <1>5, <1>8
  <2>2. CASE x # save_code
    <3>1. s' = Last /\ c' = x BY <2>2 DEF BackReference
    <3>2. x \in Defined(save_code) BY <2>2, <1>4, <1>5, <1>6 DEF Defined
    <3> QED BY <3>1, <3>2, <1>4, <1>5
  <2> QED BY <2>1, <2>2
<1>10. TypeOK' BY <1>1, <1>3, <1>9 DEF LzwInv, TypeOK, BackReference, GoTo, Slots
<1>11. CodeDescends'
  <2>1. x \in Defined(save_code + 1) BY <1>4, <1>5, <1>6 DEF Defined
  <2>2. save_code' = save_code BY DEF BackReference
  <2> QED BY <2>1, <2>2, <1>1, <1>3, <1>7, <1>9 DEF CodeDescends, Defined
<1>12. width' = width /\ width \in Nat /\ save_code' = save_code
  BY GifLzwAssumption DEF LzwInv, TypeOK, BackReference
<1>13. n_bits' < width' + 8 BY <1>1, <1>12
<1>14. WidthFits' BY <1>1, <1>12, <1>13 DEF LzwInv, WidthFits
<1> QED BY <1>2, <1>10, <1>11, <1>14 DEF LzwInv, ChainsDescend, NotCyclical, BackReference, GoTo

LEMMA WriteU8Step ==
  ASSUME LzwInv, WriteU8
  PROVE  LzwInv'
<1>0. pc = "write" /\ At = "write" BY DEF WriteU8, At
<1>1. clear_code' = clear_code /\ end_code' = end_code /\ literal_width' = literal_width
      /\ n_bits' = n_bits
  BY DEF WriteU8, clear_code, end_code
<1>2. /\ clear_code \in Nat /\ end_code \in Nat /\ Last \in Nat
      /\ clear_code >= 2 /\ end_code = clear_code + 1 /\ end_code <= Last
  BY Constants DEF LzwInv, TypeOK
<1>3. code < clear_code /\ code \in Slots /\ code \in Nat /\ space \in Nat
      /\ n_bits \in Nat /\ n_bits < 8
  BY <1>0, <1>2 DEF LzwInv, ChainsDescend, CodeDescends, TypeOK, WidthFits, Slots
<1>4. code \in Defined(save_code + 1) BY <1>2, <1>3 DEF Defined
<1>5. CASE space = 0
  <2>1. At' = "write" /\ pc' = "caller" /\ resume' = "write" /\ status' = "short_write"
        /\ UNCHANGED <<suffixes, prefixes, save_code, width, prev_code, space>>
    BY <1>0, <1>5 DEF WriteU8, Suspend, At, tables
  <2>2. DictionaryDescends' BY <2>1, <1>1, SameDictionary DEF LzwInv, ChainsDescend
  <2>3. TypeOK' BY <2>1, <1>1 DEF LzwInv, TypeOK, WriteU8
  <2>4. CodeDescends' BY <2>1, <1>1, <1>3 DEF CodeDescends, WriteU8
  <2>5. WidthFits' BY <2>1, <1>1, <1>3 DEF WidthFits, LzwInv
  <2> QED BY <2>1, <2>2, <2>3, <2>4, <2>5 DEF LzwInv, ChainsDescend, NotCyclical
<1>6. CASE space # 0
  <2>1. At' = "read" /\ pc' = "read" /\ UNCHANGED <<resume, status>>
        /\ Save(code) /\ space' = space - 1
    BY <1>6 DEF WriteU8, GoTo, At
  <2>2. /\ DictionaryDescends'
        /\ save_code' \in end_code..Last + 1 /\ prev_code' \in Slots /\ width' \in 1..MaxWidth
        /\ suffixes' \in [Slots -> Slots] /\ prefixes' \in [Slots -> Slots]
        /\ save_code' < Pow2(width') \/ width' = MaxWidth
        /\ width' >= width
    BY <2>1, <1>1, <1>3, <1>4, SaveStep DEF LzwInv, ChainsDescend
  <2>3. space' \in Nat BY <2>1, <1>3, <1>6
  <2>4. TypeOK' BY <2>1, <2>2, <2>3, <1>1 DEF LzwInv, TypeOK, WriteU8
  <2>5. CodeDescends' BY <2>1 DEF CodeDescends
  <2>6. width' \in Nat BY <2>2, GifLzwAssumption
  <2>7. n_bits' < width' + 8
    <3>1. n_bits' < 8 /\ n_bits' \in Nat BY <1>1, <1>3
    <3>2. \A b \in Nat, w \in Nat : b < 8 => b < w + 8 OBVIOUS
    <3> QED BY <2>6, <3>1, <3>2
  <2>8. WidthFits' BY <2>1, <2>2, <2>7 DEF WidthFits
  <2> QED BY <2>1, <2>2, <2>4, <2>5, <2>8 DEF LzwInv, ChainsDescend, NotCyclical
<1> QED BY <1>5, <1>6

LEMMA ChainStep ==
  ASSUME LzwInv, Chain
  PROVE  LzwInv'
<1>0. pc = "chain" /\ At = "chain" /\ c >= clear_code BY DEF Chain, At
<1>1. clear_code' = clear_code /\ end_code' = end_code /\ literal_width' = literal_width
      /\ UNCHANGED <<save_code, prev_code, width, n_bits, code, suffixes, prefixes, avail, space>>
  BY DEF Chain, clear_code, end_code, tables, buffers
<1>2. /\ clear_code \in Nat /\ end_code \in Nat /\ Last \in Nat
      /\ clear_code >= 2 /\ end_code = clear_code + 1 /\ end_code <= Last
  BY Constants DEF LzwInv, TypeOK
<1>3. /\ c \in Defined(save_code) /\ c <= s
      /\ save_code > end_code /\ code \in Defined(save_code + 1)
  BY <1>0 DEF LzwInv, ChainsDescend, CodeDescends
<1>4. /\ c \in 0..Last /\ s \in 0..Last /\ save_code \in end_code..Last + 1
      /\ suffixes \in [0..Last -> 0..Last] /\ prefixes \in [0..Last -> 0..Last]
      /\ stack \in [0..Last -> 0..Last]
  BY DEF LzwInv, TypeOK, Slots
<1>5. c \in end_code + 1..save_code - 1 BY <1>0, <1>2, <1>3, <1>4 DEF Defined
<1>6. prefixes[c] \in Defined(c) BY <1>5 DEF LzwInv, ChainsDescend, DictionaryDescends
<1>7. s # 0 BY <1>2, <1>3, <1>4, <1>5
<1>8. /\ s' = s - 1 /\ c' = prefixes[c] /\ At' = "chain" /\ pc' = "chain"
      /\ UNCHANGED <<resume, status>>
      /\ stack' = [stack EXCEPT ![s] = suffixes[c]]
  BY <1>7 DEF Chain, GoTo, At
<1>9. s' \in 0..Last /\ c' \in 0..Last /\ stack' \in [0..Last -> 0..Last]
  <2>1. s' \in 0..Last BY <1>2, <1>4, <1>7, <1>8
  <2>2. prefixes[c] \in 0..Last /\ suffixes[c] \in 0..Last BY <1>4
  <2>3. stack' \in [0..Last -> 0..Last] BY <2>2, <1>4, <1>8
  <2> QED BY <2>1, <2>2, <2>3, <1>8
<1>10. c' \in Defined(save_code) /\ c' <= s'
  <2> DEFINE p == prefixes[c]
  <2>1. p \in 0..Last BY <1>4
  <2>2. p \in Defined(c) BY <1>6
  <2>3. c' = p BY <1>8
  <2> HIDE DEF p
  <2>4. p < c /\ p \in Defined(save_code)
    <3>1. p \in 0..clear_code - 1 \/ p \in end_code + 1..c - 1 BY <2>2 DEF Defined
    <3>2. c \in Nat /\ save_code \in Nat /\ end_code < c /\ c < save_code BY <1>2, <1>4, <1>5
    <3>3. CASE p \in 0..clear_code - 1 BY <3>3, <3>2, <1>2 DEF Defined
    <3>4. CASE p \in end_code + 1..c - 1 BY <3>4, <3>2, <1>2 DEF Defined
    <3> QED BY <3>1, <3>3, <3>4
  <2>5. p <= s - 1 BY <2>1, <2>4, <1>2, <1>3, <1>4
  <2> QED BY <2>3, <2>4, <2>5, <1>8
<1>11. DictionaryDescends' BY <1>1, SameDictionary DEF LzwInv, ChainsDescend
<1>12. TypeOK' BY <1>1, <1>8, <1>9 DEF LzwInv, TypeOK, Chain, Slots
<1>13. CodeDescends' BY <1>1, <1>3, <1>8, <1>10 DEF CodeDescends, Defined
<1>14. WidthFits' BY <1>0, <1>1, <1>8 DEF LzwInv, WidthFits
<1> QED BY <1>8, <1>11, <1>12, <1>13, <1>14 DEF LzwInv, ChainsDescend, NotCyclical

LEMMA ChainEndStep ==
  ASSUME LzwInv, ChainEnd
  PROVE  LzwInv'
<1>0. pc = "chain" /\ At = "chain" /\ c < clear_code BY DEF ChainEnd, At
<1>1. clear_code' = clear_code /\ end_code' = end_code /\ literal_width' = literal_width
      /\ UNCHANGED <<save_code, prev_code, width, n_bits, code, s, c, suffixes, prefixes, avail, space>>
  BY DEF ChainEnd, clear_code, end_code, tables, buffers
<1>2. At' = "copy" /\ pc' = "copy" /\ UNCHANGED <<resume, status>> BY DEF ChainEnd, GoTo, At
<1>3. stack' \in [Slots -> Slots]
  BY DEF ChainEnd, LzwInv, TypeOK
<1>4. DictionaryDescends' BY <1>1, SameDictionary DEF LzwInv, ChainsDescend
<1>5. TypeOK' BY <1>1, <1>2, <1>3 DEF LzwInv, TypeOK, ChainEnd
<1>6. save_code > end_code /\ code \in Defined(save_code + 1)
  BY <1>0 DEF LzwInv, ChainsDescend, CodeDescends
<1>7. CodeDescends' BY <1>0, <1>1, <1>2, <1>6 DEF CodeDescends, Defined
<1>8. WidthFits' BY <1>0, <1>1, <1>2 DEF LzwInv, WidthFits
<1> QED BY <1>2, <1>4, <1>5, <1>7, <1>8 DEF LzwInv, ChainsDescend, NotCyclical

LEMMA CopyStep ==
  ASSUME LzwInv, Copy
  PROVE  LzwInv'
<1>0. pc = "copy" /\ At = "copy" BY DEF Copy, At
<1>1. clear_code' = clear_code /\ end_code' = end_code /\ literal_width' = literal_width
      /\ UNCHANGED <<n_bits, code, c, stack, avail, count>>
  BY DEF Copy, clear_code, end_code
<1>2. /\ clear_code \in Nat /\ end_code \in Nat /\ Last \in Nat
      /\ clear_code >= 2 /\ end_code = clear_code + 1 /\ end_code <= Last
  BY Constants DEF LzwInv, TypeOK
<1>3. c < clear_code /\ save_code > end_code /\ code \in Defined(save_code + 1)
  BY <1>0 DEF LzwInv, ChainsDescend, CodeDescends
<1>4. c \in Slots /\ s \in 0..Last /\ space \in Nat /\ n_bits \in Nat /\ n_bits < 8
  BY <1>0 DEF LzwInv, TypeOK, WidthFits, Slots
<1>5. Copied \in 0..Last + 1 - s /\ space - Copied \in Nat BY <1>2, <1>4 DEF Copied
<1>6. space' = space - Copied BY DEF Copy
<1>7. CASE Copied = Last + 1 - s
  <2>1. At' = "read" /\ pc' = "read" /\ UNCHANGED <<resume, status, s>> /\ Save(c)
    BY <1>7 DEF Copy, GoTo, At
  <2>2. /\ DictionaryDescends'
        /\ save_code' \in end_code..Last + 1 /\ prev_code' \in Slots /\ width' \in 1..MaxWidth
        /\ suffixes' \in [Slots -> Slots] /\ prefixes' \in [Slots -> Slots]
        /\ save_code' < Pow2(width') \/ width' = MaxWidth
        /\ width' >= width
    BY <2>1, <1>1, <1>3, <1>4, SaveStep DEF LzwInv, ChainsDescend
  <2>3. TypeOK' BY <2>1, <2>2, <1>1, <1>5, <1>6 DEF LzwInv, TypeOK
  <2>4. CodeDescends' BY <2>1 DEF CodeDescends
  <2>5. width' \in Nat BY <2>2, GifLzwAssumption
  <2>6. n_bits' < width' + 8
    <3>1. n_bits' < 8 /\ n_bits' \in Nat BY <1>1, <1>4
    <3>2. \A b \in Nat, w \in Nat : b < 8 => b < w + 8 OBVIOUS
    <3> QED BY <2>5, <3>1, <3>2
  <2>7. WidthFits' BY <2>1, <2>2, <2>6 DEF WidthFits
  <2> QED BY <2>1, <2>2, <2>3, <2>4, <2>7 DEF LzwInv, ChainsDescend, NotCyclical
<1>8. CASE Copied # Last + 1 - s
  <2>1. At' = "copy" /\ pc' = "caller" /\ resume' = "copy" /\ status' = "short_write"
        /\ s' = Remainder
        /\ UNCHANGED <<suffixes, prefixes, save_code, width, prev_code>>
    BY <1>0, <1>8 DEF Copy, Suspend, At, tables
  <2>2. s' \in 0..Last
    <3>1. s + Copied \in 0..Last BY <1>2, <1>4, <1>5, <1>8
    <3>2. Last + 1 \in Nat /\ Last + 1 > 0 BY <1>2
    <3>3. (s + Copied) % (Last + 1) \in 0..Last BY <3>1, <3>2, <1>2
    <3> QED BY <2>1, <3>3 DEF Remainder
  <2>3. DictionaryDescends' BY <2>1, <1>1, SameDictionary DEF LzwInv, ChainsDescend
  <2>4. TypeOK' BY <2>1, <2>2, <1>1, <1>5, <1>6 DEF LzwInv, TypeOK, Slots
  <2>5. CodeDescends' BY <2>1, <1>1, <1>3 DEF CodeDescends, Defined
  <2>6. WidthFits' BY <2>1, <1>0, <1>1 DEF LzwInv, WidthFits
  <2> QED BY <2>1, <2>3, <2>4, <2>5, <2>6 DEF LzwInv, ChainsDescend, NotCyclical
<1> QED BY <1>7, <1>8

LEMMA NextStep ==
  ASSUME LzwInv, [Next]_vars
  PROVE  LzwInv'
<1>1. CASE UNCHANGED vars
  BY <1>1 DEF vars, LzwInv, TypeOK, ChainsDescend, DictionaryDescends, CodeDescends, NotCyclical,
              WidthFits, At, Defined, clear_code, end_code
<1>2. CASE \E n \in 0..MaxSrc, m \in 0..MaxDst : Call(n, m) BY <1>2, CallStep
<1>3. CASE ReadU8 BY <1>3, ReadU8Step
<1>4. CASE Codes
  <2>1. CASE \E x \in Slots : Literal(x) BY <2>1, LiteralStep
  <2>2. CASE \E x \in Slots : BackReference(x) BY <2>2, BackReferenceStep
  <2>3. CASE \E x \in Slots : OutOfRange(x) BY <2>3, ReturnStep DEF OutOfRange
  <2>4. CASE Clear BY <2>4, ClearStep
  <2>5. CASE End
    <3>1. end_code \in Slots BY Constants DEF LzwInv, TypeOK, Slots
    <3> QED BY <2>5, <3>1, ReturnStep DEF End
  <2> QED BY <1>4, <2>1, <2>2, <2>3, <2>4, <2>5 DEF Codes
<1>5. CASE WriteU8 BY <1>5, WriteU8Step
<1>6. CASE Chain BY <1>6, ChainStep
<1>7. CASE ChainEnd BY <1>7, ChainEndStep
<1>8. CASE Copy BY <1>8, CopyStep
<1>9. CASE Returned BY <1>9, <1>1 DEF Returned
<1> QED BY <1>1, <1>2, <1>3, <1>4, <1>5, <1>6, <1>7, <1>8, <1>9 DEF Next

-----------------------------------------------------------------------------
(* The chains descend, whatever the stream, the literal width and the size *)
(* of the tables: a dictionary entry leads to a smaller code with a        *)
(* meaning since the last clear code.                                      *)
THEOREM ChainsDescendInvariant == Spec => []ChainsDescend
<1>1. LzwInv => ChainsDescend BY DEF LzwInv
<1> QED BY InitInv, NextStep, <1>1, PTL DEF Spec

(* The error "LZW prefix chain is cyclical" is dead code.                  *)
THEOREM NotCyclicalInvariant == Spec => []NotCyclical
<1>1. LzwInv => NotCyclical BY DEF LzwInv
<1> QED BY InitInv, NextStep, <1>1, PTL DEF Spec

(* The width of a code follows the dictionary, and the bits held back fit: *)
(* no code up to save_code is wider than the bits read for it, whenever    *)
(* the table fills, is full or is cleared.                                 *)
THEOREM WidthFitsInvariant == Spec => []WidthFits
<1>1. LzwInv => WidthFits BY DEF LzwInv
<1> QED BY InitInv, NextStep, <1>1, PTL DEF Spec
=============================================================================
