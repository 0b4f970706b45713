---------------------------- MODULE HuffmanTable ----------------------------
(***************************************************************************)
(* decoder.init_huff of std/deflate: from code_lengths[n_codes0 ..         *)
(* n_codes1) to the two level table huffs[which], and the lookup that      *)
(* decode_huffman_slow makes in it while it may hold too few bits.         *)
(*                                                                         *)
(* The table is not cleared between blocks: Init puts a stale entry, left  *)
(* by an earlier block, into every slot.  A table value is a record: kind  *)
(* is "symbol" (a literal, the end of block, or a base number and extra    *)
(* bits, which the symbol alone decides), "redirect" or "stale"; n is the  *)
(* number of bits to consume.                                              *)
(***************************************************************************)
EXTENDS Integers, FiniteSetsExt

CONSTANTS
  Primary,    \* bits of a first level key: 9
  MaxLen,     \* the longest code: 15
  NCodes,     \* the length of code_lengths: 320
  TableSize,  \* slots of huffs[which]: 1234
  MaxCodes0   \* bound on n_codes0

ASSUME HuffmanTableAssumption ==
  /\ Primary \in Nat /\ MaxLen \in Nat /\ NCodes \in Nat /\ TableSize \in Nat
  /\ 0 < Primary /\ Primary <= MaxLen
  /\ MaxLen <= 2 * Primary       \* 15 <= 18: a second level key is no longer
  /\ NCodes < 2^(Primary + 1)    \* 288 < 1024: a complete code has a short one
  /\ 2^Primary <= TableSize
  /\ MaxCodes0 \in 0..NCodes

(* What ^ means for the exponents in use, which the provers do not know.   *)
ASSUME PowerAssumption ==
  \A n \in 0..MaxLen : 2^n \in Nat /\ 2^(n + 1) = 2 * 2^n

VARIABLES
  pc,             \* the loop of init_huff to run next, "done" or "error"
  status,         \* what init_huff returned
  code_lengths,   \* decoder.code_lengths
  n_codes0,       \* where the codes of this table start
  counts,         \* how many codes there are of each length, not inserted yet
  offsets,        \* where the symbols of each length go in symbols
  symbols,        \* the symbols by code length, then by number
  n_symbols,      \* how many there are
  i,              \* the loop variable
  max_cl,         \* the longest code length in use
  n_huffs_bits,   \* decoder.n_huffs_bits[which]
  prev_cl, prev_redirect_key, top, next_top, initial_high_bits,
  code,           \* the canonical code of symbols[i]
  huffs           \* decoder.huffs[which]

vars == <<pc, status, code_lengths, n_codes0, counts, offsets, symbols, n_symbols, i,
          max_cl, n_huffs_bits, prev_cl, prev_redirect_key, top, next_top,
          initial_high_bits, code, huffs>>
setup == <<code_lengths, n_codes0>>
sorted == <<offsets, symbols, n_symbols>>
cursor == <<prev_cl, prev_redirect_key, top, next_top, initial_high_bits, code>>

Lengths == 0..MaxLen
Slots == 0..TableSize - 1
NoKey == -1    \* 0xFFFFFFFF, which is no first level key

Stale == [kind |-> "stale", n |-> 0]
SymbolEntry(s, n) == [kind |-> "symbol", symbol |-> s, n |-> n]
RedirectEntry(t, b) == [kind |-> "redirect", top |-> t, bits |-> b, n |-> Primary]

-----------------------------------------------------------------------------
Init ==
  /\ pc = "count" /\ status = "running"
  /\ code_lengths \in [0..NCodes - 1 -> Lengths]
  /\ n_codes0 \in 0..MaxCodes0
  /\ counts = [l \in Lengths |-> 0]
  /\ offsets = [l \in Lengths |-> 0]
  /\ symbols = [k \in 0..NCodes - 1 |-> 0]
  /\ n_symbols = 0 /\ i = 0 /\ max_cl = 0 /\ n_huffs_bits = 0
  /\ prev_cl = 0 /\ prev_redirect_key = NoKey
  /\ top = 0 /\ next_top = 0 /\ initial_high_bits = 0 /\ code = 0
  /\ huffs = [s \in Slots |-> Stale]

Fail(what) ==
  /\ pc' = "error"
  /\ status' = what
  /\ UNCHANGED <<setup, counts, sorted, i, max_cl, n_huffs_bits, cursor, huffs>>

(* Calculate counts, and stop if there are no codes at all.  There are at  *)
(* most 320 codes: no count can be 320 before it is incremented.           *)
Codes0 == n_codes0..NCodes - 1
Count ==
  /\ pc = "count"
  /\ LET cs == [l \in Lengths |-> Cardinality({k \in Codes0 : code_lengths[k] = l})]
     IN  IF cs[0] + n_codes0 = NCodes
         THEN Fail("no_codes")
         ELSE /\ counts' = cs
              /\ pc' = "cover"
              /\ UNCHANGED <<status, setup, sorted, i, max_cl, n_huffs_bits, cursor, huffs>>

(* Check that the code completely covers all possible input bits: there    *)
(* is 1 possible 0-bit code, and each more bit doubles what remains.  At   *)
(* most 2^14 remain where the code tests for more than 2^30.               *)
Remaining ==
  LET r[l \in Lengths] == IF l = 0 THEN 1 ELSE 2 * r[l - 1] - counts[l]
  IN  r

(* Variant: an incomplete code is accepted.                                *)
CoverAcceptsIncomplete ==
  /\ pc = "cover"
  /\ IF \E l \in Lengths : Remaining[l] < 0
     THEN Fail("over_subscribed")
     ELSE /\ pc' = "offsets"
          /\ UNCHANGED <<status, setup, counts, sorted, i, max_cl, n_huffs_bits, cursor, huffs>>

Cover ==
  /\ pc = "cover"
  /\ IF \E l \in Lengths : Remaining[l] < 0 THEN Fail("over_subscribed")
     ELSE IF Remaining[MaxLen] # 0 THEN Fail("under_subscribed")
     ELSE /\ pc' = "offsets"
          /\ UNCHANGED <<status, setup, counts, sorted, i, max_cl, n_huffs_bits, cursor, huffs>>

(* Variant: unused symbols, of length 0, are counted.                      *)
CountFromZero(l) == SumFunctionOnSet(counts, 0..l - 1)

(* Calculate offsets and n_symbols.  NCodes stands for both limits that    *)
(* the code tests n_symbols against, 320 in the loop and 288 after it.     *)
CountBelow(l) == SumFunctionOnSet(counts, 1..l - 1)
Offsets ==
  /\ pc = "offsets"
  /\ offsets' = [l \in Lengths |-> IF l = 0 THEN 0 ELSE CountBelow(l)]
  /\ n_symbols' = CountBelow(MaxLen + 1)
  /\ IF n_symbols' > NCodes
     THEN pc' = "error" /\ status' = "internal" /\ UNCHANGED i
     ELSE pc' = "symbols" /\ i' = n_codes0 /\ UNCHANGED status
  /\ UNCHANGED <<setup, counts, symbols, max_cl, n_huffs_bits, cursor, huffs>>

(* Calculate symbols, one code at a time; offsets moves on as they fill.   *)
SortSymbol ==
  /\ pc = "symbols"
  /\ i < NCodes
  /\ LET l == code_lengths[i]
     IN  IF l = 0
         THEN i' = i + 1 /\ UNCHANGED <<pc, status, symbols, offsets>>
         ELSE IF offsets[l] >= NCodes
         THEN pc' = "error" /\ status' = "internal" /\ UNCHANGED <<symbols, offsets, i>>
         ELSE /\ symbols' = [symbols EXCEPT ![offsets[l]] = i - n_codes0]
              /\ offsets' = [offsets EXCEPT ![l] = @ + 1]
              /\ i' = i + 1
              /\ UNCHANGED <<pc, status>>
  /\ UNCHANGED <<setup, counts, n_symbols, max_cl, n_huffs_bits, cursor, huffs>>

(* Calculate min_cl and max_cl, and set up the loop over the symbols.      *)
Used == {l \in 1..MaxLen : counts[l] # 0}
Prepare ==
  /\ pc = "symbols"
  /\ i >= NCodes
  /\ IF Used \cap 1..Primary = {} THEN Fail("bad_minimum")
     ELSE LET m == Max(Used)
          IN  IF \/ n_symbols # offsets[m] \/ n_symbols # offsets[MaxLen]
                 \/ n_codes0 + symbols[0] >= NCodes
              THEN Fail("internal")
              ELSE /\ max_cl' = m
                   /\ n_huffs_bits' = IF m <= Primary THEN m ELSE Primary
                   /\ initial_high_bits' = IF m < Primary THEN 2^m ELSE 2^Primary
                   /\ prev_cl' = code_lengths[n_codes0 + symbols[0]]
                   /\ prev_redirect_key' = NoKey
                   /\ top' = 0
                   /\ next_top' = 2^Primary
                   /\ code' = 0
                   /\ i' = 0
                   /\ pc' = "code"
                   /\ UNCHANGED <<status, setup, counts, sorted, huffs>>

-----------------------------------------------------------------------------
(* The loop over the symbols.  First the code of the next symbol.          *)
SecondLevel(c, l) == (c \div 2^(l - Primary)) % 2^Primary

Canonical ==
  /\ pc = "code"
  /\ LET cl == code_lengths[n_codes0 + symbols[i]]
         c  == IF cl > prev_cl THEN code * 2^(cl - prev_cl) ELSE code
     IN  IF n_codes0 + symbols[i] >= NCodes \/ c >= 2^MaxLen
         THEN Fail("internal")
         ELSE /\ code' = c
              /\ prev_cl' = cl
              /\ pc' = IF cl > Primary /\ prev_redirect_key # SecondLevel(c, cl)
                       THEN "redirect" ELSE "put"
              /\ UNCHANGED <<status, setup, counts, sorted, i, max_cl, n_huffs_bits,
                             prev_redirect_key, top, next_top, initial_high_bits, huffs>>

(* The low w bits of v in the opposite order: the lowest becomes the high  *)
(* one.  reverse8 and its use reverse Primary bits.                        *)
Reversed(v, w) ==
  LET r[n \in 0..w] == IF n = 0 THEN 0 ELSE 2 * r[n - 1] + ((v \div 2^(n - 1)) % 2)
  IN  r[w]
Reverse(key) == Reversed(key, Primary)

(* The longest code of a second level table that starts with a code of     *)
(* length l: the one that uses up what remains.                            *)
Left(l) ==
  LET r[j \in l..MaxLen + 1] == IF j = l THEN 2^(l - Primary) ELSE 2 * (r[j - 1] - counts[j - 1])
  IN  r
LastLength(l) == {j \in l..MaxLen : Left(l)[j] <= counts[j]}

(* Variant: the next table starts where this one does.                    *)
NextTopStays(bits) == next_top

NextTop(bits) == next_top + 2^bits

(* A new second level table, and the first level entry that leads to it.   *)
(* "no_room" is the internal error of the test against 1234, which has a   *)
(* name of its own because only the sizes of the source decide it.         *)
Redirect ==
  /\ pc = "redirect"
  /\ IF LastLength(prev_cl) = {}
     THEN Fail("internal")
     ELSE LET bits == Min(LastLength(prev_cl)) - Primary
              key  == SecondLevel(code, prev_cl)
          IN  IF next_top + 2^bits > TableSize
              THEN Fail("no_room")
              ELSE /\ prev_redirect_key' = key
                   /\ initial_high_bits' = 2^bits
                   /\ top' = next_top
                   /\ next_top' = NextTop(bits)
                   /\ huffs' = [huffs EXCEPT ![Reverse(key)] = RedirectEntry(next_top, bits)]
                   /\ pc' = "put"
                   /\ UNCHANGED <<status, setup, counts, sorted, i, max_cl, n_huffs_bits,
                                  prev_cl, code>>

(* Variant: only the slot with the high bits zero.                         *)
OneSlotOfKey(key, cl) == {top + Reverse(key) \div 2^(Primary - cl)}

(* The slots of this table that a key of cl bits selects: one for each     *)
(* value of the bits above it.  The reversed key has cl bits.              *)
SlotsOfKey(key, cl) ==
  {top + ((h * 2^cl + (Reverse(key) \div 2^(Primary - cl))) % 2^Primary) :
     h \in 0..(initial_high_bits \div 2^cl) - 1}

(* The entry of a symbol names the symbol.  That it is the end of block, a *)
(* literal or at least base_symbol is not tested here: with the arguments  *)
(* of the five calls of init_huff it is one of the three.                  *)
Put ==
  /\ pc = "put"
  /\ LET cl  == IF prev_cl > Primary THEN prev_cl - Primary ELSE prev_cl
         key == IF prev_cl > Primary THEN code % 2^cl ELSE code
         to  == SlotsOfKey(key, cl)
     IN  IF key >= 2^Primary \/ counts[prev_cl] <= 0 \/ ~(to \subseteq Slots)
         THEN Fail("internal")
         ELSE /\ counts' = [counts EXCEPT ![prev_cl] = @ - 1]
              /\ huffs' = [s \in Slots |->
                             IF s \in to THEN SymbolEntry(symbols[i], cl) ELSE huffs[s]]
              /\ i' = i + 1
              /\ IF i + 1 >= n_symbols
                 THEN pc' = "done" /\ status' = "ok" /\ UNCHANGED code
                 ELSE IF code + 1 >= 2^MaxLen
                 THEN pc' = "error" /\ status' = "internal" /\ UNCHANGED code
                 ELSE pc' = "code" /\ code' = code + 1 /\ UNCHANGED status
              /\ UNCHANGED <<setup, sorted, max_cl, n_huffs_bits, prev_cl,
                             prev_redirect_key, top, next_top, initial_high_bits>>

Returned == pc \in {"done", "error"} /\ UNCHANGED vars

Next == \/ Count \/ Cover \/ Offsets \/ SortSymbol \/ Prepare
        \/ Canonical \/ Redirect \/ Put \/ Returned

Spec == Init /\ [][Next]_vars

-----------------------------------------------------------------------------
(* The lookup of decode_huffman_slow, for n_bits bits whose value is bits: *)
(* the symbol and how many bits it took, or that more bits are needed.     *)
More == [more |-> TRUE]
Got(s, n) == [more |-> FALSE, symbol |-> s, n |-> n]

Lookup(bits, n_bits) ==
  LET e == huffs[bits % 2^n_huffs_bits]
  IN  IF n_bits < e.n THEN More
      ELSE IF e.kind # "redirect" THEN IF e.kind = "symbol" THEN Got(e.symbol, e.n) ELSE Stale
      ELSE LET slot == e.top + ((bits \div 2^e.n) % 2^e.bits)
           IN  IF slot \notin Slots THEN Stale
               ELSE LET f == huffs[slot]
                    IN  IF n_bits - e.n < f.n THEN More
                        ELSE IF f.kind = "symbol" THEN Got(f.symbol, e.n + f.n)
                        ELSE Stale

(* RFC 1951, section 3.2.2, without a table: the codes are intervals of    *)
(* MaxLen bit numbers, laid out by length and then by symbol.              *)
InUse == {s \in 0..NCodes - 1 - n_codes0 : code_lengths[n_codes0 + s] # 0}
LengthOf(s) == code_lengths[n_codes0 + s]
Before(s) == {t \in InUse : \/ LengthOf(t) < LengthOf(s)
                            \/ LengthOf(t) = LengthOf(s) /\ t < s}
Share == [s \in 0..NCodes - 1 - n_codes0 |-> 2^(MaxLen - LengthOf(s))]
Weight(S) == SumFunctionOnSet(Share, S)

(* The first n bits of the stream, as the high bits of a MaxLen bit number. *)
FromStream(bits, n) == Reversed(bits, n) * 2^(MaxLen - n)

Reference(bits, n_bits) ==
  LET v == FromStream(bits, n_bits)
      S == {s \in InUse : /\ LengthOf(s) <= n_bits
                          /\ Weight(Before(s)) <= v
                          /\ v < Weight(Before(s)) + 2^(MaxLen - LengthOf(s))}
  IN  IF S = {} THEN More ELSE LET s == CHOOSE t \in S : TRUE IN Got(s, LengthOf(s))

-----------------------------------------------------------------------------
(* "Using decoder.bits's low n_huffs_bits as a table key is valid even if  *)
(* decoder.n_bits is less than n_huffs_bits": with any number of bits, and *)
(* whatever an earlier block left in the table, the lookup finds the       *)
(* symbol of the canonical code if the bits hold one, and asks for more    *)
(* bits otherwise.                                                         *)
LookupIsCanonical ==
  status = "ok" =>
    \A n \in 0..MaxLen : \A bits \in 0..2^n - 1 : Lookup(bits, n) = Reference(bits, n)

(* A table is built exactly for the complete codes.                        *)
AcceptsCompleteCodes ==
  /\ status = "ok" => Weight(InUse) = 2^MaxLen
  /\ status = "no_codes" => InUse = {}
  /\ status = "over_subscribed" => Weight(InUse) > 2^MaxLen
  /\ status = "under_subscribed" => InUse # {} /\ Weight(InUse) < 2^MaxLen

(* None of the tests that the bounds checker forces on init_huff can fail, *)
(* and no complete code lacks a code of at most Primary bits.              *)
NoInternalError == status \notin {"internal", "bad_minimum", "no_room"}

(* Insertion never writes a slot twice: the code is prefix free, the       *)
(* second level tables do not overlap, and a redirect stays.               *)
EachSlotOnce ==
  [][\A s \in Slots : huffs'[s] # huffs[s] => huffs[s] = Stale]_vars
=============================================================================
