---------------------------- MODULE HuffmanSize ----------------------------
(***************************************************************************)
(* How large a table init_huff of std/deflate can build.  The source says  *)
(* "replace the magic 'big enough' 1234 with something more principled,    *)
(* perhaps discovered via an exhaustive search": this module is that       *)
(* search, with the sizes of the source.                                   *)
(*                                                                         *)
(* Only the number of codes of each length matters.  A step chooses how    *)
(* many codes have the next length, and follows which of them open and     *)
(* fill second level tables when init_huff inserts them in order.  The     *)
(* code sizes a second level table when it opens it, by looking ahead in   *)
(* counts; here it is counted when it is full, which is the same size.     *)
(***************************************************************************)
EXTENDS Integers, FiniteSets

CONSTANTS
  Primary,     \* bits of a first level key: 9
  MaxLen,      \* the longest code: 15
  MaxSymbols,  \* symbols of a code: n_lit <= 286
  LargestTable,  \* slots that suffice: 852
  TableSize    \* slots of huffs[which]: 1234

ASSUME HuffmanSizeAssumption ==
  /\ Primary \in Nat /\ MaxLen \in Nat /\ MaxSymbols \in Nat /\ TableSize \in Nat
  /\ 0 < Primary /\ Primary <= MaxLen
  /\ LargestTable \in 0..TableSize

VARIABLES
  len,       \* the code length chosen last
  symbols,   \* symbols with at most len bits, at least
  remaining, \* codes of length len that are not used
  next_top,  \* slots of the first level table and the full second level tables
  open       \* codes of length len missing from the open second level table, or 0

vars == <<len, symbols, remaining, next_top, open>>

Init ==
  /\ len = 0
  /\ symbols = 0
  /\ remaining = 1
  /\ next_top = 2^Primary
  /\ open = 0

(* Variant: the largest n_lit that five bits encode, 288, is accepted.     *)
WithinEncoding(n) == n <= MaxSymbols + 2

(* "bad literal/length code count": a code has at most MaxSymbols symbols. *)
WithinLimit(n) == n <= MaxSymbols

(* The codes of at most Primary bits leave r codes of that length.  Codes  *)
(* that cover the others number at least the one bits of 2^Primary - r;    *)
(* assuming no more than that keeps every code, as MaxSymbols only limits. *)
OneBits(v) == Cardinality({b \in 0..Primary : (v \div 2^b) % 2 = 1})
FirstLevel(r) ==
  /\ len = 0
  /\ r <= 2^Primary
  /\ WithinLimit(OneBits(2^Primary - r) + 2 * r)
  /\ len' = Primary
  /\ symbols' = OneBits(2^Primary - r)
  /\ remaining' = r
  /\ UNCHANGED <<next_top, open>>

(* n codes have length len + 1.  init_huff accepts only complete codes: a  *)
(* code that is left over needs at least two symbols below it.             *)
Extends(n) ==
  /\ n <= 2 * remaining
  /\ WithinLimit(symbols + n + 2 * (2 * remaining - n))
  /\ len + 1 = MaxLen => n = 2 * remaining
  /\ len' = len + 1
  /\ symbols' = symbols + n
  /\ remaining' = 2 * remaining - n

(* The open table does not get full, whatever its final size.              *)
StaysOpen(n) ==
  /\ Primary <= len /\ len < MaxLen
  /\ n < 2 * open
  /\ Extends(n)
  /\ open' = 2 * open - n
  /\ UNCHANGED next_top

(* The open table gets full; the other codes fill tables of 2^(len' -      *)
(* Primary) slots, the last of which may stay open.                        *)
Fills(n) ==
  /\ Primary <= len /\ len < MaxLen
  /\ n >= 2 * open
  /\ Extends(n)
  /\ LET slots == 2^(len + 1 - Primary)
         more  == n - 2 * open
         full  == (more \div slots) + (IF open > 0 THEN 1 ELSE 0)
     IN  /\ next_top' = next_top + full * slots
         /\ open' = IF more % slots = 0 THEN 0 ELSE slots - (more % slots)

Done == remaining = 0 \/ len = MaxLen

Next ==
  \/ \E r \in 0..2^Primary : FirstLevel(r)
  \/ ~Done /\ \E n \in 0..2 * open - 1 : StaysOpen(n)
  \/ ~Done /\ \E n \in 2 * open..2 * remaining : Fills(n)
  \/ Done /\ UNCHANGED vars

Spec == Init /\ [][Next]_vars
-----------------------------------------------------------------------------
(* The table never needs more than LargestTable slots: the internal error  *)
(* "top + (1 << tmp) > 1234" cannot occur, and 852 slots would do.         *)
Enough == next_top <= LargestTable
=============================================================================
