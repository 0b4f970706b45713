------------------------------- MODULE GifLzw -------------------------------
(***************************************************************************)
(* lzw_decoder.decode of std/gif: codes of growing width read from bytes,  *)
(* the dictionary as prefix and suffix tables, a stack on which a chain of *)
(* prefixes is turned round, and suspensions in the middle of a code and   *)
(* of an expansion.  The tables keep what codes before a clear code, or an *)
(* earlier frame, put there.                                               *)
(***************************************************************************)
EXTENDS Integers, Sequences

CONSTANTS
  LiteralWidths,  \* the values of literal_width: 2..8
  MaxWidth,       \* the largest width: 12; the tables have 2^MaxWidth slots
  MaxSrc,         \* bound on the bytes of one source buffer
  MaxDst,         \* bound on the bytes of one destination buffer
  MaxCodes        \* bound on the codes of the stream

Pow2(n) == 2^n

(* The facts about powers are true of every MaxWidth; the proofs take them *)
(* from here.                                                              *)
ASSUME GifLzwAssumption ==
  /\ MaxWidth \in Nat
  /\ LiteralWidths \subseteq 1..MaxWidth - 1
  /\ MaxSrc \in Nat /\ MaxDst \in Nat /\ MaxCodes \in Nat
  /\ \A n \in 0..MaxWidth : Pow2(n) \in Nat /\ Pow2(n) >= 1
  /\ \A n \in 0..MaxWidth, m \in 0..MaxWidth : n < m => 2 * Pow2(n) <= Pow2(m)

VARIABLES
  pc,         \* "caller", "read", "write", "chain", "copy" or "returned"
  resume,     \* the suspension point: "read", "write" or "copy"
  status,     \* what the last call returned
  literal_width,
  save_code, prev_code, width, n_bits, code, s, c,   \* locals of decode
  suffixes, prefixes, stack,
  entries,    \* ghost: the strings of the dictionary's codes, from end_code + 1
  avail,      \* in.src.available()
  space,      \* in.dst.available()
  text,       \* ghost: what was written to dst
  count       \* ghost: how many codes were read

vars == <<pc, resume, status, literal_width, save_code, prev_code, width, n_bits,
          code, s, c, suffixes, prefixes, stack, entries, avail, space, text, count>>
tables == <<suffixes, prefixes, entries>>
buffers == <<avail, space>>

Last == Pow2(MaxWidth) - 1
Slots == 0..Last
clear_code == Pow2(literal_width)
end_code == clear_code + 1

(* What a code stands for, and what the code before stands for: nothing    *)
(* after a clear code.                                                     *)
String(k) == IF k < clear_code THEN <<k>> ELSE entries[k - end_code]
PrevString == IF save_code = end_code THEN << >> ELSE String(prev_code)

-----------------------------------------------------------------------------
(* The tables are zero at first; MaxCodes allows for codes before a clear. *)
Init ==
  /\ pc = "caller" /\ resume = "read" /\ status = "not_called"
  /\ literal_width \in LiteralWidths
  /\ save_code = end_code
  /\ prev_code = 0
  /\ width = literal_width + 1
  /\ n_bits = 0 /\ code = 0 /\ s = 0 /\ c = 0
  /\ suffixes = [k \in Slots |-> 0]
  /\ prefixes = [k \in Slots |-> 0]
  /\ stack = [k \in Slots |-> 0]
  /\ entries = << >>
  /\ avail = 0 /\ space = 0
  /\ text = << >> /\ count = 0

Call(n, m) ==
  /\ pc = "caller"
  /\ pc' = resume
  /\ avail' = n
  /\ space' = m
  /\ UNCHANGED <<resume, status, literal_width, save_code, prev_code, width, n_bits,
                 code, s, c, tables, stack, text, count>>

Suspend(why) ==
  /\ pc' = "caller"
  /\ resume' = pc
  /\ status' = why

Return(what) ==
  /\ pc' = "returned"
  /\ status' = what
  /\ UNCHANGED resume

GoTo(where) ==
  /\ pc' = where
  /\ UNCHANGED <<resume, status>>

ReadU8 ==
  /\ pc = "read"
  /\ n_bits < width
  /\ IF avail = 0
     THEN Suspend("short_read") /\ UNCHANGED <<n_bits, avail>>
     ELSE n_bits' = n_bits + 8 /\ avail' = avail - 1 /\ GoTo("read")
  /\ UNCHANGED <<literal_width, save_code, prev_code, width, code, s, c, tables, stack,
                 space, text, count>>

(* The next code is x, and there are bits enough for it.                   *)
ReadCode(x) ==
  /\ pc = "read"
  /\ n_bits >= width
  /\ x < Pow2(width)
  /\ count' = count + 1
  /\ n_bits' = n_bits - width
  /\ code' = x
  /\ UNCHANGED <<literal_width, suffixes, prefixes, stack, buffers, text>>

Literal(x) ==
  /\ ReadCode(x)
  /\ x < clear_code
  /\ GoTo("write")
  /\ UNCHANGED <<entries, save_code, prev_code, width, s, c>>

(* Variant: the previous code survives, and with it the dictionary.        *)
ClearKeepsSaveCode ==
  /\ ReadCode(clear_code)
  /\ prev_code' = 0
  /\ width' = literal_width + 1
  /\ entries' = << >>
  /\ GoTo("read")
  /\ UNCHANGED <<save_code, s, c>>

Clear ==
  /\ ReadCode(clear_code)
  /\ save_code' = end_code
  /\ prev_code' = 0
  /\ width' = literal_width + 1
  /\ entries' = << >>
  /\ GoTo("read")
  /\ UNCHANGED <<s, c>>

End ==
  /\ ReadCode(end_code)
  /\ Return("ok")
  /\ UNCHANGED <<entries, save_code, prev_code, width, s, c>>

(* Variant: the code about to be defined is looked up too.                 *)
BackReferenceToUndefined(x) ==
  /\ ReadCode(x)
  /\ x > end_code
  /\ x <= save_code
  /\ s' = IF x = save_code THEN Last - 1 ELSE Last
  /\ c' = x
  /\ GoTo("chain")
  /\ UNCHANGED <<entries, save_code, prev_code, width>>

(* A code of the dictionary, or the one that it is about to define.        *)
BackReference(x) ==
  /\ ReadCode(x)
  /\ x > end_code
  /\ x <= save_code
  /\ s' = IF x = save_code THEN Last - 1 ELSE Last
  /\ c' = IF x = save_code THEN prev_code ELSE x
  /\ GoTo("chain")
  /\ UNCHANGED <<entries, save_code, prev_code, width>>

OutOfRange(x) ==
  /\ ReadCode(x)
  /\ x > end_code
  /\ x > save_code
  /\ Return("out_of_range")
  /\ UNCHANGED <<entries, save_code, prev_code, width, s, c>>

(* Variant: one code too late.                                             *)
WidenedLate == IF save_code = Pow2(width) /\ width < MaxWidth THEN width + 1 ELSE width

(* The width for codes up to save_code + 1.                                *)
Widened == IF save_code + 1 = Pow2(width) /\ width < MaxWidth THEN width + 1 ELSE width

(* Variant: prev_code is assigned before it is saved.                      *)
PrefixIsCode == code

Prefix == prev_code

(* What follows the output of a code: the dictionary's next entry ends in  *)
(* the byte last, and the width follows save_code.                         *)
Save(last) ==
  /\ IF save_code <= Last
     THEN /\ suffixes' = [suffixes EXCEPT ![save_code] = last]
          /\ prefixes' = [prefixes EXCEPT ![save_code] = Prefix]
          /\ entries' = IF save_code = end_code THEN entries ELSE Append(entries, Append(PrevString, last))
          /\ save_code' = save_code + 1
          /\ width' = Widened
     ELSE UNCHANGED <<tables, save_code, width>>
  /\ prev_code' = code

WriteU8 ==
  /\ pc = "write"
  /\ IF space = 0
     THEN Suspend("short_write") /\ UNCHANGED <<tables, save_code, width, prev_code, space, text>>
     ELSE /\ text' = Append(text, code)
          /\ space' = space - 1
          /\ Save(code)
          /\ GoTo("read")
  /\ UNCHANGED <<literal_width, n_bits, code, s, c, stack, avail, count>>

(* Follow the prefixes, from the last byte to the first.                   *)
Chain ==
  /\ pc = "chain"
  /\ c >= clear_code
  /\ stack' = [stack EXCEPT ![s] = suffixes[c]]
  /\ IF s = 0
     THEN Return("cyclical") /\ UNCHANGED <<s, c>>
     ELSE s' = s - 1 /\ c' = prefixes[c] /\ GoTo("chain")
  /\ UNCHANGED <<literal_width, save_code, prev_code, width, n_bits, code, tables,
                 buffers, text, count>>

ChainEnd ==
  /\ pc = "chain"
  /\ c < clear_code
  /\ stack' = [k \in Slots |-> IF k = s \/ (k = Last /\ code = save_code) THEN c ELSE stack[k]]
  /\ GoTo("copy")
  /\ UNCHANGED <<literal_width, save_code, prev_code, width, n_bits, code, s, c, tables,
                 buffers, text, count>>

(* copy_from_slice of stack[s:], as much as there is space for.            *)
Copied == IF space <= Last + 1 - s THEN space ELSE Last + 1 - s

Remainder == (s + Copied) % (Last + 1)

Copy ==
  /\ pc = "copy"
  /\ text' = text \o [k \in 1..Copied |-> stack[s + k - 1]]
  /\ space' = space - Copied
  /\ IF Copied = Last + 1 - s
     THEN Save(c) /\ GoTo("read") /\ UNCHANGED s
     ELSE /\ s' = Remainder
          /\ Suspend("short_write")
          /\ UNCHANGED <<tables, save_code, width, prev_code>>
  /\ UNCHANGED <<literal_width, n_bits, code, c, stack, avail, count>>

Returned == pc = "returned" /\ UNCHANGED vars

(* The stream has at most MaxCodes codes before its end code.              *)
Codes ==
  \/ /\ count < MaxCodes
     /\ (\E x \in Slots : Literal(x) \/ BackReference(x) \/ OutOfRange(x)) \/ Clear
  \/ End

Next ==
  \/ \E n \in 0..MaxSrc, m \in 0..MaxDst : Call(n, m)
  \/ ReadU8 \/ Codes \/ WriteU8 \/ Chain \/ ChainEnd \/ Copy
  \/ Returned

Spec == Init /\ [][Next]_vars
-----------------------------------------------------------------------------
(* A code that the dictionary, filled up to code k - 1, gives a meaning.   *)
Defined(k) == 0..clear_code - 1 \cup end_code + 1..k - 1

TypeOK ==
  /\ pc \in {"caller", "read", "write", "chain", "copy", "returned"}
  /\ resume \in {"read", "write", "copy"}
  /\ status \in {"not_called", "short_read", "short_write", "ok", "out_of_range", "cyclical"}
  /\ literal_width \in LiteralWidths
  /\ save_code \in end_code..Last + 1
  /\ prev_code \in Slots /\ code \in Slots /\ s \in Slots /\ c \in Slots
  /\ width \in 1..MaxWidth
  /\ n_bits \in Nat /\ avail \in Nat /\ space \in Nat /\ count \in Nat
  /\ suffixes \in [Slots -> Slots] /\ prefixes \in [Slots -> Slots]
  /\ stack \in [Slots -> Slots]

(* The prefixes of the dictionary lead to smaller codes with a meaning, so *)
(* a chain ends at a literal and never visits what was defined before the  *)
(* last clear code; the stack has room for it, since s >= c holds along it. *)
At == IF pc = "caller" THEN resume ELSE pc
DictionaryDescends ==
  /\ \A k \in end_code + 1..save_code - 1 :
       prefixes[k] \in Defined(k) /\ suffixes[k] < clear_code
  /\ save_code > end_code => prev_code \in Defined(save_code)
CodeDescends ==
  /\ At = "write" => code < clear_code
  /\ At \in {"chain", "copy"} => save_code > end_code /\ code \in Defined(save_code + 1)
  /\ At = "chain" => c \in Defined(save_code) /\ c <= s
  /\ At = "copy" => c < clear_code
ChainsDescend == DictionaryDescends /\ CodeDescends

(* "LZW prefix chain is cyclical" is never returned.                       *)
NotCyclical == status # "cyclical"

(* The codes up to save_code are as long as the bits read for them, fewer  *)
(* than 8 bits are held when a code starts, and no bit leaves the u32.     *)
WidthFits ==
  /\ save_code < Pow2(width) \/ width = MaxWidth
  /\ n_bits < width + 8
  /\ At # "read" => n_bits < 8

(* The inductive invariant.                                                *)
LzwInv == TypeOK /\ ChainsDescend /\ NotCyclical /\ WidthFits

-----------------------------------------------------------------------------
(* What the code read last stands for; it may be the one it defines.       *)
CodeString ==
  IF code = save_code THEN Append(PrevString, PrevString[1]) ELSE String(code)

(* A code is decoded, but its output is not complete and it is not saved.  *)
Busy == At \in {"write", "chain", "copy"}
Dict ==
  IF Busy /\ save_code \in end_code + 1..Last
  THEN Append(entries, Append(PrevString, CodeString[1])) ELSE entries
OnStack == [k \in 1..Last + 1 - s |-> stack[s + k - 1]]

(* The tables hold the strings of the codes since the last clear code; the *)
(* part of a chain that is on the stack and the string of the code that    *)
(* the chain has come to are the string of the code it started from.       *)
EntriesMatch ==
  /\ entries \in Seq(Seq(Slots))
  /\ Len(entries) = IF save_code = end_code THEN 0 ELSE save_code - 1 - end_code
  /\ \A k \in 1..Len(entries) :
       entries[k] = Append(String(prefixes[end_code + k]), suffixes[end_code + k])
Top == IF code = save_code THEN Last - 1 ELSE Last
ChainMatches ==
  /\ At = "chain" =>
       /\ s <= Top
       /\ (IF code = save_code THEN PrevString ELSE String(code))
            = String(c) \o [k \in 1..Top - s |-> stack[s + k]]
  /\ At = "copy" => c = CodeString[1]
StringsInv ==
  /\ text \in Seq(Slots)
  /\ EntriesMatch
  /\ ChainMatches
  /\ status \in {"ok", "out_of_range", "cyclical"} => pc = "returned"

(* The state of the abstract decoder.                                      *)
Previous == IF Busy THEN CodeString ELSE PrevString
Pending ==
  CASE At \in {"write", "chain"} -> CodeString
    [] At = "copy" -> OnStack
    [] OTHER -> << >>
Verdict == IF status \in {"ok", "out_of_range", "cyclical"} THEN status ELSE "running"

Abstract == INSTANCE Lzw WITH
  lw <- literal_width, dict <- Dict, prev <- Previous, pending <- Pending, status <- Verdict

(* The decoder writes what the codes stand for, however the source and the *)
(* destination are cut into buffers and whatever the tables held before.   *)
ImplementsLzw == Abstract!Spec
=============================================================================
