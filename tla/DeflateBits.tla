---------------------------- MODULE DeflateBits ----------------------------
(***************************************************************************)
(* The input side of std/deflate: how decode_blocks, decode_uncompressed,  *)
(* init_dynamic_huffman, decode_huffman_fast and decode_huffman_slow share *)
(* decoder.bits and decoder.n_bits.                                        *)
(*                                                                         *)
(* The slow functions read a byte only when the bits they hold do not      *)
(* suffice, and may suspend there.  The fast loop loads two bytes whenever *)
(* it holds fewer than 15 bits, checks for 12 bytes once per iteration     *)
(* instead of suspending, and gives the bytes it did not need back with    *)
(* unread_u8.  Which symbols the bits stand for is HuffmanTable's subject; *)
(* here a table entry is its kind and how many bits it consumes.           *)
(***************************************************************************)
EXTENDS Integers

CONSTANTS
  Codes,      \* the code lengths of table entries: 1..15
  Extras,     \* the numbers of extra bits of table entries: 0..13
  MaxSrc,     \* bound on the bytes of one source buffer
  MaxRead     \* bound on the bytes of the whole stream

ASSUME DeflateBitsAssumption ==
  /\ Codes \subseteq 1..15
  /\ Extras \subseteq 0..15
  /\ MaxSrc \in Nat /\ MaxRead \in Nat

VARIABLES
  pc,       \* the field to read next; "caller" while the coroutine is suspended
  resume,   \* the coroutine suspension point
  status,   \* what the last call returned
  n_bits,   \* decoder.n_bits, or the local copy of it
  width,    \* how many low bits of decoder.bits may be set
  want,     \* bits that the field at pc needs, once that is known
  short,    \* bits that were not enough for the table lookup at pc
  avail,    \* in.src.available()
  got,      \* bytes read from this buffer: rptr_src - rstart_src
  eob,      \* decoder.end_of_block
  read,     \* ghost: bytes read from the stream, those given back not counted
  used      \* ghost: bits that the fields and symbols read so far consumed

vars == <<pc, resume, status, n_bits, width, want, short, avail, got, eob, read, used>>

(* Points that read a field of want bits, and points that look up a table. *)
Fields  == {"header", "counts", "clens", "cl_extra", "l_extra", "d_extra"}
Lookups == {"cl_symbol", "l_symbol", "l_redirect", "d_symbol", "d_redirect"}
FastPoints ==
  {"f_top", "f_l", "f_l_redirect", "f_l_extra", "f_d", "f_d_redirect", "f_d_extra"}
Resumable == Fields \cup Lookups \cup {"stored"}

-----------------------------------------------------------------------------
GoTo(where, n) ==
  /\ pc' = where
  /\ want' = n
  /\ short' = 0
  /\ UNCHANGED <<resume, status>>

Return(what) ==
  /\ pc' = "returned"
  /\ status' = what
  /\ UNCHANGED <<resume, want, short>>

Suspend ==
  /\ pc' = "caller"
  /\ resume' = pc
  /\ status' = "suspended"
  /\ UNCHANGED <<n_bits, width, want, short, avail, got, eob, read, used>>

(* bits |= read_u8 << n_bits; n_bits += 8.  bits is a u32.                 *)
Load ==
  /\ width' = IF n_bits + 8 <= 32 THEN n_bits + 8 ELSE 32
  /\ n_bits' = n_bits + 8
  /\ avail' = avail - 1
  /\ got' = got + 1
  /\ read' = read + 1

(* bits >>= n; n_bits -= n, for b bits of which w may be set.              *)
Consume(b, w, n) ==
  /\ n_bits' = b - n
  /\ width' = IF w >= n THEN w - n ELSE 0
  /\ used' = used + n

(* The test on entry to, and on exit from, the functions that use bits.    *)
Inconsistent == n_bits >= 8 \/ width > n_bits

-----------------------------------------------------------------------------
Init ==
  /\ pc = "caller" /\ resume = "header" /\ status = "not_called"
  /\ n_bits = 0 /\ width = 0 /\ want = 3 /\ short = 0
  /\ avail = 0 /\ got = 0 /\ eob = FALSE
  /\ read = 0 /\ used = 0

(* The caller calls decode with n more bytes of the stream.                *)
Call(n) ==
  /\ pc = "caller"
  /\ pc' = resume
  /\ avail' = n
  /\ got' = 0
  /\ UNCHANGED <<resume, status, n_bits, width, want, short, eob, read, used>>

(* in.src.read_u8?() in one of the slow functions: the bits are too few    *)
(* for a field, or for the table entry that the bits at hand select.  The  *)
(* code is prefix free: an entry found with more bits is longer than those *)
(* that did not suffice.                                                   *)
ReadU8 ==
  /\ \/ pc \in Fields /\ n_bits < want /\ UNCHANGED short
     \/ /\ pc \in Lookups
        /\ \E n \in Codes : n > short /\ n > n_bits
        /\ short' = n_bits
  /\ avail > 0
  /\ Load
  /\ UNCHANGED <<pc, resume, status, want, eob, used>>

ShortRead ==
  /\ \/ pc \in Fields /\ n_bits < want
     \/ pc \in Lookups /\ \E n \in Codes : n > short /\ n > n_bits
  /\ avail = 0
  /\ Suspend

(* A literal, a match or stored bytes do not fit the destination: the next *)
(* call brings another source buffer, whatever was left of this one.       *)
ShortWrite == pc \in {"l_symbol", "stored"} /\ short = 0 /\ Suspend

(* A field's bits are there; control goes on to where, which needs n bits. *)
TakeField(where, n) ==
  /\ n_bits >= want
  /\ Consume(n_bits, width, want)
  /\ GoTo(where, n)
  /\ UNCHANGED <<avail, got, eob, read>>

(* A table entry of m bits was found.                                      *)
TakeSymbol(m, where, n) ==
  /\ m > short
  /\ n_bits >= m
  /\ Consume(n_bits, width, m)
  /\ GoTo(where, n)
  /\ UNCHANGED <<avail, got, eob, read>>

-----------------------------------------------------------------------------
(* decode_blocks: the three bits of a block header.                        *)
HeaderStored  == pc = "header" /\ TakeField("uncompressed", 0)
HeaderFixed   == pc = "header" /\ TakeField("fast", 0)
HeaderDynamic == pc = "header" /\ TakeField("counts", 14)

(* Malformed data, or the end of the last block.                           *)
Stop ==
  /\ pc \in {"header", "counts", "stored", "f_l", "f_l_redirect", "f_d", "f_d_redirect"}
       \cup Lookups
  /\ Return("stopped")
  /\ UNCHANGED <<n_bits, width, avail, got, eob, read, used>>

(* Variant: the rest of the byte is kept.                                  *)
UncompressedKeepsBits ==
  /\ pc = "uncompressed"
  /\ GoTo("stored", 0)
  /\ UNCHANGED <<n_bits, width, used, avail, got, eob, read>>

(* decode_uncompressed drops the rest of the byte, then reads bytes: four  *)
(* for the length, and the data.                                           *)
Uncompressed ==
  /\ pc = "uncompressed"
  /\ IF Inconsistent
     THEN Return("inconsistent_n_bits") /\ UNCHANGED <<n_bits, width, used>>
     ELSE /\ n_bits' = 0
          /\ width' = 0
          /\ used' = used + n_bits
          /\ GoTo("stored", 0)
  /\ UNCHANGED <<avail, got, eob, read>>

StoredBytes(n) ==
  /\ pc = "stored"
  /\ n <= avail
  /\ avail' = avail - n
  /\ got' = got + n
  /\ read' = read + n
  /\ used' = used + 8 * n
  /\ UNCHANGED <<pc, resume, status, n_bits, width, want, short, eob>>

StoredShortRead == pc = "stored" /\ avail = 0 /\ Suspend

StoredEnd ==
  /\ pc = "stored"
  /\ GoTo("header", 3)
  /\ UNCHANGED <<n_bits, width, avail, got, eob, read, used>>

(* init_dynamic_huffman: the counts, the code lengths of the code length   *)
(* code, then the code lengths and repeat counts of the other two codes.   *)
Counts == pc = "counts" /\ TakeField("clens", 3)
CodeLength == pc = "clens" /\ (TakeField("clens", 3) \/ TakeField("cl_symbol", 0))
CodeLengthSymbol ==
  /\ pc = "cl_symbol"
  /\ \E m \in Codes : \/ TakeSymbol(m, "cl_symbol", 0)
                      \/ \E n \in {2, 3, 7} : TakeSymbol(m, "cl_extra", n)
                      \/ TakeSymbol(m, "fast", 0)
CodeLengthRepeat ==
  pc = "cl_extra" /\ (TakeField("cl_symbol", 0) \/ TakeField("fast", 0))

-----------------------------------------------------------------------------
(* decode_huffman_fast.                                                    *)
FastEntry ==
  /\ pc = "fast"
  /\ eob' = FALSE
  /\ IF Inconsistent THEN Return("inconsistent_n_bits") ELSE GoTo("f_top", 0)
  /\ UNCHANGED <<n_bits, width, avail, got, read, used>>

(* The loop's condition; 12 bytes are enough for one iteration.            *)
EnoughSource == avail >= 12

FastIterate ==
  /\ pc = "f_top"
  /\ EnoughSource
  /\ GoTo("f_l", 0)
  /\ UNCHANGED <<n_bits, width, avail, got, eob, read, used>>

FastLeave ==
  /\ pc = "f_top"
  /\ GoTo("f_rewind", 0)
  /\ UNCHANGED <<n_bits, width, avail, got, eob, read, used>>

(* Variant: loads two bytes whenever there seems to be room.               *)
FillAndConsumeEagerly(n) ==
  IF n_bits < 24
  THEN /\ Consume(n_bits + 16, IF n_bits + 16 <= 32 THEN n_bits + 16 ELSE 32, n)
       /\ avail' = avail - 2
       /\ got' = got + 2
       /\ read' = read + 2
  ELSE /\ Consume(n_bits, width, n)
       /\ UNCHANGED <<avail, got, read>>

(* "Ensure that we have at least 15 bits of input", then consume n.  The   *)
(* reads would suspend if the loop's condition did not prevent it.         *)
FillAndConsume(n) ==
  IF n_bits < 15
  THEN /\ Consume(n_bits + 16, IF n_bits + 16 <= 32 THEN n_bits + 16 ELSE 32, n)
       /\ avail' = avail - 2
       /\ got' = got + 2
       /\ read' = read + 2
  ELSE /\ Consume(n_bits, width, n)
       /\ UNCHANGED <<avail, got, read>>

FastTake(n, where, m, e) ==
  IF n_bits < 15 /\ avail < 2
  THEN Suspend
  ELSE /\ FillAndConsume(n)
       /\ GoTo(where, m)
       /\ eob' = e

(* An lcode symbol: a literal, the end of the block, a redirect to the     *)
(* second level table (at most once), or a base number and extra bits.     *)
FastLcode ==
  /\ pc \in {"f_l", "f_l_redirect"}
  /\ \E n \in Codes :
       \/ FastTake(n, "f_top", 0, eob)
       \/ FastTake(n, "f_rewind", 0, TRUE)
       \/ pc = "f_l" /\ FastTake(n, "f_l_redirect", 0, eob)
       \/ \E m \in Extras : FastTake(n, "f_l_extra", m, eob)

FastDcode ==
  /\ pc \in {"f_d", "f_d_redirect"}
  /\ \E n \in Codes :
       \/ pc = "f_d" /\ FastTake(n, "f_d_redirect", 0, eob)
       \/ \E m \in Extras : FastTake(n, "f_d_extra", m, eob)

(* Extra bits are read only if there are any.                              *)
FastExtra(from, where) ==
  /\ pc = from
  /\ IF want > 0
     THEN FastTake(want, where, 0, eob)
     ELSE GoTo(where, 0) /\ UNCHANGED <<n_bits, width, used, avail, got, read, eob>>

(* Give back the bytes that were loaded and not used.                      *)
UnreadU8 ==
  /\ pc = "f_rewind"
  /\ n_bits >= 8
  /\ n_bits' = n_bits - 8
  /\ IF got = 0
     THEN Return("invalid_io") /\ UNCHANGED <<avail, got, read>>
     ELSE /\ avail' = avail + 1
          /\ got' = got - 1
          /\ read' = read - 1
          /\ GoTo("f_rewind", 0)
  /\ UNCHANGED <<width, eob, used>>

(* this.bits = bits & ((1 << n_bits) - 1), and the test on exit.           *)
MaskedWidth == IF width <= n_bits THEN width ELSE n_bits

FastReturn ==
  /\ pc = "f_rewind"
  /\ n_bits < 8
  /\ width' = MaskedWidth
  /\ IF n_bits >= 8 \/ width' > n_bits
     THEN Return("inconsistent_n_bits")
     ELSE IF eob THEN GoTo("header", 3) ELSE GoTo("slow", 0)
  /\ UNCHANGED <<n_bits, avail, got, eob, read, used>>

-----------------------------------------------------------------------------
(* decode_huffman_slow.                                                    *)
SlowEntry ==
  /\ pc = "slow"
  /\ IF Inconsistent THEN Return("inconsistent_n_bits") ELSE GoTo("l_symbol", 0)
  /\ UNCHANGED <<n_bits, width, avail, got, eob, read, used>>

SlowLcode ==
  /\ pc \in {"l_symbol", "l_redirect"}
  /\ \E m \in Codes :
       \/ TakeSymbol(m, "l_symbol", 0)
       \/ TakeSymbol(m, "slow_exit", 0)
       \/ pc = "l_symbol" /\ TakeSymbol(m, "l_redirect", 0)
       \/ \E n \in Extras : TakeSymbol(m, "l_extra", n)

SlowLextra == pc = "l_extra" /\ TakeField("d_symbol", 0)

SlowDcode ==
  /\ pc \in {"d_symbol", "d_redirect"}
  /\ \E m \in Codes :
       \/ pc = "d_symbol" /\ TakeSymbol(m, "d_redirect", 0)
       \/ \E n \in Extras : TakeSymbol(m, "d_extra", n)

SlowDextra == pc = "d_extra" /\ TakeField("l_symbol", 0)

SlowExit ==
  /\ pc = "slow_exit"
  /\ eob' = TRUE
  /\ IF Inconsistent THEN Return("inconsistent_n_bits") ELSE GoTo("header", 3)
  /\ UNCHANGED <<n_bits, width, avail, got, read, used>>

Returned == pc = "returned" /\ UNCHANGED vars

-----------------------------------------------------------------------------
Blocks ==
  \/ HeaderStored \/ HeaderFixed \/ HeaderDynamic \/ Stop
  \/ Uncompressed \/ (\E n \in 1..4 : StoredBytes(n)) \/ StoredShortRead \/ StoredEnd
  \/ Counts \/ CodeLength \/ CodeLengthSymbol \/ CodeLengthRepeat

Fast ==
  \/ FastEntry \/ FastIterate \/ FastLeave
  \/ FastLcode \/ FastDcode
  \/ FastExtra("f_l_extra", "f_d") \/ FastExtra("f_d_extra", "f_top")
  \/ UnreadU8 \/ FastReturn

Slow == SlowEntry \/ SlowLcode \/ SlowLextra \/ SlowDcode \/ SlowDextra \/ SlowExit

Next ==
  \/ \E n \in 0..MaxSrc : read + n <= MaxRead /\ Call(n)
  \/ ReadU8 \/ ShortRead \/ ShortWrite \/ Blocks \/ Fast \/ Slow \/ Returned

Spec == Init /\ [][Next]_vars
-----------------------------------------------------------------------------
TypeOK ==
  /\ pc \in Resumable \cup FastPoints \cup
       {"caller", "returned", "uncompressed", "fast", "f_rewind", "slow", "slow_exit"}
  /\ resume \in Resumable \cup FastPoints
  /\ status \in {"not_called", "suspended", "stopped", "inconsistent_n_bits", "invalid_io"}
  /\ n_bits \in 0..32 /\ width \in 0..32 /\ want \in 0..15 /\ short \in 0..15
  /\ avail \in Nat /\ got \in Nat /\ eob \in BOOLEAN
  /\ read \in Nat /\ used \in Nat

(* Every bit of the stream is decoded once and in order: over suspensions, *)
(* the fast loop's read-ahead and rewind, and the change of function, the  *)
(* bits held are exactly those between the last one used and the last byte *)
(* read.  At most 30 of the 32 bits are in use, so none is shifted out.    *)
NoBitIsLost ==
  pc # "returned" =>
    /\ 8 * read = used + n_bits
    /\ pc # "f_rewind" => width = n_bits
    /\ n_bits <= 30

(* "internal error: inconsistent n_bits" and "invalid I/O operation" are   *)
(* never returned: fewer than 8 bits are held whenever a function starts   *)
(* or ends, and each byte given back was read from the same buffer.        *)
NoInternalError == status \notin {"inconsistent_n_bits", "invalid_io"}

(* decode_huffman_fast is never suspended, and the assertions it makes     *)
(* about in.src.available() hold, the one before each byte pair included.  *)
SourceNeeded(p) ==
  CASE p = "f_l" -> 12 [] p = "f_l_redirect" -> 10 [] p = "f_l_extra" -> 8
    [] p = "f_d" -> 6 [] p = "f_d_redirect" -> 4 [] p = "f_d_extra" -> 2
    [] OTHER -> 0

FastLoopHasSource ==
  /\ resume \notin FastPoints
  /\ avail >= SourceNeeded(pc)

(* How many bits are held at each point.                                   *)
At == IF pc = "caller" THEN resume ELSE pc
BitsPerPoint ==
  /\ At \in Fields => n_bits <= want + 7
  /\ At \in Lookups => n_bits <= short + 8
  /\ At \in {"uncompressed", "fast", "slow", "slow_exit"} => n_bits <= 7
  /\ At = "stored" => n_bits = 0
  /\ At \in FastPoints \cup {"f_rewind"} => n_bits <= 7 + 8 * got
  /\ At = "f_rewind" => n_bits <= width

(* The inductive invariant: wherever the coroutine is suspended, a slow    *)
(* function holds less than a byte more than it needs, and the fast loop   *)
(* less than a byte more than it read from this buffer.                    *)
BitAccounting ==
  TypeOK /\ NoBitIsLost /\ NoInternalError /\ FastLoopHasSource /\ BitsPerPoint

(* A stored block starts at a byte boundary of the stream, and less than a *)
(* byte was skipped to get there.                                          *)
StoredIsAligned ==
  [][pc = "uncompressed" => used' - used < 8 /\ used' = 8 * read]_vars
=============================================================================
