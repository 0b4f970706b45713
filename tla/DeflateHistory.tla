--------------------------- MODULE DeflateHistory ---------------------------
(***************************************************************************)
(* The output side of std/deflate: decoder.decode, its history ring, and   *)
(* the resumable copies of decode_uncompressed, decode_huffman_fast and    *)
(* decode_huffman_slow.                                                    *)
(*                                                                         *)
(* The decoder is a coroutine.  It writes to a buffer that the caller owns *)
(* and may replace whenever a call returns a suspension, so a match can    *)
(* refer to bytes that only the ring still holds, partly to the ring and   *)
(* partly to the buffer, and a copy can stop in the middle of either part. *)
(* Huffman decoding is abstracted to the symbols it yields (their bits are *)
(* the subject of DeflateBits); src is "a symbol can be read" or not.      *)
(***************************************************************************)
EXTENDS Integers, Sequences, FiniteSets

CONSTANTS
  Bytes,       \* the values of an output byte
  R,           \* size of the history ring: 0x8000 in the code
  MaxLength,   \* the longest match: 258 in the code
  Lengths,     \* the match lengths the tables hold: 3..258
  MaxStored,   \* bound on the bytes one copy_from_reader32 moves
  MaxCap,      \* bound on the space of one destination buffer
  MaxText      \* bound on the text after which only the end may be read

ASSUME DeflateHistoryAssumption ==
  /\ R \in Nat \ {0}
  /\ MaxLength \in Nat \ {0} /\ MaxLength < R
  /\ Lengths \subseteq 1..MaxLength
  /\ MaxStored \in Nat \ {0} /\ MaxCap \in Nat /\ MaxText \in Nat
  /\ Bytes # {}

VARIABLES
  pc,             \* where the coroutine is; "caller" while it is suspended
  resume,         \* the coroutine suspension point
  status,         \* what the last call returned
  history,        \* decoder.history
  history_index,  \* decoder.history_index
  avail,          \* in.dst.available()
  since,          \* in.dst.since_mark().length()
  final,          \* decode_blocks: the local final
  length,         \* decode_*: the local length
  distance,       \* decode_huffman_*: dist_minus_1 + 1
  hlen, hdist,    \* decode_huffman_slow: the locals hlen and hdist
  literal,        \* decode_huffman_slow: the byte that write_u8 waits to write
  out,            \* ghost: every byte written so far, over all buffers
  start,          \* ghost: Len(out) when the current symbol was read
  stream,         \* ghost: the symbols completely expanded
  symbol          \* ghost: the symbol being expanded

coroutine == <<pc, resume, status>>
ring      == <<history, history_index>>
buffer    == <<avail, since, out>>
locals    == <<final, length, distance, hlen, hdist, literal>>
ghosts    == <<start, stream, symbol>>
vars      == <<coroutine, ring, buffer, locals, ghosts>>

Minimum(a, b) == IF a <= b THEN a ELSE b

Runs == UNION {[1..n -> Bytes] : n \in 1..MaxStored}
LiteralSymbol(bytes) == [kind |-> "literal", bytes |-> bytes]
MatchSymbol(l, d) == [kind |-> "match", length |-> l, distance |-> d]
Symbols == {LiteralSymbol(bytes) : bytes \in Runs}
             \cup {MatchSymbol(l, d) : l \in Lengths, d \in 1..R}
NoSymbol == [kind |-> "none"]

Resumable == {"blocks", "stored", "slow", "literal", "match", "hist_end",
              "hist_start"}
Running   == Resumable \cup {"fast", "fast_dst", "dst"}

-----------------------------------------------------------------------------
(* x & 0x7FFF                                                              *)
Mask(x) == x % R

(* The text t after n more bytes that start at ring slot Mask(at) and do   *)
(* not run past the ring's end: writer1.copy_from_slice32.                 *)
CopyFromSlice(t, at, n) ==
  [i \in 1..Len(t) + n |->
     IF i <= Len(t) THEN t[i] ELSE history[Mask(at) + (i - Len(t) - 1)]]

(* How many bytes copy_from_slice32(s:history[at & 0x7FFF:], length:n) can *)
(* copy: limited by n, by the end of the ring and by the buffer.           *)
SliceCount(at, n, space) == Minimum(n, Minimum(R - Mask(at), space))

(* Variant: the bytes just written are not there yet to be copied.         *)
CopyFromHistoryNoOverlap(t, d, n) ==
  [i \in 1..Len(t) + n |->
     IF i <= Len(t) THEN t[i]
     ELSE t[Len(t) - d + 1 + Minimum(i - Len(t) - 1, d - 1)]]

(* The text t after the byte by byte copy of n bytes from d bytes back.    *)
(* The source may overlap what is being written.                           *)
CopyFromHistory(t, d, n) ==
  [i \in 1..Len(t) + n |->
     IF i <= Len(t) THEN t[i] ELSE t[Len(t) - d + 1 + ((i - Len(t) - 1) % d)]]

-----------------------------------------------------------------------------
(* decoder.decode, after decode_blocks suspends: append the n bytes that   *)
(* were written since the mark, the tail of t, to the ring.                *)
AppendedHistory(t, n) ==
  LET at      == Mask(history_index)
      written == [i \in 0..n - 1 |-> t[Len(t) - n + i + 1]]
      copied  == Minimum(n, R - at)
  IN  IF n >= R
      THEN [j \in 0..R - 1 |-> written[n - R + j]]
      ELSE [j \in 0..R - 1 |->
              IF at <= j /\ j < at + copied THEN written[j - at]
              ELSE IF j < n - copied THEN written[copied + j]
              ELSE history[j]]

(* Variant: the index forgets that the ring was full.                      *)
AppendedIndexForgetsFull(n) ==
  IF n >= R THEN R ELSE Mask(history_index) + n

AppendedIndex(n) ==
  LET at      == Mask(history_index)
      copied  == Minimum(n, R - at)
      full    == IF history_index >= R THEN R ELSE 0
  IN  IF n >= R THEN R
      ELSE IF copied < n THEN (n - copied) + R
      ELSE at + copied + full

(* A yield inside decode_blocks, with t and n the text and the length of   *)
(* since_mark() at that point: decode appends to the ring and yields.      *)
Yield(why, at, t, n) ==
  /\ history' = AppendedHistory(t, n)
  /\ history_index' = AppendedIndex(n)
  /\ status' = why
  /\ resume' = at
  /\ pc' = "caller"

GoTo(where) ==
  /\ pc' = where
  /\ UNCHANGED <<resume, status, ring>>

Return(what) ==
  /\ pc' = "returned"
  /\ status' = what
  /\ UNCHANGED <<resume, ring>>

(* n bytes are written to the buffer; the text becomes t.                  *)
Write(t, n) ==
  /\ out' = t
  /\ avail' = avail - n
  /\ since' = since + n

(* Ghosts: a symbol is read from src; a symbol is completely expanded.     *)
Begin(s) ==
  /\ symbol' = s
  /\ start' = Len(out)
  /\ UNCHANGED stream

Complete(s, t) ==
  /\ symbol' = NoSymbol
  /\ stream' = Append(stream, s)
  /\ start' = Len(t)

-----------------------------------------------------------------------------
Init ==
  /\ pc = "caller" /\ resume = "blocks" /\ status = "not_called"
  /\ history = [j \in 0..R - 1 |-> CHOOSE b \in Bytes : TRUE]
  /\ history_index = 0
  /\ avail = 0 /\ since = 0
  /\ final = FALSE
  /\ length = 0 /\ distance = 0 /\ hlen = 0 /\ hdist = 0
  /\ literal = << >>
  /\ out = << >> /\ start = 0 /\ stream = << >> /\ symbol = NoSymbol

(* The caller calls decode with any buffer, perhaps one without space.     *)
(* The while loop of decode marks the buffer and resumes decode_blocks.    *)
Call(cap) ==
  /\ pc = "caller"
  /\ avail' = cap
  /\ since' = 0
  /\ pc' = resume
  /\ UNCHANGED <<resume, status, ring, out, locals, ghosts>>

(* Points that read src: the reader has too few bytes, or the stream is    *)
(* malformed or truncated.                                                 *)
ShortRead ==
  /\ pc \in {"blocks", "slow"}
  /\ Yield("short_read", pc, out, since)
  /\ UNCHANGED <<buffer, locals, ghosts>>

BadStream ==
  /\ pc \in {"blocks", "fast", "slow"}
  /\ Return("bad_stream")
  /\ UNCHANGED <<buffer, locals, ghosts>>

(* decode_blocks: read a block header.  A stored block has a length, here  *)
(* of at most MaxText; the others run decode_huffman_fast first.           *)
StoredHeader(f, n) ==
  /\ pc = "blocks"
  /\ ~final
  /\ final' = f
  /\ length' = n
  /\ GoTo("stored")
  /\ UNCHANGED <<buffer, distance, hlen, hdist, literal, ghosts>>

HuffmanHeader(f) ==
  /\ pc = "blocks"
  /\ ~final
  /\ final' = f
  /\ GoTo("fast")
  /\ UNCHANGED <<buffer, length, distance, hlen, hdist, literal, ghosts>>

DecodeDone ==
  /\ pc = "blocks"
  /\ final
  /\ Return("ok")
  /\ UNCHANGED <<buffer, locals, ghosts>>

(* decode_uncompressed: one copy_from_reader32, of the bytes src has.      *)
Stored(bytes) ==
  LET n == Len(bytes) IN
  /\ pc = "stored"
  /\ n <= Minimum(length, avail)
  /\ Write(out \o bytes, n)
  /\ IF n = 0 THEN UNCHANGED ghosts
              ELSE Complete(LiteralSymbol(bytes), out \o bytes)
  /\ IF length <= n
     THEN length' = 0 /\ GoTo("blocks")
     ELSE /\ length' = length - n
          /\ Yield(IF avail - n = 0 THEN "short_write" ELSE "short_read",
                   "stored", out \o bytes, since + n)
  /\ UNCHANGED <<final, distance, hlen, hdist, literal>>

(* The end-of-block code, in either loop.                                  *)
EndOfBlock ==
  /\ pc \in {"fast", "slow"}
  /\ GoTo("blocks")
  /\ UNCHANGED <<buffer, locals, ghosts>>

-----------------------------------------------------------------------------
(* Variant: a loop condition that is off by one.                           *)
FastSpaceOffByOne == avail >= MaxLength - 1

(* decode_huffman_fast: an iteration needs MaxLength bytes of space.       *)
FastSpace == avail >= MaxLength

FastLiteral(b) ==
  /\ pc = "fast"
  /\ FastSpace
  /\ Write(Append(out, b), 1)
  /\ Complete(LiteralSymbol(<<b>>), Append(out, b))
  /\ UNCHANGED <<coroutine, ring, locals>>

(* Copies hn bytes from the ring, in two parts if they wrap around, and    *)
(* leaves the other l - hn for a copy within the buffer.                   *)
FastMatch(l, d) ==
  LET hd == d - since
      hn == Minimum(l, hd)
      n1 == SliceCount(history_index - hd, hn, avail)
      t1 == CopyFromSlice(out, history_index - hd, n1)
      n2 == SliceCount(0, hn - n1, avail - n1)
      t2 == CopyFromSlice(t1, 0, n2)
  IN
  /\ pc = "fast"
  /\ FastSpace
  /\ distance' = d
  /\ UNCHANGED <<final, hlen, hdist, literal>>
  /\ \/ /\ d <= since
        /\ length' = l
        /\ Begin(MatchSymbol(l, d))
        /\ GoTo("fast_dst")
        /\ UNCHANGED buffer
     \/ /\ d > since
        /\ history_index < hd
        /\ length' = l - hn
        /\ Complete(MatchSymbol(l, d), out)
        /\ Return("bad_distance")
        /\ UNCHANGED buffer
     \/ /\ d > since
        /\ history_index >= hd
        /\ length' = l - hn
        /\ Write(t2, n1 + n2)
        /\ \/ /\ length' = 0
              /\ Complete(MatchSymbol(l, d), t2)
              /\ GoTo("fast")
           \/ /\ length' > 0
              /\ Begin(MatchSymbol(l, d))
              /\ IF d > since' THEN Return("inconsistent_distance")
                               ELSE GoTo("fast_dst")

(* copy_from_history32__bco: no check of the buffer's space.               *)
FastCopy ==
  /\ pc = "fast_dst"
  /\ Write(CopyFromHistory(out, distance, length), length)
  /\ length' = 0
  /\ Complete(symbol, out')
  /\ GoTo("fast")
  /\ UNCHANGED <<final, distance, hlen, hdist, literal>>

(* The loop's condition fails, for want of space or of source bytes.       *)
FastExit ==
  /\ pc = "fast"
  /\ GoTo("slow")
  /\ UNCHANGED <<buffer, locals, ghosts>>

-----------------------------------------------------------------------------
(* decode_huffman_slow: a literal; write_u8 suspends until there is space. *)
SlowLiteral(b) ==
  /\ pc = "slow"
  /\ literal' = <<b>>
  /\ Begin(LiteralSymbol(<<b>>))
  /\ GoTo("literal")
  /\ UNCHANGED <<buffer, final, length, distance, hlen, hdist>>

WriteU8 ==
  /\ pc = "literal"
  /\ IF avail = 0
     THEN /\ Yield("short_write", "literal", out, since)
          /\ UNCHANGED <<buffer, literal, ghosts>>
     ELSE /\ Write(out \o literal, 1)
          /\ Complete(symbol, out \o literal)
          /\ literal' = << >>
          /\ GoTo("slow")
  /\ UNCHANGED <<final, length, distance, hlen, hdist>>

SlowMatch(l, d) ==
  /\ pc = "slow"
  /\ length' = l
  /\ distance' = d
  /\ Begin(MatchSymbol(l, d))
  /\ GoTo("match")
  /\ UNCHANGED <<buffer, final, hlen, hdist, literal>>

(* The top of the copy loop: divide what is left of the match between the  *)
(* ring and the buffer.  It runs again after each suspension below.        *)
SplitMatch ==
  LET hd == distance - since
      hn == Minimum(length, hd)
  IN
  /\ pc = "match"
  /\ UNCHANGED <<buffer, final, distance, literal>>
  /\ \/ /\ distance <= since
        /\ GoTo("dst")
        /\ UNCHANGED <<length, hlen, hdist, ghosts>>
     \/ /\ distance > since
        /\ hlen' = hn
        /\ length' = length - hn
        /\ IF history_index < hd
           THEN /\ Return("bad_distance")
                /\ Complete(symbol, out)
                /\ hdist' = hd
           ELSE /\ GoTo("hist_end")
                /\ hdist' = history_index - hd
                /\ UNCHANGED ghosts

(* After the copies from the ring: the match is complete, or what is left  *)
(* of it is in the buffer.                                                 *)
RingPartDone(t) ==
  IF length = 0
  THEN GoTo("slow") /\ Complete(symbol, t)
  ELSE GoTo("dst") /\ UNCHANGED ghosts

(* Variant: a suspended copy does not remember how far it came.            *)
CopyToRingEndForgetsSlot ==
  LET n == SliceCount(hdist, hlen, avail)
      t == CopyFromSlice(out, hdist, n)
  IN
  /\ pc = "hist_end"
  /\ Write(t, n)
  /\ UNCHANGED <<final, length, distance, literal>>
  /\ hlen' = hlen - n
  /\ \/ n = hlen /\ RingPartDone(t) /\ UNCHANGED hdist
     \/ /\ n < hlen /\ n > 0 /\ Mask(hdist + n) = 0 /\ hdist' = 0
        /\ GoTo("hist_start") /\ UNCHANGED ghosts
     \/ /\ n < hlen /\ ~(n > 0 /\ Mask(hdist + n) = 0)
        /\ Yield("short_write", "hist_end", t, since + n)
        /\ UNCHANGED <<hdist, ghosts>>

(* Copy from hdist to the end of the ring.                                 *)
CopyToRingEnd ==
  LET n == SliceCount(hdist, hlen, avail)
      t == CopyFromSlice(out, hdist, n)
  IN
  /\ pc = "hist_end"
  /\ Write(t, n)
  /\ UNCHANGED <<final, length, distance, literal>>
  /\ hlen' = hlen - n
  /\ hdist' = IF n > 0 /\ n < hlen THEN Mask(hdist + n) ELSE hdist
  /\ \/ n = hlen /\ RingPartDone(t)
     \/ n < hlen /\ n > 0 /\ hdist' = 0 /\ GoTo("hist_start") /\ UNCHANGED ghosts
     \/ /\ n < hlen /\ ~(n > 0 /\ hdist' = 0)
        /\ Yield("short_write", "hist_end", t, since + n)
        /\ UNCHANGED ghosts

(* Copy from the start of the ring, after wrapping around.                 *)
CopyFromRingStart ==
  LET n == SliceCount(hdist, hlen, avail)
      t == CopyFromSlice(out, hdist, n)
  IN
  /\ pc = "hist_start"
  /\ Write(t, n)
  /\ UNCHANGED <<final, length, distance, literal>>
  /\ hlen' = hlen - n
  /\ IF n = hlen
     THEN RingPartDone(t) /\ UNCHANGED hdist
     ELSE /\ hdist' = hdist + n
          /\ Yield("short_write", "hist_start", t, since + n)
          /\ UNCHANGED ghosts

(* Variant: the yield resumes the copy itself, not the loop around it.     *)
CopyFromBufferWithoutSplit ==
  LET n == IF since < distance THEN 0 ELSE Minimum(length, avail)
      t == CopyFromHistory(out, distance, n)
  IN
  /\ pc = "dst"
  /\ Write(t, n)
  /\ length' = length - n
  /\ IF n = length
     THEN GoTo("slow") /\ Complete(symbol, t)
     ELSE Yield("short_write", "dst", t, since + n) /\ UNCHANGED ghosts
  /\ UNCHANGED <<final, distance, hlen, hdist, literal>>

(* Variant: a copy that has copied nothing is tried again at once.         *)
CopyFromBufferRetries ==
  LET n == IF since < distance THEN 0 ELSE Minimum(length, avail)
      t == CopyFromHistory(out, distance, n)
  IN
  /\ pc = "dst"
  /\ Write(t, n)
  /\ length' = length - n
  /\ IF n = length
     THEN GoTo("slow") /\ Complete(symbol, t)
     ELSE IF n = 0
     THEN GoTo("dst") /\ UNCHANGED ghosts
     ELSE Yield("short_write", "match", t, since + n) /\ UNCHANGED ghosts
  /\ UNCHANGED <<final, distance, hlen, hdist, literal>>

(* copy_from_history32 copies nothing when the mark is less than distance  *)
(* bytes back, which a suspension during the copy from the ring brings     *)
(* about; the yield then re-enters the copy loop at its top.               *)
CopyFromBuffer ==
  LET n == IF since < distance THEN 0 ELSE Minimum(length, avail)
      t == CopyFromHistory(out, distance, n)
  IN
  /\ pc = "dst"
  /\ Write(t, n)
  /\ length' = length - n
  /\ IF n = length
     THEN GoTo("slow") /\ Complete(symbol, t)
     ELSE Yield("short_write", "match", t, since + n) /\ UNCHANGED ghosts
  /\ UNCHANGED <<final, distance, hlen, hdist, literal>>

(* decode returned; there is nothing left to run.                          *)
Returned ==
  /\ pc = "returned"
  /\ UNCHANGED vars

-----------------------------------------------------------------------------
MayRead == Len(out) < MaxText

Decode ==
  \/ ShortRead \/ BadStream \/ DecodeDone \/ EndOfBlock
  \/ \E f \in BOOLEAN : HuffmanHeader(f)
  \/ MayRead /\ \E f \in BOOLEAN, n \in 0..MaxStored : StoredHeader(f, n)
  \/ \E bytes \in Runs \cup {<< >>} : Stored(bytes)
  \/ MayRead /\ \E b \in Bytes : FastLiteral(b) \/ SlowLiteral(b)
  \/ MayRead /\ \E l \in Lengths, d \in 1..R : FastMatch(l, d) \/ SlowMatch(l, d)
  \/ FastCopy \/ FastExit \/ WriteU8
  \/ SplitMatch \/ CopyToRingEnd \/ CopyFromRingStart \/ CopyFromBuffer

Next == (\E cap \in 0..MaxCap : Call(cap)) \/ Decode \/ Returned

(* A call runs until it suspends or returns.  The caller calls again after *)
(* a suspension, and not always with a buffer without space.               *)
Fairness ==
  /\ WF_vars(Decode)
  /\ SF_vars(\E cap \in 1..MaxCap : Call(cap))

Spec == Init /\ [][Next]_vars
FairSpec == Spec /\ Fairness
-----------------------------------------------------------------------------
TypeOK ==
  /\ pc \in Running \cup {"caller", "returned"}
  /\ resume \in Resumable
  /\ status \in {"not_called", "ok", "short_read", "short_write", "bad_stream",
                 "bad_distance", "inconsistent_distance"}
  /\ history \in [0..R - 1 -> Bytes]
  /\ history_index \in 0..2 * R
  /\ avail \in Nat /\ since \in Nat
  /\ final \in BOOLEAN
  /\ length \in Nat /\ distance \in 0..R /\ hlen \in Nat /\ hdist \in 0..2 * R
  /\ literal \in {<< >>} \cup [1..1 -> Bytes]
  /\ out \in Seq(Bytes)
  /\ start \in Nat
  /\ stream \in Seq(Symbols)
  /\ symbol \in Symbols \cup {NoSymbol}

(* While the coroutine is suspended, resume is where it is, and decode has *)
(* appended to the ring all that was written since the mark.               *)
At == IF pc = "caller" THEN resume ELSE pc
Unflushed == IF pc = "caller" THEN 0 ELSE since

(* Ring h with index i holds the first n bytes of t, or the last R of those: *)
(* the k-th last is k slots before the index, and the ring is full if and  *)
(* only if i >= R (the comments on decoder.history).                       *)
HoldsText(h, i, t, n) ==
  /\ n < R => i = n
  /\ n >= R => i >= R
  /\ \A k \in 1..Minimum(n, R) : h[Mask(i - k)] = t[n - k + 1]

(* However the text was cut into buffers, and wherever a copy from the ring *)
(* itself was suspended, decoder.history holds the text's last bytes.      *)
RingHoldsText ==
  /\ Unflushed <= Len(out)
  /\ HoldsText(history, history_index, out, Len(out) - Unflushed)

(* copy_from_history32__bco writes without checking: its caller must have  *)
(* proved the preconditions listed in base-impl.h.                         *)
UncheckedCopyIsSafe ==
  pc = "fast_dst" =>
    /\ distance > 0 /\ distance <= since
    /\ length <= avail

(* The "internal error" of the fast loop cannot be returned.               *)
NoInternalError == status # "inconsistent_distance"

MatchPoints == {"match", "hist_end", "hist_start", "dst", "fast_dst"}
RingPoints  == {"hist_end", "hist_start"}
IdlePoints  == {"blocks", "stored", "fast", "slow"}

(* At point p, how many bytes are still to come from the ring, and where   *)
(* they end at the latest.                                                 *)
RingPart(p, n) == IF p \in RingPoints THEN n ELSE 0
RingLimit(p) == IF p = "hist_start" THEN R ELSE 2 * R

(* What a suspended or running expansion has done: every byte of the match *)
(* written so far equals the byte distance before it, and the locals say   *)
(* how many bytes are missing.                                             *)
MatchState ==
  At \in MatchPoints =>
    /\ distance \in 1..R
    /\ \E l \in Lengths :
         /\ symbol = MatchSymbol(l, distance)
         /\ l = (Len(out) - start) + length + RingPart(At, hlen)
    /\ \A i \in start + 1..Len(out) : out[i] = out[i - distance]
    /\ distance <= start \/ (At = "match" /\ Len(out) = start)
    /\ At = "match" => length > 0

(* The next byte a copy from the ring reads is the one distance back in the *)
(* text, although a suspension in the middle of the copy appends to the    *)
(* ring and moves history_index.                                           *)
RingCopyState ==
  At \in RingPoints =>
    /\ hlen \in 1..distance - Unflushed
    /\ Mask(hdist) = Mask(history_index - (distance - Unflushed))
    /\ hdist + hlen <= RingLimit(At)

LiteralState ==
  At = "literal" =>
    /\ literal \in [1..1 -> Bytes]
    /\ symbol = LiteralSymbol(literal)
    /\ start = Len(out)

IdleState ==
  /\ start <= Len(out)
  /\ At \in IdlePoints => start = Len(out)
  /\ status = "bad_distance" => pc = "returned"

(* The inductive invariant.                                                *)
ResumableCopies ==
  /\ TypeOK
  /\ RingHoldsText
  /\ MatchState
  /\ RingCopyState
  /\ LiteralState
  /\ IdleState
  /\ UncheckedCopyIsSafe
  /\ NoInternalError

(* What decode promises.  The text of the abstract specification is the    *)
(* text up to the symbol that is being expanded.                           *)
Lz == INSTANCE Lz77 WITH
        Runs <- Runs, Distances <- 1..R,
        text <- SubSeq(out, 1, start),
        failed <- (status = "bad_distance")

ImplementsLz77 == Lz!Spec

(* A match is expanded in full however often the copy is suspended: the    *)
(* spurious "short_write" of CopyFromBuffer cannot repeat for ever.        *)
Expanding == At \in MatchPoints
MatchIsExpanded == Expanding ~> ~Expanding

(* The fuzzers in fuzz/c/std fail a decoder that reports a short write     *)
(* without having written to a buffer that had space.                      *)
ShortWriteMakesProgress ==
  pc = "caller" /\ status = "short_write" /\ since = 0 => avail = 0
=============================================================================
