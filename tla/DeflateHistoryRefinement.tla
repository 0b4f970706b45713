---------------------- MODULE DeflateHistoryRefinement ----------------------
(***************************************************************************)
(* The resumable decoder implements Lz77: every step of DeflateHistory is  *)
(* a step of the abstract specification, or leaves its text alone.  And a  *)
(* suspension for want of space in the output buffer never comes without   *)
(* progress.                                                               *)
(***************************************************************************)
EXTENDS DeflateHistoryProofs

-----------------------------------------------------------------------------
(* A prefix of a text.                                                     *)
LEMMA Prefix ==
  ASSUME NEW t \in Seq(Bytes), NEW m \in 0..Len(t)
  PROVE  /\ SubSeq(t, 1, m) \in Seq(Bytes) /\ Len(SubSeq(t, 1, m)) = m
         /\ \A i \in 1..m : SubSeq(t, 1, m)[i] = t[i]
         /\ m = Len(t) => SubSeq(t, 1, m) = t
<1>1. Len(t) \in Nat BY LenProperties
<1>2. \A i \in 1..m : t[i] \in Bytes BY <1>1
<1>3. /\ SubSeq(t, 1, m) \in Seq(Bytes) /\ Len(SubSeq(t, 1, m)) = m
      /\ \A i \in 1..m : SubSeq(t, 1, m)[i] = t[i]
  BY <1>1, <1>2, SubSeqProperties
<1>4. m = Len(t) => SubSeq(t, 1, m) = t BY SubSeqFull
<1> QED BY <1>3, <1>4

(* The abstract step that a step of the decoder is.                        *)

(* Nothing is completed: the text stays.                                   *)
LEMMA TextStays ==
  ASSUME ResumableCopies, NEW n \in Nat, Extends(out, out', n), start' = start, stream' = stream,
         status # "bad_distance", status' # "bad_distance"
  PROVE  UNCHANGED Lz!vars
<1>1. out \in Seq(Bytes) /\ start \in Nat /\ start <= Len(out) BY DEF ResumableCopies, TypeOK, IdleState
<1>2. Len(out) \in Nat BY <1>1, LenProperties
<1>3. out' \in Seq(Bytes) /\ Len(out') = Len(out) + n /\ \A i \in 1..Len(out) : out'[i] = out[i]
  BY DEF Extends
<1>4. start \in 0..Len(out) /\ start \in 0..Len(out') BY <1>1, <1>2, <1>3
<1>5. SubSeq(out', 1, start) = SubSeq(out, 1, start)
  <2> DEFINE p == SubSeq(out, 1, start)
             q == SubSeq(out', 1, start)
  <2>1. p \in Seq(Bytes) /\ Len(p) = start /\ \A i \in 1..start : p[i] = out[i] BY <1>1, <1>4, Prefix
  <2>2. q \in Seq(Bytes) /\ Len(q) = start /\ \A i \in 1..start : q[i] = out'[i] BY <1>3, <1>4, Prefix
  <2> HIDE DEF p, q
  <2>3. \A i \in 1..start : out'[i] = out[i] BY <1>1, <1>2, <1>3
  <2>4. p = q BY <2>1, <2>2, <2>3, SeqEqual
  <2> QED BY <2>4 DEF p, q
<1> QED BY <1>5 DEF Lz!vars

(* A run of literal bytes is completed.                                    *)
LEMMA LiteralCompletes ==
  ASSUME ResumableCopies, NEW bytes \in Runs, start = Len(out), out' = out \o bytes,
         start' = Len(out'), stream' = Append(stream, LiteralSymbol(bytes)),
         status # "bad_distance", status' # "bad_distance"
  PROVE  Lz!Literal
<1>1. out \in Seq(Bytes) /\ bytes \in Seq(Bytes) BY RunsAreSeqs DEF ResumableCopies, TypeOK
<1>2. out' \in Seq(Bytes) BY <1>1, ConcatProperties
<1>3. SubSeq(out, 1, start) = out /\ SubSeq(out', 1, start') = out' BY <1>1, <1>2, SubSeqFull
<1> QED BY <1>3 DEF Lz!Literal, Lz!ExpandsLiteral, Lz!LiteralSymbol, LiteralSymbol

(* A match is completed: its bytes each repeat the one d back.             *)
LEMMA MatchCompletes ==
  ASSUME ResumableCopies, NEW l \in Lengths, NEW d \in 1..R, d <= start,
         NEW n \in Nat, Extends(out, out', n), Len(out') = start + l, Repeats(out', d, start, Len(out')),
         start' = Len(out'), stream' = Append(stream, MatchSymbol(l, d)),
         status # "bad_distance", status' # "bad_distance"
  PROVE  Lz!Match
<1> DEFINE p == SubSeq(out, 1, start)
<1>1. out \in Seq(Bytes) /\ start \in Nat /\ start <= Len(out) BY DEF ResumableCopies, TypeOK, IdleState
<1>2. Len(out) \in Nat BY <1>1, LenProperties
<1>3. out' \in Seq(Bytes) /\ \A i \in 1..Len(out) : out'[i] = out[i] BY DEF Extends
<1>4. p \in Seq(Bytes) /\ Len(p) = start /\ \A i \in 1..start : p[i] = out[i] BY <1>1, <1>2, Prefix
<1>5. SubSeq(out', 1, start') = out' BY <1>3, SubSeqFull
<1> HIDE DEF p
<1>6. ASSUME NEW i \in 1..Len(p) PROVE out'[i] = p[i]
  <2>1. i \in 1..start /\ i \in 1..Len(out) BY ONLY i \in 1..Len(p), <1>1, <1>2, <1>4, SMTT(40)
  <2> QED BY <2>1, <1>3, <1>4, Zenon
<1>7. Lz!ExpandsMatch(p, l, d, out')
  BY <1>4, <1>6 DEF Lz!ExpandsMatch, Repeats
<1> QED BY <1>5, <1>7 DEF Lz!Match, Lz!MatchSymbol, MatchSymbol, p

(* A match that reaches back too far is refused.                           *)
LEMMA DistanceRefused ==
  ASSUME ResumableCopies, NEW l \in Lengths, NEW d \in 1..R, d > Len(out), start = Len(out),
         out' = out, start' = Len(out), stream' = Append(stream, MatchSymbol(l, d)),
         status # "bad_distance", status' = "bad_distance"
  PROVE  Lz!BadDistance
<1>1. out \in Seq(Bytes) BY DEF ResumableCopies, TypeOK
<1>2. SubSeq(out, 1, start) = out BY <1>1, SubSeqFull
<1> QED BY <1>2 DEF Lz!BadDistance, Lz!MatchSymbol, MatchSymbol


-----------------------------------------------------------------------------
(* One lemma per action that writes or reads a symbol.                     *)

(* Before decode has returned, no distance was refused.                    *)
LEMMA NotFailed ==
  ASSUME ResumableCopies, pc # "returned"
  PROVE  /\ status # "bad_distance" /\ Extends(out, out, 0) /\ start <= Len(out)
         /\ out \in Seq(Bytes) /\ Len(out) \in Nat /\ start \in Nat
<1>1. TypeOK BY DEF ResumableCopies
<1> QED BY <1>1, NothingWritten, LenProperties DEF ResumableCopies, IdleState, TypeOK

LEMMA IdleStart ==
  ASSUME ResumableCopies, pc \in IdlePoints
  PROVE  start = Len(out) /\ pc # "returned" /\ pc # "caller" /\ Unflushed = since
BY DEF ResumableCopies, IdleState, At, Unflushed, IdlePoints

(* What neither writes nor completes.                                      *)
LEMMA QuietMaps ==
  ASSUME ResumableCopies, pc # "returned", out' = out, stream' = stream, status' # "bad_distance",
         start' = start \/ (start' = Len(out) /\ pc \in IdlePoints)
  PROVE  UNCHANGED Lz!vars
<1>1. start' = start BY IdleStart
<1>2. Extends(out, out', 0) BY NotFailed
<1> QED BY <1>1, <1>2, NotFailed, TextStays

LEMMA CallMaps == ASSUME ResumableCopies, NEW cap, Call(cap) PROVE UNCHANGED Lz!vars
<1>1. pc = "caller" /\ UNCHANGED <<status, out, start, stream>> BY DEF Call, ghosts
<1> QED BY <1>1, NotFailed, QuietMaps

LEMMA ReadMaps ==
  ASSUME ResumableCopies, NEW f, NEW m,
         ShortRead \/ BadStream \/ DecodeDone \/ EndOfBlock \/ FastExit \/ HuffmanHeader(f) \/ StoredHeader(f, m)
  PROVE  UNCHANGED Lz!vars
<1>1. /\ pc \in IdlePoints /\ UNCHANGED <<out, start, stream>>
      /\ status' \in {"short_read", "bad_stream", "ok", status}
  BY DEF ShortRead, BadStream, DecodeDone, EndOfBlock, FastExit, HuffmanHeader, StoredHeader,
         buffer, ghosts, IdlePoints, Yield, Return, GoTo
<1> QED BY <1>1, IdleStart, NotFailed, QuietMaps

LEMMA BeginMaps ==
  ASSUME ResumableCopies, NEW b, NEW l, NEW d, SlowLiteral(b) \/ SlowMatch(l, d)
  PROVE  UNCHANGED Lz!vars
<1>1. /\ pc \in IdlePoints /\ UNCHANGED <<out, stream>> /\ status' = status /\ start' = Len(out)
  BY DEF SlowLiteral, SlowMatch, Begin, buffer, IdlePoints, GoTo
<1> QED BY <1>1, IdleStart, NotFailed, QuietMaps

LEMMA StoredMaps ==
  ASSUME ResumableCopies, NEW bytes \in Runs \cup {<< >>}, Stored(bytes)
  PROVE  Lz!Literal \/ UNCHANGED Lz!vars
<1>1. /\ pc = "stored" /\ out' = out \o bytes
      /\ IF Len(bytes) = 0 THEN UNCHANGED <<start, stream>>
         ELSE start' = Len(out \o bytes) /\ stream' = Append(stream, LiteralSymbol(bytes))
      /\ status' \in {"short_read", "short_write", status}
  BY DEF Stored, Write, Complete, GoTo, Yield, ghosts
<1>2. pc \in IdlePoints BY <1>1 DEF IdlePoints
<1>3. status # "bad_distance" /\ status' # "bad_distance" /\ start = Len(out) /\ out \in Seq(Bytes) /\ pc # "returned"
  BY <1>1, <1>2, IdleStart, NotFailed
<1>4. CASE Len(bytes) = 0
  <2>1. bytes \in Seq(Bytes)
    <3>1. bytes \in Runs => bytes \in Seq(Bytes) BY RunsAreSeqs
    <3>2. bytes = << >> => bytes \in Seq(Bytes) OBVIOUS
    <3> QED BY <3>1, <3>2
  <2>2. Extends(out, out', 0) BY <1>1, <1>3, <1>4, <2>1, ConcatExtends
  <2> QED BY <1>1, <1>3, <1>4, <2>2, TextStays
<1>5. CASE Len(bytes) # 0
  <2>1. bytes \in Runs BY <1>5
  <2> QED BY <1>1, <1>3, <1>5, <2>1, LiteralCompletes
<1> QED BY <1>4, <1>5

LEMMA FastLiteralMaps ==
  ASSUME ResumableCopies, NEW b \in Bytes, FastLiteral(b)
  PROVE  Lz!Literal
<1>1. /\ pc = "fast" /\ out' = Append(out, b) /\ start' = Len(out') /\ status' = status
      /\ stream' = Append(stream, LiteralSymbol(<<b>>))
  BY DEF FastLiteral, Write, Complete, coroutine
<1>2. pc \in IdlePoints BY <1>1 DEF IdlePoints
<1>3. status # "bad_distance" /\ start = Len(out) /\ out \in Seq(Bytes) BY <1>2, IdleStart, NotFailed
<1>4. out' = out \o <<b>> BY <1>1, <1>3, AppendIsConcat
<1> QED BY <1>1, <1>3, <1>4, OneByteRun, LiteralCompletes

LEMMA WriteU8Maps ==
  ASSUME ResumableCopies, WriteU8
  PROVE  Lz!Literal \/ UNCHANGED Lz!vars
<1>1. /\ pc = "literal"
      /\ \/ UNCHANGED <<out, start, stream>> /\ status' = "short_write"
         \/ /\ out' = out \o literal /\ start' = Len(out') /\ status' = status
            /\ stream' = Append(stream, symbol)
  BY DEF WriteU8, Write, Complete, Yield, GoTo, buffer, ghosts
<1>2. status # "bad_distance" BY <1>1, NotFailed
<1>3. literal \in [1..1 -> Bytes] /\ symbol = LiteralSymbol(literal) /\ start = Len(out)
  BY <1>1 DEF ResumableCopies, LiteralState, At
<1>4. literal \in Runs BY <1>3, DeflateHistoryAssumption, SMTT(30) DEF Runs
<1> QED BY <1>1, <1>2, <1>3, <1>4, QuietMaps, LiteralCompletes

(* A match in progress: the bytes that are missing and those it has.       *)
LEMMA MatchInProgress ==
  ASSUME ResumableCopies, pc \in MatchPoints
  PROVE  /\ status # "bad_distance" /\ pc # "returned" /\ distance \in 1..R
         /\ out \in Seq(Bytes) /\ Len(out) \in Nat /\ start \in Nat /\ start <= Len(out)
         /\ length \in Nat /\ hlen \in Nat
         /\ Repeats(out, distance, start, Len(out))
         /\ distance <= start \/ (pc = "match" /\ Len(out) = start)
         /\ \E l \in Lengths : symbol = MatchSymbol(l, distance)
                               /\ l = (Len(out) - start) + length + RingPart(pc, hlen)
<1>1. At = pc BY MatchFacts
<1>2. MatchState BY DEF ResumableCopies
<1>3. /\ status # "bad_distance" /\ distance \in 1..R
      /\ out \in Seq(Bytes) /\ Len(out) \in Nat /\ start \in Nat /\ start <= Len(out)
      /\ length \in Nat /\ hlen \in Nat
  BY MatchFacts
<1>4. pc # "returned" BY DEF MatchPoints
<1> QED BY <1>1, <1>2, <1>3, <1>4 DEF MatchState, Repeats

(* The last n bytes of a match are written.                                *)
LEMMA LastBytes ==
  ASSUME ResumableCopies, pc \in MatchPoints, distance <= start,
         NEW n \in Nat, n = length + RingPart(pc, hlen), Extends(out, out', n),
         \A i \in Len(out) + 1..Len(out) + n : out'[i] = out'[i - distance],
         start' = Len(out'), stream' = Append(stream, symbol), status' = status
  PROVE  Lz!Match
<1>1. PICK l \in Lengths : symbol = MatchSymbol(l, distance)
                           /\ l = (Len(out) - start) + length + RingPart(pc, hlen)
  BY MatchInProgress
<1>2. /\ status # "bad_distance" /\ distance \in 1..R
      /\ out \in Seq(Bytes) /\ Len(out) \in Nat /\ start \in Nat /\ start <= Len(out)
      /\ Repeats(out, distance, start, Len(out)) /\ length \in Nat /\ hlen \in Nat
  BY MatchInProgress
<1>3. RingPart(pc, hlen) \in Nat BY <1>2 DEF RingPart
<1>4. Len(out') = start + l
  <2>1. Len(out') = Len(out) + n BY DEF Extends
  <2>2. n \in Nat /\ n = length + RingPart(pc, hlen) OBVIOUS
  <2>3. l = (Len(out) - start) + n BY ONLY <1>1, <1>2, <1>3, <2>2, SMTT(40)
  <2> QED BY ONLY <1>2, <2>1, <2>2, <2>3, SMTT(40)
<1>5. Repeats(out', distance, start, Len(out'))
  <2>1. Repeats(out', distance, Len(out), Len(out) + n) BY DEF Repeats
  <2> QED BY <1>2, <2>1, MatchGrows
<1> QED BY <1>1, <1>2, <1>4, <1>5, MatchCompletes

LEMMA FastCopyMaps == ASSUME ResumableCopies, FastCopy PROVE Lz!Match
<1>1. /\ pc = "fast_dst" /\ out' = CopyFromHistory(out, distance, length)
      /\ stream' = Append(stream, symbol) /\ start' = Len(out') /\ status' = status
  BY DEF FastCopy, Write, Complete, GoTo
<1>2. pc \in MatchPoints BY <1>1 DEF MatchPoints
<1>3. /\ distance \in 1..R /\ out \in Seq(Bytes) /\ Len(out) \in Nat /\ start \in Nat /\ start <= Len(out)
      /\ length \in Nat /\ distance <= start
  BY <1>1, <1>2, MatchInProgress
<1>4. distance \in 1..Len(out) BY <1>3, DeflateHistoryAssumption
<1>5. /\ Extends(out, out', length)
      /\ \A i \in Len(out) + 1..Len(out) + length : out'[i] = out'[i - distance]
  BY <1>1, <1>3, <1>4, HistoryCopyExtends
<1>6. length = length + RingPart(pc, hlen) BY <1>1, <1>3 DEF RingPart, RingPoints
<1> QED BY <1>1, <1>2, <1>3, <1>5, <1>6, LastBytes

LEMMA CopyFromBufferMaps == ASSUME ResumableCopies, CopyFromBuffer PROVE Lz!Match \/ UNCHANGED Lz!vars
<1> DEFINE n == IF since < distance THEN 0 ELSE Minimum(length, avail)
<1>1. /\ pc = "dst" /\ out' = CopyFromHistory(out, distance, n)
      /\ \/ /\ n = length /\ stream' = Append(stream, symbol) /\ start' = Len(out') /\ status' = status
         \/ UNCHANGED <<start, stream>> /\ status' = "short_write"
  BY DEF CopyFromBuffer, Write, Complete, GoTo, Yield, ghosts
<1>2. pc \in MatchPoints BY <1>1 DEF MatchPoints
<1>3. /\ distance \in 1..R /\ out \in Seq(Bytes) /\ Len(out) \in Nat /\ start \in Nat /\ start <= Len(out)
      /\ length \in Nat /\ distance <= start /\ status # "bad_distance" /\ avail \in Nat /\ since \in Nat
  BY <1>1, <1>2, MatchInProgress, MatchFacts
<1>4. distance \in 1..Len(out) /\ n \in Nat BY <1>3, DeflateHistoryAssumption DEF Minimum
<1> HIDE DEF n
<1>5. /\ Extends(out, out', n)
      /\ \A i \in Len(out) + 1..Len(out) + n : out'[i] = out'[i - distance]
  BY <1>1, <1>3, <1>4, HistoryCopyExtends
<1>6. length = length + RingPart(pc, hlen) BY <1>1, <1>3 DEF RingPart, RingPoints
<1>7. CASE n = length /\ stream' = Append(stream, symbol) /\ start' = Len(out') /\ status' = status
  BY <1>2, <1>3, <1>4, <1>5, <1>6, <1>7, LastBytes
<1>8. CASE UNCHANGED <<start, stream>> /\ status' = "short_write"
  BY <1>3, <1>4, <1>5, <1>8, TextStays
<1> QED BY <1>1, <1>7, <1>8


(* The copies from the ring in decode_huffman_slow.                        *)
LEMMA RingCopyMaps ==
  ASSUME ResumableCopies, CopyToRingEnd \/ CopyFromRingStart
  PROVE  Lz!Match \/ UNCHANGED Lz!vars
<1> DEFINE n == SliceCount(hdist, hlen, avail)
<1>1. /\ pc \in RingPoints /\ out' = CopyFromSlice(out, hdist, n)
      /\ \/ /\ n = hlen /\ length = 0 /\ stream' = Append(stream, symbol) /\ start' = Len(out')
            /\ status' = status
         \/ UNCHANGED <<start, stream>> /\ status' \in {status, "short_write"}
  BY DEF CopyToRingEnd, CopyFromRingStart, RingPartDone, Write, Complete, GoTo, Yield, ghosts, RingPoints
<1>2. pc \in MatchPoints BY <1>1 DEF MatchPoints, RingPoints
<1>3. /\ out \in Seq(Bytes) /\ Len(out) \in Nat /\ length \in Nat /\ hlen \in Nat /\ status # "bad_distance"
  BY <1>2, MatchInProgress
<1>4. /\ n \in Nat /\ distance <= start /\ Extends(out, out', n)
      /\ \A i \in Len(out) + 1..Len(out) + n : out'[i] = out'[i - distance]
  BY <1>1, RingCopyFacts
<1> HIDE DEF n
<1>5. RingPart(pc, hlen) = hlen BY <1>1 DEF RingPart
<1>6. CASE n = hlen /\ length = 0 /\ stream' = Append(stream, symbol) /\ start' = Len(out') /\ status' = status
  <2>1. n = length + RingPart(pc, hlen) BY <1>3, <1>5, <1>6
  <2> QED BY <1>2, <1>4, <1>6, <2>1, LastBytes
<1>7. CASE UNCHANGED <<start, stream>> /\ status' \in {status, "short_write"}
  BY <1>3, <1>4, <1>7, TextStays
<1> QED BY <1>1, <1>6, <1>7

LEMMA SplitMatchMaps == ASSUME ResumableCopies, SplitMatch PROVE Lz!BadDistance \/ UNCHANGED Lz!vars
<1>1. /\ pc = "match" /\ out' = out
      /\ \/ UNCHANGED <<start, stream>> /\ status' = status
         \/ /\ distance > since /\ history_index < distance - since /\ status' = "bad_distance"
            /\ stream' = Append(stream, symbol) /\ start' = Len(out)
  BY DEF SplitMatch, GoTo, Return, Complete, buffer, ghosts
<1>2. pc \in MatchPoints BY <1>1 DEF MatchPoints
<1>3. /\ out \in Seq(Bytes) /\ Len(out) \in Nat /\ status # "bad_distance" /\ pc # "returned" /\ Unflushed = since
      /\ distance \in 1..R /\ (distance <= start \/ Len(out) = start) /\ start <= Len(out) /\ start \in Nat
      /\ \E l \in Lengths : symbol = MatchSymbol(l, distance)
  BY <1>2, MatchInProgress, MatchFacts
<1>4. CASE UNCHANGED <<start, stream>> /\ status' = status BY <1>1, <1>3, <1>4, QuietMaps
<1>5. CASE /\ distance > since /\ history_index < distance - since /\ status' = "bad_distance"
           /\ stream' = Append(stream, symbol) /\ start' = Len(out)
  <2>1. distance > Len(out) BY <1>3, <1>5, DistanceBeyondText DEF ResumableCopies
  <2>2. start = Len(out) BY <1>3, <2>1, DeflateHistoryAssumption
  <2> QED BY <1>1, <1>3, <1>5, <2>1, <2>2, DistanceRefused
<1> QED BY <1>1, <1>4, <1>5

LEMMA FastMatchMaps ==
  ASSUME ResumableCopies, NEW l \in Lengths, NEW d \in 1..R, FastMatch(l, d)
  PROVE  Lz!Match \/ Lz!BadDistance \/ UNCHANGED Lz!vars
<1> DEFINE hd == d - since
           hn == Minimum(l, hd)
           n1 == SliceCount(history_index - hd, hn, avail)
           t1 == CopyFromSlice(out, history_index - hd, n1)
           n2 == SliceCount(0, hn - n1, avail - n1)
           t2 == CopyFromSlice(t1, 0, n2)
<1>1. /\ pc = "fast" /\ avail >= MaxLength
      /\ \/ /\ Begin(MatchSymbol(l, d)) /\ status' = status /\ out' = out
         \/ /\ d > since /\ history_index < hd /\ Complete(MatchSymbol(l, d), out)
            /\ status' = "bad_distance" /\ out' = out
         \/ /\ d > since /\ history_index >= hd /\ out' = t2 /\ length' = l - hn
            /\ \/ length' = 0 /\ Complete(MatchSymbol(l, d), t2) /\ status' = status
               \/ Begin(MatchSymbol(l, d)) /\ status' \in {status, "inconsistent_distance"}
  BY DEF FastMatch, FastSpace, Write, GoTo, Return, buffer
<1>2. pc \in IdlePoints BY <1>1 DEF IdlePoints
<1>3. /\ out \in Seq(Bytes) /\ Len(out) \in Nat /\ start = Len(out) /\ status # "bad_distance"
      /\ pc # "returned" /\ Unflushed = since
  BY <1>2, IdleStart, NotFailed
<1>4. CASE Begin(MatchSymbol(l, d)) /\ status' = status /\ out' = out
  BY <1>2, <1>3, <1>4, QuietMaps DEF Begin
<1>5. CASE /\ d > since /\ history_index < hd /\ Complete(MatchSymbol(l, d), out)
           /\ status' = "bad_distance" /\ out' = out
  <2>1. d > Len(out) BY <1>3, <1>5, DistanceBeyondText DEF ResumableCopies
  <2> QED BY <1>3, <1>5, <2>1, DistanceRefused DEF Complete
<1>6. CASE /\ d > since /\ history_index >= hd /\ out' = t2 /\ length' = l - hn
           /\ \/ length' = 0 /\ Complete(MatchSymbol(l, d), t2) /\ status' = status
              \/ Begin(MatchSymbol(l, d)) /\ status' \in {status, "inconsistent_distance"}
  <2>1. /\ hn \in 1..hd /\ hn <= l /\ d <= Len(out)
        /\ Extends(out, t2, hn) /\ Repeats(t2, d, Len(out), Len(out) + hn)
    BY <1>1, <1>6, FastRingCopy
  <2> HIDE DEF hn, t2
  <2>2. l \in Nat /\ since \in Nat /\ hn \in Nat
    BY <1>6, <2>1, MatchIsSymbol, DeflateHistoryAssumption DEF ResumableCopies, TypeOK
  <2>3. CASE length' = 0 /\ Complete(MatchSymbol(l, d), t2) /\ status' = status
    <3>1. hn = l BY <1>6, <2>2, <2>3
    <3>2. Len(out') = start + l BY <1>3, <1>6, <2>1, <3>1 DEF Extends
    <3>3. start' = Len(out') /\ stream' = Append(stream, MatchSymbol(l, d))
      BY <1>6, <2>3 DEF Complete
    <3>4. Extends(out, out', hn) /\ Repeats(out', d, start, Len(out')) BY <1>3, <1>6, <2>1, <3>1, <3>2
    <3> QED BY <1>3, <2>1, <2>2, <2>3, <3>2, <3>3, <3>4, MatchCompletes
  <2>4. CASE Begin(MatchSymbol(l, d)) /\ status' \in {status, "inconsistent_distance"}
    BY <1>3, <1>6, <2>1, <2>2, <2>4, TextStays DEF Begin
  <2> QED BY <1>6, <2>3, <2>4
<1> QED BY <1>1, <1>4, <1>5, <1>6

-----------------------------------------------------------------------------
LEMMA InitMaps == Init => Lz!Init
BY DEF Init, Lz!Init

LEMMA NextMaps ==
  ASSUME ResumableCopies, [Next]_vars
  PROVE  [Lz!Next]_(Lz!vars)
<1>1. CASE \E cap \in 0..MaxCap : Call(cap) BY <1>1, CallMaps
<1>2. CASE ShortRead \/ BadStream \/ DecodeDone \/ EndOfBlock \/ FastExit BY <1>2, ReadMaps
<1>3. CASE \E f \in BOOLEAN : HuffmanHeader(f) BY <1>3, ReadMaps
<1>4. CASE \E f \in BOOLEAN, n \in 0..MaxStored : StoredHeader(f, n) BY <1>4, ReadMaps
<1>5. CASE \E bytes \in Runs \cup {<< >>} : Stored(bytes) BY <1>5, StoredMaps DEF Lz!Next
<1>6. CASE \E b \in Bytes : FastLiteral(b) \/ SlowLiteral(b)
  BY <1>6, FastLiteralMaps, BeginMaps DEF Lz!Next
<1>7. CASE \E l \in Lengths, d \in 1..R : FastMatch(l, d) \/ SlowMatch(l, d)
  BY <1>7, FastMatchMaps, BeginMaps DEF Lz!Next
<1>8. CASE FastCopy \/ WriteU8 \/ SplitMatch
  BY <1>8, FastCopyMaps, WriteU8Maps, SplitMatchMaps DEF Lz!Next
<1>9. CASE CopyToRingEnd \/ CopyFromRingStart \/ CopyFromBuffer
  BY <1>9, RingCopyMaps, CopyFromBufferMaps DEF Lz!Next
<1>10. CASE Returned \/ UNCHANGED vars
  BY <1>10 DEF Returned, vars, coroutine, buffer, ghosts, Lz!vars
<1> QED
  BY <1>1, <1>2, <1>3, <1>4, <1>5, <1>6, <1>7, <1>8, <1>9, <1>10 DEF Next, Decode

(* decode implements Lz77: the text that it writes, over all the buffers   *)
(* that the caller gives it and wherever a copy is suspended, is the LZ77  *)
(* expansion of the symbols that it read; a distance is refused if and     *)
(* only if it reaches back before the start of the text.                   *)
THEOREM Refinement == Spec => ImplementsLz77
<1>1. Init => Lz!Init BY InitMaps
<1>2. ResumableCopies /\ [Next]_vars => [Lz!Next]_(Lz!vars) BY NextMaps
<1> QED BY <1>1, <1>2, ResumableCopiesInvariant, PTL DEF Spec, ImplementsLz77, Lz!Spec


-----------------------------------------------------------------------------
(* The copy within the buffer is entered with bytes in the buffer, and its *)
(* yield re-enters the loop above it.  So a yield for want of space that   *)
(* has written nothing met a buffer without space.                         *)
Progress ==
  /\ ShortWriteMakesProgress
  /\ pc = "dst" => since > 0

LEMMA ProgressElsewhere ==
  ASSUME pc' # "dst", pc' = "caller" => status' # "short_write"
  PROVE  Progress'
BY DEF Progress, ShortWriteMakesProgress

(* A yield in decode_blocks, with n bytes written.                         *)
LEMMA ProgressYield ==
  ASSUME TypeOK, NEW n \in Nat, pc' = "caller", since' = since + n, avail' = avail - n,
         n = 0 => since > 0 \/ avail = 0
  PROVE  Progress'
BY DEF Progress, ShortWriteMakesProgress, TypeOK

LEMMA RingCopyProgress ==
  ASSUME ResumableCopies, CopyToRingEnd \/ CopyFromRingStart
  PROVE  Progress'
<1> DEFINE n == SliceCount(hdist, hlen, avail)
<1>1. /\ pc \in RingPoints /\ since' = since + n /\ avail' = avail - n
      /\ \/ n = hlen /\ pc' \in {"slow", "dst"}
         \/ pc' = "hist_start"
         \/ n < hlen /\ pc' = "caller"
         \/ n # hlen /\ pc' = "caller"
  BY DEF CopyToRingEnd, CopyFromRingStart, RingPartDone, Write, GoTo, Yield, RingPoints
<1>2. pc \in MatchPoints /\ TypeOK BY <1>1 DEF MatchPoints, RingPoints, ResumableCopies
<1>3. hlen \in Nat /\ avail \in Nat /\ since \in Nat /\ hdist \in 0..2 * R /\ R \in Nat \ {0} /\ distance \in Nat
  BY <1>2, MatchFacts
<1>4. n \in Nat /\ hlen \in 1..distance - since BY <1>1, RingCopyFacts
<1>5. hlen >= 1 BY <1>3, <1>4
<1>6. CASE n = hlen /\ pc' \in {"slow", "dst"}
  BY <1>1, <1>3, <1>5, <1>6 DEF Progress, ShortWriteMakesProgress
<1>7. CASE pc' = "hist_start" BY <1>7, ProgressElsewhere
<1>8. CASE n # hlen /\ pc' = "caller"
  <2>1. Mask(hdist) \in 0..R - 1 BY <1>3, MaskCases
  <2>2. n = 0 => avail = 0 BY <1>3, <1>5, <2>1 DEF SliceCount, Minimum
  <2> QED BY <1>1, <1>2, <1>4, <1>8, <2>2, ProgressYield
<1> QED BY <1>1, <1>3, <1>4, <1>6, <1>7, <1>8

LEMMA CopyFromBufferProgress ==
  ASSUME ResumableCopies, Progress, CopyFromBuffer
  PROVE  Progress'
<1> DEFINE n == IF since < distance THEN 0 ELSE Minimum(length, avail)
<1>1. /\ pc = "dst" /\ since' = since + n /\ avail' = avail - n /\ pc' \in {"slow", "caller"}
  BY DEF CopyFromBuffer, Write, GoTo, Yield
<1>2. pc \in MatchPoints /\ TypeOK BY <1>1 DEF MatchPoints, ResumableCopies
<1>3. n \in Nat BY <1>2, MatchFacts DEF Minimum
<1>4. since > 0 BY <1>1 DEF Progress
<1> QED BY <1>1, <1>2, <1>3, <1>4, ProgressYield, ProgressElsewhere

LEMMA ProgressStep ==
  ASSUME ResumableCopies, Progress, [Next]_vars
  PROVE  Progress'
<1> USE DeflateHistoryAssumption
<1>1. TypeOK BY DEF ResumableCopies
<1>2. since \in Nat /\ avail \in Nat /\ resume \in Resumable BY <1>1 DEF TypeOK
<1>3. CASE \E cap \in 0..MaxCap : Call(cap)
  BY <1>2, <1>3, ProgressElsewhere DEF Call, Resumable
<1>4. CASE \/ ShortRead \/ BadStream \/ DecodeDone \/ EndOfBlock \/ FastExit \/ FastCopy
           \/ \E f \in BOOLEAN : HuffmanHeader(f)
           \/ \E f \in BOOLEAN, n \in 0..MaxStored : StoredHeader(f, n)
           \/ \E b \in Bytes : SlowLiteral(b)
           \/ \E l \in Lengths, d \in 1..R : SlowMatch(l, d)
  <2>1. pc' # "dst" /\ (pc' = "caller" => status' # "short_write")
    BY <1>4 DEF ShortRead, BadStream, DecodeDone, EndOfBlock, FastExit, FastCopy, HuffmanHeader, StoredHeader,
                SlowLiteral, SlowMatch, Yield, GoTo, Return
  <2> QED BY <2>1, ProgressElsewhere
<1>5. ASSUME NEW bytes \in Runs \cup {<< >>}, Stored(bytes) PROVE Progress'
  <2>1. \/ pc' = "blocks"
        \/ /\ pc' = "caller" /\ avail' = avail - Len(bytes)
           /\ status' = IF avail - Len(bytes) = 0 THEN "short_write" ELSE "short_read"
    BY <1>5 DEF Stored, Write, GoTo, Yield
  <2> QED BY <2>1 DEF Progress, ShortWriteMakesProgress
<1>6. ASSUME NEW b \in Bytes, FastLiteral(b) PROVE Progress'
  BY <1>6, ProgressElsewhere DEF FastLiteral, coroutine
<1>7. ASSUME NEW l \in Lengths, NEW d \in 1..R, FastMatch(l, d) PROVE Progress'
  <2>1. pc' \in {"fast", "fast_dst", "returned"} BY <1>7 DEF FastMatch, GoTo, Return
  <2> QED BY <2>1, ProgressElsewhere
<1>8. CASE WriteU8
  <2>1. \/ pc' = "slow"
        \/ pc' = "caller" /\ avail = 0 /\ UNCHANGED <<since, avail>>
    BY <1>8 DEF WriteU8, GoTo, Yield, buffer
  <2> QED BY <2>1 DEF Progress, ShortWriteMakesProgress
<1>9. CASE SplitMatch
  <2>1. \/ pc' \in {"returned", "hist_end"}
        \/ pc' = "dst" /\ distance <= since /\ since' = since /\ pc = "match"
    BY <1>9 DEF SplitMatch, GoTo, Return, buffer
  <2>2. pc = "match" => distance \in 1..R BY MatchFacts DEF MatchPoints
  <2> QED BY <1>2, <2>1, <2>2, ProgressElsewhere DEF Progress, ShortWriteMakesProgress
<1>10. CASE CopyToRingEnd \/ CopyFromRingStart BY <1>10, RingCopyProgress
<1>11. CASE CopyFromBuffer BY <1>11, CopyFromBufferProgress
<1>12. CASE Returned \/ UNCHANGED vars
  <2>1. UNCHANGED <<pc, status, since, avail>> BY <1>12 DEF Returned, vars, coroutine, buffer
  <2> QED BY <2>1 DEF Progress, ShortWriteMakesProgress
<1> QED
  BY <1>3, <1>4, <1>5, <1>6, <1>7, <1>8, <1>9, <1>10, <1>11, <1>12 DEF Next, Decode

(* decode reports "short write" only after it has written to the buffer or *)
(* if the buffer had no space, as the fuzzers demand, although the yield   *)
(* of copy_from_history32 is also taken when there is space.               *)
THEOREM ShortWriteInvariant == Spec => []ShortWriteMakesProgress
<1>1. Init => Progress BY DEF Init, Progress, ShortWriteMakesProgress
<1>2. ResumableCopies /\ Progress /\ [Next]_vars => Progress' BY ProgressStep
<1>3. Progress => ShortWriteMakesProgress BY DEF Progress
<1> QED BY <1>1, <1>2, <1>3, ResumableCopiesInvariant, PTL DEF Spec

=============================================================================
