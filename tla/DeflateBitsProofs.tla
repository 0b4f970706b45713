------------------------- MODULE DeflateBitsProofs -------------------------
(***************************************************************************)
(* Proofs about DeflateBits for every set of code lengths and extra bits   *)
(* and for source buffers and streams of any length.                       *)
(***************************************************************************)
EXTENDS DeflateBits, TLAPS

(* Every point's name, to expand the memberships in the steps below.       *)
Points == Resumable \cup FastPoints \cup
            {"caller", "returned", "uncompressed", "fast", "f_rewind", "slow", "slow_exit"}

LEMMA InitStep == Init => BitAccounting
<1> USE DeflateBitsAssumption
<1> SUFFICES ASSUME Init PROVE BitAccounting OBVIOUS
<1>1. TypeOK
  <2>1. eob \in BOOLEAN BY DEF Init
  <2>2. /\ pc = "caller" /\ resume = "header" /\ status = "not_called"
        /\ n_bits = 0 /\ width = 0 /\ want = 3 /\ short = 0
        /\ avail = 0 /\ got = 0 /\ read = 0 /\ used = 0
    BY DEF Init
  <2> QED BY <2>1, <2>2 DEF TypeOK, Resumable, Fields
<1>2. NoBitIsLost /\ NoInternalError /\ FastLoopHasSource
  BY DEF Init, NoBitIsLost, NoInternalError, FastLoopHasSource, FastPoints, SourceNeeded
<1>3. BitsPerPoint
  BY DEF Init, BitsPerPoint, At, Fields, Lookups, FastPoints
<1> QED BY <1>1, <1>2, <1>3 DEF BitAccounting

(* The state in numbers.                                                   *)
LEMMA Numbers ==
  ASSUME BitAccounting
  PROVE  /\ n_bits \in 0..32 /\ width \in 0..32 /\ want \in 0..15 /\ short \in 0..15
         /\ avail \in Nat /\ got \in Nat /\ read \in Nat /\ used \in Nat
         /\ eob \in BOOLEAN
BY DEF BitAccounting, TypeOK

LEMMA CallStep ==
  ASSUME BitAccounting, NEW n \in 0..MaxSrc, Call(n)
  PROVE  BitAccounting'
<1>1. n \in Nat BY DeflateBitsAssumption
<1>2. /\ pc = "caller" /\ pc' = resume /\ avail' = n /\ got' = 0
      /\ UNCHANGED <<resume, status, n_bits, width, want, short, eob, read, used>>
  BY DEF Call
<1>3. resume \in Resumable /\ resume \notin FastPoints
  BY DEF BitAccounting, TypeOK, FastLoopHasSource
<1>4. resume \notin {"caller", "returned", "f_rewind"} /\ At' = At
  BY <1>2, <1>3 DEF At, Resumable, Fields, Lookups
<1>5. TypeOK' BY <1>1, <1>2, <1>3 DEF BitAccounting, TypeOK
<1>6. NoBitIsLost' BY <1>2, <1>4 DEF BitAccounting, NoBitIsLost
<1>7. NoInternalError' BY <1>2 DEF BitAccounting, NoInternalError
<1>8. FastLoopHasSource'
  BY <1>1, <1>2, <1>3 DEF FastLoopHasSource, SourceNeeded, FastPoints
<1>9. BitsPerPoint'
  BY <1>2, <1>3, <1>4 DEF BitAccounting, BitsPerPoint, At, Resumable, Fields, Lookups, FastPoints
<1> QED BY <1>5, <1>6, <1>7, <1>8, <1>9 DEF BitAccounting

LEMMA ReadU8Step ==
  ASSUME BitAccounting, ReadU8
  PROVE  BitAccounting'
<1>1. /\ pc \in Fields \cup Lookups /\ avail > 0
      /\ n_bits < want \/ n_bits < 15
      /\ pc \in Fields => n_bits < want /\ short' = short
      /\ pc \in Lookups => n_bits < 15 /\ short' = n_bits
      /\ n_bits' = n_bits + 8 /\ avail' = avail - 1 /\ got' = got + 1 /\ read' = read + 1
      /\ width' = (IF n_bits + 8 <= 32 THEN n_bits + 8 ELSE 32)
      /\ UNCHANGED <<pc, resume, status, want, eob, used>>
  <2>1. \A n \in Codes : n \in 1..15 BY DeflateBitsAssumption
  <2>2. n_bits \in Int BY Numbers
  <2> QED BY <2>1, <2>2 DEF ReadU8, Load, Fields, Lookups
<1>2. /\ n_bits \in 0..32 /\ width \in 0..32 /\ want \in 0..15 /\ short \in 0..15
      /\ avail \in Nat /\ got \in Nat /\ read \in Nat /\ used \in Nat
  BY Numbers
<1>3. n_bits < 15 BY <1>1, <1>2
<1>4. n_bits' \in 0..22 /\ width' = n_bits' /\ short' \in 0..15 /\ avail' \in Nat
      /\ got' \in Nat /\ read' \in Nat
  BY <1>1, <1>2, <1>3
<1>5. TypeOK'
  <2>1. TypeOK BY DEF BitAccounting
  <2> QED BY <1>1, <1>4, <2>1 DEF TypeOK
<1>6. pc \notin {"returned", "caller"} BY <1>1 DEF Fields, Lookups
<1>7. NoBitIsLost'
  <2>1. 8 * read = used + n_bits BY <1>6 DEF BitAccounting, NoBitIsLost
  <2>2. 8 * read' = used' + n_bits' BY <2>1, <1>1, <1>2
  <2> QED BY <2>2, <1>4 DEF NoBitIsLost
<1>8. NoInternalError' BY <1>1 DEF BitAccounting, NoInternalError
<1>9. FastLoopHasSource'
  <2>1. SourceNeeded(pc') = 0 BY <1>1 DEF SourceNeeded, Fields, Lookups
  <2> QED BY <2>1, <1>1, <1>4 DEF BitAccounting, FastLoopHasSource
<1>10. BitsPerPoint'
  <2>1. At' = pc /\ At = pc BY <1>1, <1>6 DEF At
  <2>2. pc \in Fields => n_bits' <= want' + 7 BY <1>1, <1>2
  <2>3. pc \in Lookups => n_bits' <= short' + 8 BY <1>1, <1>2
  <2>4. pc \notin {"uncompressed", "fast", "slow", "slow_exit", "stored", "f_rewind"}
        /\ pc \notin FastPoints
    BY <1>1 DEF Fields, Lookups, FastPoints
  <2> QED BY <2>1, <2>2, <2>3, <2>4 DEF BitsPerPoint
<1> QED BY <1>5, <1>7, <1>8, <1>9, <1>10 DEF BitAccounting

LEMMA SuspendStep ==
  ASSUME BitAccounting, Suspend, pc \in Resumable
  PROVE  BitAccounting'
<1>1. /\ pc' = "caller" /\ resume' = pc /\ status' = "suspended"
      /\ UNCHANGED <<n_bits, width, want, short, avail, got, eob, read, used>>
  BY DEF Suspend
<1>2. pc \notin FastPoints /\ pc # "f_rewind" /\ pc # "caller" /\ pc # "returned"
  BY DEF Resumable, Fields, Lookups, FastPoints
<1>3. TypeOK' BY <1>1 DEF BitAccounting, TypeOK
<1>4. NoBitIsLost' BY <1>1, <1>2 DEF BitAccounting, NoBitIsLost
<1>5. NoInternalError' BY <1>1 DEF NoInternalError
<1>6. FastLoopHasSource'
  BY <1>1, <1>2, Numbers DEF FastLoopHasSource, SourceNeeded
<1>7. At' = At BY <1>1, <1>2 DEF At
<1>8. BitsPerPoint' BY <1>1, <1>7 DEF BitAccounting, BitsPerPoint
<1> QED BY <1>3, <1>4, <1>5, <1>6, <1>8 DEF BitAccounting

(* A step that consumes m of the bits held and leaves less than a byte.    *)
TakesBits(m, where, n) ==
  /\ n_bits' = n_bits - m /\ width' = width - m /\ used' = used + m
  /\ pc' = where /\ want' = n /\ short' = 0
  /\ UNCHANGED <<resume, status, avail, got, read>>

LEMMA TakeStep ==
  ASSUME BitAccounting, pc \in Fields \cup Lookups \cup {"uncompressed", "fast", "slow", "slow_exit"},
         NEW m \in 0..30, m <= n_bits, n_bits - m <= 7,
         NEW n \in 0..15,
         NEW where \in Fields \cup Lookups
                 \cup {"stored", "uncompressed", "fast", "slow", "slow_exit", "f_top", "f_rewind"},
         where = "stored" => n_bits = m,
         TakesBits(m, where, n), eob' \in BOOLEAN
  PROVE  BitAccounting'
<1>1. /\ n_bits' = n_bits - m /\ width' = width - m /\ used' = used + m
      /\ pc' = where /\ want' = n /\ short' = 0
      /\ UNCHANGED <<resume, status, avail, got, read>>
  BY DEF TakesBits
<1>2. /\ n_bits \in 0..32 /\ width \in 0..32
      /\ avail \in Nat /\ got \in Nat /\ read \in Nat /\ used \in Nat
  BY Numbers
<1>3. pc # "returned" /\ pc # "f_rewind" BY DEF Fields, Lookups
<1>4. 8 * read = used + n_bits /\ width = n_bits
  BY <1>3 DEF BitAccounting, NoBitIsLost
<1>5. n_bits' \in 0..7 /\ width' = n_bits' /\ used' \in Nat BY <1>1, <1>2, <1>4
<1>6. TypeOK'
  <2>1. TypeOK BY DEF BitAccounting
  <2>2. pc' \in Points BY <1>1 DEF Points, Resumable, FastPoints
  <2> QED BY <1>1, <1>5, <2>1, <2>2 DEF TypeOK, Points
<1>7. NoBitIsLost'
  <2>1. 8 * read' = used' + n_bits' BY <1>1, <1>2, <1>4
  <2> QED BY <2>1, <1>5 DEF NoBitIsLost
<1>8. NoInternalError' BY <1>1 DEF BitAccounting, NoInternalError
<1>9. FastLoopHasSource'
  <2>1. SourceNeeded(where) = 0 BY DEF SourceNeeded, Fields, Lookups
  <2> QED BY <2>1, <1>1, <1>2 DEF BitAccounting, FastLoopHasSource
<1>10. BitsPerPoint'
  <2>1. At' = where BY <1>1 DEF At, Fields, Lookups
  <2>2. n_bits' <= want' + 7 /\ n_bits' <= short' + 8 /\ n_bits' <= 7 + 8 * got'
    BY <1>1, <1>2, <1>5
  <2>3. where = "stored" => n_bits' = 0 BY <1>1, <1>2
  <2> QED BY <1>5, <2>1, <2>2, <2>3 DEF BitsPerPoint
<1> QED BY <1>6, <1>7, <1>8, <1>9, <1>10 DEF BitAccounting

LEMMA TakeFieldStep ==
  ASSUME BitAccounting, pc \in Fields, NEW n \in 0..15,
         NEW where \in Fields \cup Lookups \cup {"uncompressed", "fast"},
         TakeField(where, n)
  PROVE  BitAccounting'
<1>1. /\ n_bits \in 0..32 /\ width \in 0..32 /\ want \in 0..15 /\ eob \in BOOLEAN
  BY Numbers
<1>2. pc # "caller" /\ pc # "returned" /\ pc # "f_rewind" BY DEF Fields
<1>3. n_bits <= want + 7 BY <1>2 DEF BitAccounting, BitsPerPoint, At
<1>4. width = n_bits BY <1>2 DEF BitAccounting, NoBitIsLost
<1>5. n_bits >= want /\ eob' = eob BY DEF TakeField
<1>6. TakesBits(want, where, n)
  BY <1>1, <1>4, <1>5 DEF TakeField, Consume, GoTo, TakesBits
<1>7. want \in 0..30 /\ n_bits - want <= 7 BY <1>1, <1>3
<1>8. where # "stored" BY DEF Fields, Lookups
<1> QED BY <1>1, <1>5, <1>6, <1>7, <1>8, TakeStep

LEMMA TakeSymbolStep ==
  ASSUME BitAccounting, pc \in Lookups, NEW m \in Codes, NEW n \in 0..15,
         NEW where \in Fields \cup Lookups \cup {"fast", "slow_exit"},
         TakeSymbol(m, where, n)
  PROVE  BitAccounting'
<1>1. /\ n_bits \in 0..32 /\ width \in 0..32 /\ short \in 0..15 /\ eob \in BOOLEAN
  BY Numbers
<1>2. pc # "caller" /\ pc # "returned" /\ pc # "f_rewind" BY DEF Lookups
<1>3. n_bits <= short + 8 BY <1>2 DEF BitAccounting, BitsPerPoint, At
<1>4. width = n_bits BY <1>2 DEF BitAccounting, NoBitIsLost
<1>5. n_bits >= m /\ m > short /\ eob' = eob BY DEF TakeSymbol
<1>5a. m \in 1..15 BY DeflateBitsAssumption
<1>6. TakesBits(m, where, n)
  BY <1>1, <1>4, <1>5, <1>5a DEF TakeSymbol, Consume, GoTo, TakesBits
<1>7. m \in 0..30 /\ n_bits - m <= 7 BY <1>1, <1>3, <1>5, <1>5a
<1>8. where # "stored" BY DEF Fields, Lookups
<1> QED BY <1>1, <1>5, <1>6, <1>7, <1>8, TakeStep

(* decode returns without an internal error.                               *)
LEMMA StopStep ==
  ASSUME BitAccounting, Stop
  PROVE  BitAccounting'
<1>1. /\ pc' = "returned" /\ status' = "stopped"
      /\ UNCHANGED <<resume, want, short, n_bits, width, avail, got, eob, read, used>>
  BY DEF Stop, Return
<1>2. TypeOK' BY <1>1 DEF BitAccounting, TypeOK
<1>3. NoBitIsLost' /\ NoInternalError' BY <1>1 DEF NoBitIsLost, NoInternalError
<1>4. FastLoopHasSource'
  BY <1>1, Numbers DEF BitAccounting, FastLoopHasSource, SourceNeeded
<1>5. BitsPerPoint' BY <1>1 DEF BitsPerPoint, At, Fields, Lookups, FastPoints
<1> QED BY <1>2, <1>3, <1>4, <1>5 DEF BitAccounting

(* The test on entry and on exit of the functions never fires.             *)
LEMMA Consistent ==
  ASSUME BitAccounting, pc \in {"uncompressed", "fast", "slow", "slow_exit"}
  PROVE  ~Inconsistent /\ n_bits \in 0..7
<1>1. n_bits \in 0..32 /\ width \in 0..32 BY Numbers
<1>2. n_bits <= 7 BY DEF BitAccounting, BitsPerPoint, At
<1>3. width = n_bits BY DEF BitAccounting, NoBitIsLost
<1> QED BY <1>1, <1>2, <1>3 DEF Inconsistent

LEMMA UncompressedStep ==
  ASSUME BitAccounting, Uncompressed
  PROVE  BitAccounting'
<1>1. pc = "uncompressed" BY DEF Uncompressed
<1>2. ~Inconsistent /\ n_bits \in 0..7 BY <1>1, Consistent
<1>3. width = n_bits BY <1>1 DEF BitAccounting, NoBitIsLost
<1>4. TakesBits(n_bits, "stored", 0) /\ eob' = eob
  BY <1>2, <1>3 DEF Uncompressed, TakesBits, GoTo
<1>5. eob \in BOOLEAN BY Numbers
<1>6. n_bits \in 0..30 /\ n_bits <= n_bits /\ n_bits - n_bits <= 7 BY <1>2
<1> QED BY <1>1, <1>4, <1>5, <1>6, TakeStep

(* Entries and exits that consume nothing.                                 *)
LEMMA MoveStep ==
  ASSUME BitAccounting, FastEntry \/ SlowEntry \/ SlowExit
  PROVE  BitAccounting'
<1>1. pc \in {"fast", "slow", "slow_exit"} BY DEF FastEntry, SlowEntry, SlowExit
<1>2. ~Inconsistent /\ n_bits \in 0..7 BY <1>1, Consistent
<1>3. eob \in BOOLEAN /\ width \in 0..32 /\ used \in Nat BY Numbers
<1>4. n_bits - 0 = n_bits /\ width - 0 = width /\ used + 0 = used BY <1>2, <1>3
<1>5. eob' \in BOOLEAN BY <1>3 DEF FastEntry, SlowEntry, SlowExit
<1>6. /\ FastEntry => TakesBits(0, "f_top", 0)
      /\ SlowEntry => TakesBits(0, "l_symbol", 0)
      /\ SlowExit => TakesBits(0, "header", 3)
  BY <1>2, <1>4 DEF FastEntry, SlowEntry, SlowExit, GoTo, TakesBits
<1>7. 0 \in 0..30 /\ 0 <= n_bits /\ n_bits - 0 <= 7 BY <1>2
<1>8. "l_symbol" \in Lookups /\ "header" \in Fields BY DEF Lookups, Fields
<1> QED BY <1>1, <1>5, <1>6, <1>7, <1>8, TakeStep

LEMMA StoredStep ==
  ASSUME BitAccounting, (\E n \in 1..4 : StoredBytes(n)) \/ StoredEnd
  PROVE  BitAccounting'
<1>1. pc = "stored" BY DEF StoredBytes, StoredEnd
<1>2. /\ n_bits \in 0..32 /\ width \in 0..32
      /\ avail \in Nat /\ got \in Nat /\ read \in Nat /\ used \in Nat
  BY Numbers
<1>3. n_bits = 0 BY <1>1 DEF BitAccounting, BitsPerPoint, At
<1>4. 8 * read = used + n_bits /\ width = n_bits
  BY <1>1 DEF BitAccounting, NoBitIsLost
<1>5. /\ pc' \in {"stored", "header"} /\ UNCHANGED <<resume, status, n_bits, width, eob>>
      /\ want' \in 0..15 /\ short' \in 0..15
      /\ avail' \in Nat /\ got' \in Nat /\ read' \in Nat /\ used' \in Nat
      /\ 8 * read' = used' + n_bits'
  <2>1. CASE StoredEnd BY <2>1, <1>2, <1>4 DEF StoredEnd, GoTo
  <2>2. ASSUME NEW n \in 1..4, StoredBytes(n)
        PROVE  /\ avail' \in Nat /\ got' \in Nat /\ read' \in Nat /\ used' \in Nat
               /\ 8 * read' = used' + n_bits' /\ pc' = pc /\ want' = want /\ short' = short
               /\ UNCHANGED <<resume, status, n_bits, width, eob>>
    BY <2>2, <1>2, <1>4 DEF StoredBytes
  <2>3. want \in 0..15 /\ short \in 0..15 BY Numbers
  <2> QED BY <1>1, <2>1, <2>2, <2>3
<1>6. TypeOK'
  <2>1. TypeOK BY DEF BitAccounting
  <2> QED BY <1>5, <2>1 DEF TypeOK, Resumable, Fields
<1>7. NoBitIsLost' BY <1>3, <1>4, <1>5 DEF NoBitIsLost
<1>8. NoInternalError' BY <1>5 DEF BitAccounting, NoInternalError
<1>9. FastLoopHasSource' BY <1>5 DEF BitAccounting, FastLoopHasSource, SourceNeeded
<1>10. BitsPerPoint'
  <2>1. At' \in {"stored", "header"} BY <1>5 DEF At
  <2>2. n_bits' = 0 BY <1>3, <1>5
  <2>3. n_bits' <= want' + 7
    <3>1. want' \in 0..15 BY <1>5
    <3>2. \A w \in 0..15 : 0 <= w + 7 OBVIOUS
    <3>3. 0 <= want' + 7 BY <3>1, <3>2
    <3> QED BY <2>2, <3>3
  <2> QED BY <2>1, <2>2, <2>3 DEF BitsPerPoint, Fields, Lookups, FastPoints
<1> QED BY <1>6, <1>7, <1>8, <1>9, <1>10 DEF BitAccounting

-----------------------------------------------------------------------------
(* In the fast loop, at a point with enough source bytes: load, consume m  *)
(* bits and go on to where, which needs at least two bytes less.           *)
LEMMA FastTakeStep ==
  ASSUME BitAccounting, pc \in FastPoints \ {"f_top"},
         NEW m \in 1..15, NEW n \in 0..15, NEW e \in BOOLEAN,
         NEW where \in FastPoints \cup {"f_rewind"},
         SourceNeeded(where) + 2 <= SourceNeeded(pc),
         FastTake(m, where, n, e)
  PROVE  BitAccounting'
<1>1. /\ n_bits \in 0..32 /\ width \in 0..32
      /\ avail \in Nat /\ got \in Nat /\ read \in Nat /\ used \in Nat
  BY Numbers
<1>2. pc # "caller" /\ pc # "returned" /\ pc # "f_rewind" BY DEF FastPoints
<1>3. 8 * read = used + n_bits /\ width = n_bits /\ n_bits <= 30
  BY <1>2 DEF BitAccounting, NoBitIsLost
<1>4. n_bits <= 7 + 8 * got BY <1>2 DEF BitAccounting, BitsPerPoint, At
<1>5. avail >= SourceNeeded(pc) BY DEF BitAccounting, FastLoopHasSource
<1>6. SourceNeeded(where) \in Nat BY DEF SourceNeeded
<1>6a. SourceNeeded(pc) \in Nat BY DEF SourceNeeded
<1>7. avail >= 2 /\ avail - 2 >= SourceNeeded(where) BY <1>1, <1>5, <1>6, <1>6a
<1>8. /\ pc' = where /\ want' = n /\ short' = 0 /\ eob' = e
      /\ UNCHANGED <<resume, status>> /\ FillAndConsume(m)
  BY <1>1, <1>7 DEF FastTake, GoTo
<1>9. /\ n_bits' \in 0..30 /\ width' = n_bits' /\ 8 * read' = used' + n_bits'
      /\ avail' \in Nat /\ got' \in Nat /\ read' \in Nat /\ used' \in Nat
      /\ avail' >= SourceNeeded(where) /\ n_bits' <= 7 + 8 * got'
  <2>1. CASE n_bits < 15
    <3>1. /\ n_bits' = n_bits + 16 - m /\ used' = used + m
          /\ width' = n_bits + 16 - m
          /\ avail' = avail - 2 /\ got' = got + 2 /\ read' = read + 2
      BY <1>1, <1>8, <2>1 DEF FillAndConsume, Consume
    <3> QED BY <3>1, <2>1, <1>1, <1>3, <1>4, <1>6, <1>7
  <2>2. CASE ~(n_bits < 15)
    <3>1. /\ n_bits' = n_bits - m /\ used' = used + m /\ width' = width - m
          /\ UNCHANGED <<avail, got, read>>
      BY <1>1, <1>3, <1>8, <2>2 DEF FillAndConsume, Consume
    <3> QED BY <3>1, <2>2, <1>1, <1>3, <1>4, <1>6, <1>7
  <2> QED BY <2>1, <2>2
<1>10. TypeOK'
  <2>1. TypeOK BY DEF BitAccounting
  <2> QED BY <1>8, <1>9, <2>1 DEF TypeOK, FastPoints
<1>11. NoBitIsLost' BY <1>9 DEF NoBitIsLost
<1>12. NoInternalError' BY <1>8 DEF BitAccounting, NoInternalError
<1>13. FastLoopHasSource' BY <1>8, <1>9 DEF BitAccounting, FastLoopHasSource
<1>14. BitsPerPoint'
  <2>1. At' = where BY <1>8 DEF At, FastPoints
  <2>2. where \notin Fields /\ where \notin Lookups
        /\ where \notin {"uncompressed", "fast", "slow", "slow_exit", "stored"}
    BY DEF Fields, Lookups, FastPoints
  <2>3. n_bits' <= width' BY <1>9
  <2> QED BY <1>9, <2>1, <2>2, <2>3 DEF BitsPerPoint
<1> QED BY <1>10, <1>11, <1>12, <1>13, <1>14 DEF BitAccounting

(* A step within the fast loop that reads nothing.                         *)
LEMMA FastMoveStep ==
  ASSUME BitAccounting, pc \in FastPoints,
         NEW where \in FastPoints \cup {"f_rewind"},
         SourceNeeded(where) <= avail, GoTo(where, 0),
         UNCHANGED <<n_bits, width, avail, got, eob, read, used>>
  PROVE  BitAccounting'
<1>1. pc # "caller" /\ pc # "returned" /\ pc # "f_rewind" BY DEF FastPoints
<1>2. /\ pc' = where /\ want' = 0 /\ short' = 0 /\ UNCHANGED <<resume, status>>
  BY DEF GoTo
<1>3. TypeOK'
  <2>1. TypeOK BY DEF BitAccounting
  <2> QED BY <1>2, <2>1 DEF TypeOK, FastPoints
<1>4. NoBitIsLost' BY <1>1, <1>2 DEF BitAccounting, NoBitIsLost
<1>5. NoInternalError' BY <1>2 DEF BitAccounting, NoInternalError
<1>6. FastLoopHasSource'
  <2>1. avail \in Nat /\ SourceNeeded(where) \in Nat BY Numbers DEF SourceNeeded
  <2> QED BY <1>2, <2>1 DEF BitAccounting, FastLoopHasSource
<1>7. n_bits <= 7 + 8 * got /\ width = n_bits /\ n_bits \in 0..32
  BY <1>1, Numbers DEF BitAccounting, BitsPerPoint, NoBitIsLost, At
<1>8. BitsPerPoint'
  BY <1>2, <1>7 DEF BitsPerPoint, At, Fields, Lookups, FastPoints
<1> QED BY <1>3, <1>4, <1>5, <1>6, <1>8 DEF BitAccounting

LEMMA FastSteps ==
  ASSUME BitAccounting,
         \/ FastIterate \/ FastLeave \/ FastLcode \/ FastDcode
         \/ FastExtra("f_l_extra", "f_d") \/ FastExtra("f_d_extra", "f_top")
  PROVE  BitAccounting'
<1>1. avail \in Nat /\ want \in 0..15 /\ eob \in BOOLEAN BY Numbers
<1>2. /\ SourceNeeded("f_top") = 0 /\ SourceNeeded("f_rewind") = 0
      /\ SourceNeeded("f_l") = 12 /\ SourceNeeded("f_l_redirect") = 10
      /\ SourceNeeded("f_l_extra") = 8 /\ SourceNeeded("f_d") = 6
      /\ SourceNeeded("f_d_redirect") = 4 /\ SourceNeeded("f_d_extra") = 2
  BY DEF SourceNeeded
<1>3. \A m \in Codes : m \in 1..15 BY DeflateBitsAssumption
<1>4. \A n \in Extras : n \in 0..15 BY DeflateBitsAssumption
<1>5. /\ FastPoints = {"f_top", "f_l", "f_l_redirect", "f_l_extra", "f_d",
                       "f_d_redirect", "f_d_extra"}
      /\ 0 \in 0..15 /\ TRUE \in BOOLEAN
  BY DEF FastPoints
<1>6. CASE FastIterate
  BY <1>1, <1>2, <1>5, <1>6, FastMoveStep DEF FastIterate, EnoughSource
<1>7. CASE FastLeave BY <1>1, <1>2, <1>5, <1>7, FastMoveStep DEF FastLeave
<1>8. CASE FastLcode
  <2>1. pc \in {"f_l", "f_l_redirect"} BY <1>8 DEF FastLcode
  <2>2. pc \in FastPoints \ {"f_top"} /\ SourceNeeded(pc) \in {10, 12}
        /\ (pc = "f_l" => SourceNeeded(pc) = 12)
    BY <2>1, <1>2, <1>5
  <2>3. PICK m \in Codes :
          \/ FastTake(m, "f_top", 0, eob)
          \/ FastTake(m, "f_rewind", 0, TRUE)
          \/ pc = "f_l" /\ FastTake(m, "f_l_redirect", 0, eob)
          \/ \E n \in Extras : FastTake(m, "f_l_extra", n, eob)
    BY <1>8 DEF FastLcode
  <2>4. m \in 1..15 BY <1>3
  <2>5. CASE FastTake(m, "f_top", 0, eob)
    BY <1>1, <1>2, <1>5, <2>2, <2>4, <2>5, FastTakeStep, SMTT(30)
  <2>6. CASE FastTake(m, "f_rewind", 0, TRUE)
    <3>1. ASSUME NEW e \in BOOLEAN, FastTake(m, "f_rewind", 0, e) PROVE BitAccounting'
      BY <1>1, <1>2, <1>5, <2>2, <2>4, <3>1, FastTakeStep, SMTT(30)
    <3> QED BY <2>6, <3>1
  <2>7. CASE pc = "f_l" /\ FastTake(m, "f_l_redirect", 0, eob)
    BY <1>1, <1>2, <1>5, <2>2, <2>4, <2>7, FastTakeStep, SMTT(30)
  <2>8. CASE \E n \in Extras : FastTake(m, "f_l_extra", n, eob)
    BY <1>1, <1>2, <1>4, <1>5, <2>2, <2>4, <2>8, FastTakeStep, SMTT(30)
  <2> QED BY <2>3, <2>5, <2>6, <2>7, <2>8
<1>9. CASE FastDcode
  <2>1. pc \in {"f_d", "f_d_redirect"} BY <1>9 DEF FastDcode
  <2>2. pc \in FastPoints \ {"f_top"} /\ SourceNeeded(pc) \in {4, 6}
        /\ (pc = "f_d" => SourceNeeded(pc) = 6)
    BY <2>1, <1>2, <1>5
  <2>3. PICK m \in Codes :
          \/ pc = "f_d" /\ FastTake(m, "f_d_redirect", 0, eob)
          \/ \E n \in Extras : FastTake(m, "f_d_extra", n, eob)
    BY <1>9 DEF FastDcode
  <2>4. m \in 1..15 BY <1>3
  <2>5. CASE pc = "f_d" /\ FastTake(m, "f_d_redirect", 0, eob)
    BY <1>1, <1>2, <1>5, <2>2, <2>4, <2>5, FastTakeStep, SMTT(30)
  <2>6. CASE \E n \in Extras : FastTake(m, "f_d_extra", n, eob)
    BY <1>1, <1>2, <1>4, <1>5, <2>2, <2>4, <2>6, FastTakeStep, SMTT(30)
  <2> QED BY <2>3, <2>5, <2>6
<1>10. ASSUME NEW from \in {"f_l_extra", "f_d_extra"}, NEW where \in FastPoints,
              SourceNeeded(where) + 2 <= SourceNeeded(from), FastExtra(from, where)
       PROVE  BitAccounting'
  <2>1. pc = from /\ pc \in FastPoints \ {"f_top"} BY <1>5, <1>10 DEF FastExtra
  <2>2. avail >= SourceNeeded(from) BY <2>1 DEF BitAccounting, FastLoopHasSource
  <2>3. SourceNeeded(where) <= avail
    <3>1. SourceNeeded(where) \in Nat /\ SourceNeeded(from) \in Nat BY DEF SourceNeeded
    <3> QED BY <3>1, <2>2, <1>1, <1>10
  <2>4. CASE want > 0
    <3>1. FastTake(want, where, 0, eob) /\ want \in 1..15
      BY <1>1, <1>10, <2>4 DEF FastExtra
    <3> QED BY <1>1, <1>5, <1>10, <2>1, <3>1, FastTakeStep
  <2>5. CASE ~(want > 0)
    <3>1. GoTo(where, 0) /\ UNCHANGED <<n_bits, width, avail, got, eob, read, used>>
      BY <1>10, <2>5 DEF FastExtra
    <3> QED BY <2>1, <2>3, <3>1, FastMoveStep
  <2> QED BY <2>4, <2>5
<1>11. CASE FastExtra("f_l_extra", "f_d") BY <1>2, <1>5, <1>10, <1>11
<1>12. CASE FastExtra("f_d_extra", "f_top") BY <1>2, <1>5, <1>10, <1>12
<1> QED BY <1>6, <1>7, <1>8, <1>9, <1>11, <1>12

LEMMA UnreadU8Step ==
  ASSUME BitAccounting, UnreadU8
  PROVE  BitAccounting'
<1>1. /\ n_bits \in 0..32 /\ width \in 0..32 /\ want \in 0..15 /\ short \in 0..15
      /\ avail \in Nat /\ got \in Nat /\ read \in Nat /\ used \in Nat
  BY Numbers
<1>2. pc = "f_rewind" /\ n_bits >= 8 BY DEF UnreadU8
<1>3. /\ 8 * read = used + n_bits /\ n_bits <= 30
      /\ n_bits <= 7 + 8 * got /\ n_bits <= width
  BY <1>2 DEF BitAccounting, NoBitIsLost, BitsPerPoint, At
<1>4. got # 0 BY <1>1, <1>2, <1>3
<1>5. /\ pc' = "f_rewind" /\ want' = 0 /\ short' = 0 /\ n_bits' = n_bits - 8
      /\ avail' = avail + 1 /\ got' = got - 1 /\ read' = read - 1
      /\ UNCHANGED <<resume, status, width, eob, used>>
  BY <1>4 DEF UnreadU8, GoTo
<1>6. /\ n_bits' \in 0..30 /\ avail' \in Nat /\ got' \in Nat /\ read' \in Nat
      /\ 8 * read' = used' + n_bits' /\ n_bits' <= 7 + 8 * got' /\ n_bits' <= width'
  BY <1>1, <1>2, <1>3, <1>4, <1>5
<1>7. TypeOK'
  <2>1. TypeOK BY DEF BitAccounting
  <2> QED BY <1>5, <1>6, <2>1 DEF TypeOK
<1>8. NoBitIsLost' BY <1>5, <1>6 DEF NoBitIsLost
<1>9. NoInternalError' BY <1>5 DEF BitAccounting, NoInternalError
<1>10. FastLoopHasSource'
  <2>1. SourceNeeded(pc') = 0 BY <1>5 DEF SourceNeeded
  <2> QED BY <1>5, <1>6, <2>1 DEF BitAccounting, FastLoopHasSource
<1>11. BitsPerPoint'
  <2>1. At' = "f_rewind" BY <1>5 DEF At
  <2> QED BY <1>6, <2>1 DEF BitsPerPoint, Fields, Lookups
<1> QED BY <1>7, <1>8, <1>9, <1>10, <1>11 DEF BitAccounting

LEMMA FastReturnStep ==
  ASSUME BitAccounting, FastReturn
  PROVE  BitAccounting'
<1>1. n_bits \in 0..32 /\ width \in 0..32 /\ avail \in Nat /\ got \in Nat BY Numbers
<1>2. pc = "f_rewind" /\ n_bits < 8 /\ width' = MaskedWidth BY DEF FastReturn
<1>3. 8 * read = used + n_bits /\ n_bits <= width
  BY <1>2 DEF BitAccounting, NoBitIsLost, BitsPerPoint, At
<1>4. width' = n_bits BY <1>1, <1>2, <1>3 DEF MaskedWidth
<1>5. /\ \/ pc' = "header" /\ want' = 3
         \/ pc' = "slow" /\ want' = 0
      /\ short' = 0
      /\ UNCHANGED <<resume, status, n_bits, avail, got, eob, read, used>>
  BY <1>1, <1>2, <1>4 DEF FastReturn, GoTo
<1>6. TypeOK'
  <2>1. TypeOK BY DEF BitAccounting
  <2>2. pc' \in Resumable \cup {"slow"} /\ want' \in 0..15 /\ width' \in 0..32
    BY <1>1, <1>4, <1>5 DEF Resumable, Fields
  <2> QED BY <1>5, <2>1, <2>2 DEF TypeOK
<1>7. NoBitIsLost' BY <1>1, <1>2, <1>3, <1>4, <1>5 DEF NoBitIsLost
<1>8. NoInternalError' BY <1>5 DEF BitAccounting, NoInternalError
<1>9. FastLoopHasSource'
  <2>1. SourceNeeded(pc') = 0 BY <1>5 DEF SourceNeeded
  <2> QED BY <1>1, <1>5, <2>1 DEF BitAccounting, FastLoopHasSource
<1>10. BitsPerPoint'
  <2>1. (At' = "header" /\ want' = 3) \/ At' = "slow" BY <1>5 DEF At
  <2>2. n_bits' <= 7 BY <1>1, <1>2, <1>5
  <2>3. n_bits' <= 3 + 7 BY <1>1, <1>2, <1>5
  <2> QED BY <2>1, <2>2, <2>3 DEF BitsPerPoint, Fields, Lookups, FastPoints
<1> QED BY <1>6, <1>7, <1>8, <1>9, <1>10 DEF BitAccounting

-----------------------------------------------------------------------------
(* The slow functions.                                                     *)
LEMMA SlowSteps ==
  ASSUME BitAccounting,
         \/ HeaderStored \/ HeaderFixed \/ HeaderDynamic \/ Counts \/ CodeLength
         \/ CodeLengthSymbol \/ CodeLengthRepeat
         \/ SlowLcode \/ SlowLextra \/ SlowDcode \/ SlowDextra
  PROVE  BitAccounting'
<1>1. /\ {"header", "counts", "clens", "cl_extra", "l_extra", "d_extra"} = Fields
      /\ {"cl_symbol", "l_symbol", "l_redirect", "d_symbol", "d_redirect"} = Lookups
  BY DEF Fields, Lookups
<1>2. 0 \in 0..15 /\ 3 \in 0..15 /\ 14 \in 0..15 /\ {2, 3, 7} \subseteq 0..15 OBVIOUS
<1>3. Extras \subseteq 0..15 BY DeflateBitsAssumption
<1>4. CASE HeaderStored \/ HeaderFixed \/ HeaderDynamic
  BY <1>1, <1>2, <1>4, TakeFieldStep DEF HeaderStored, HeaderFixed, HeaderDynamic
<1>5. CASE Counts BY <1>1, <1>2, <1>5, TakeFieldStep DEF Counts
<1>6. CASE CodeLength BY <1>1, <1>2, <1>6, TakeFieldStep DEF CodeLength
<1>7. CASE CodeLengthSymbol
  BY <1>1, <1>2, <1>7, TakeSymbolStep DEF CodeLengthSymbol
<1>8. CASE CodeLengthRepeat BY <1>1, <1>2, <1>8, TakeFieldStep DEF CodeLengthRepeat
<1>9. CASE SlowLcode BY <1>1, <1>2, <1>3, <1>9, TakeSymbolStep DEF SlowLcode
<1>10. CASE SlowLextra BY <1>1, <1>2, <1>10, TakeFieldStep DEF SlowLextra
<1>11. CASE SlowDcode BY <1>1, <1>2, <1>3, <1>11, TakeSymbolStep DEF SlowDcode
<1>12. CASE SlowDextra BY <1>1, <1>2, <1>12, TakeFieldStep DEF SlowDextra
<1> QED BY <1>4, <1>5, <1>6, <1>7, <1>8, <1>9, <1>10, <1>11, <1>12

LEMMA StutterStep ==
  ASSUME BitAccounting, UNCHANGED vars
  PROVE  BitAccounting'
<1>1. UNCHANGED <<pc, resume, status, n_bits, width, want, short, avail, got, eob, read, used>>
  BY DEF vars
<1>2. At' = At BY <1>1 DEF At
<1>3. TypeOK' BY <1>1 DEF BitAccounting, TypeOK
<1>4. NoBitIsLost' /\ NoInternalError' BY <1>1 DEF BitAccounting, NoBitIsLost, NoInternalError
<1>5. FastLoopHasSource' BY <1>1 DEF BitAccounting, FastLoopHasSource
<1>6. BitsPerPoint' BY <1>1, <1>2 DEF BitAccounting, BitsPerPoint
<1> QED BY <1>3, <1>4, <1>5, <1>6 DEF BitAccounting

LEMMA NextStep ==
  ASSUME BitAccounting, [Next]_vars
  PROVE  BitAccounting'
<1>1. CASE \E n \in 0..MaxSrc : read + n <= MaxRead /\ Call(n) BY <1>1, CallStep
<1>2. CASE ReadU8 BY <1>2, ReadU8Step
<1>3. CASE ShortRead \/ ShortWrite \/ StoredShortRead
  <2>1. Suspend /\ pc \in Resumable
    BY <1>3 DEF ShortRead, ShortWrite, StoredShortRead, Resumable, Lookups
  <2> QED BY <2>1, SuspendStep
<1>4. CASE Blocks
  <2>1. CASE StoredShortRead BY <1>3, <2>1
  <2> QED BY <1>4, <2>1, SlowSteps, StopStep, UncompressedStep, StoredStep DEF Blocks
<1>5. CASE Fast
  BY <1>5, MoveStep, FastSteps, UnreadU8Step, FastReturnStep DEF Fast
<1>6. CASE Slow BY <1>6, MoveStep, SlowSteps DEF Slow
<1>7. CASE Returned \/ UNCHANGED vars BY <1>7, StutterStep DEF Returned
<1> QED BY <1>1, <1>2, <1>3, <1>4, <1>5, <1>6, <1>7 DEF Next

(* For every prefix free code and every cut of the stream into buffers, no *)
(* bit of the stream is lost or used twice, decode_huffman_fast neither    *)
(* suspends nor gives back a byte it did not read, and the internal errors *)
(* "inconsistent n_bits" and "invalid I/O operation" are unreachable.      *)
THEOREM BitAccountingInvariant == Spec => []BitAccounting
<1>1. Init => BitAccounting BY InitStep
<1>2. BitAccounting /\ [Next]_vars => BitAccounting' BY NextStep
<1> QED BY <1>1, <1>2, PTL DEF Spec

(* decode_uncompressed skips less than a byte and starts at a byte         *)
(* boundary of the stream.                                                 *)
THEOREM StoredAlignment == Spec => StoredIsAligned
<1> DEFINE Aligned == pc = "uncompressed" => used' - used < 8 /\ used' = 8 * read
<1>1. BitAccounting /\ [Next]_vars => [Aligned]_vars
  <2> SUFFICES ASSUME BitAccounting, Next, pc = "uncompressed"
               PROVE  used' - used < 8 /\ used' = 8 * read
    OBVIOUS
  <2>1. ~Inconsistent /\ n_bits \in 0..7 BY Consistent
  <2>2. 8 * read = used + n_bits BY DEF BitAccounting, NoBitIsLost
  <2>3. Uncompressed
    BY DEF Next, Call, ReadU8, ShortRead, ShortWrite, Blocks, Fast, Slow, Returned,
           HeaderStored, HeaderFixed, HeaderDynamic, Stop, StoredBytes,
           StoredShortRead, StoredEnd, Counts, CodeLength, CodeLengthSymbol,
           CodeLengthRepeat, FastEntry, FastIterate, FastLeave, FastLcode, FastDcode,
           FastExtra, UnreadU8, FastReturn, SlowEntry, SlowLcode, SlowLextra, SlowDcode,
           SlowDextra, SlowExit, Fields, Lookups
  <2>4. used' = used + n_bits BY <2>1, <2>3 DEF Uncompressed
  <2>5. used \in Nat /\ read \in Nat BY Numbers
  <2> QED BY <2>1, <2>2, <2>4, <2>5
<1> QED BY <1>1, BitAccountingInvariant, PTL DEF Spec, StoredIsAligned

=============================================================================
