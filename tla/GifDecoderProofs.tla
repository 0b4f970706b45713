-------------------------- MODULE GifDecoderProofs --------------------------
(***************************************************************************)
(* For all field lengths, sub-block sizes and source buffers: the gif      *)
(* decoder never meets its internal error; it stays in step with the       *)
(* stream, and no frame resumes an lzw.decode of another frame, as long as *)
(* encoders end their LZW data and their loop extensions where they should *)
(* end.                                                                    *)
(***************************************************************************)
EXTENDS GifDecoder, TLAPS

USE DEF Methods, ExtensionPoints, ConfigPoints, FramePoints, Long, At

LEMMA Lengths ==
  /\ HeaderLen \in Nat /\ DescLen \in Nat /\ IdLen \in Nat /\ IdLen # 0 /\ HeaderLen > 0 /\ DescLen > 0
  /\ \A n \in TableLens : n \in Nat
  /\ \A n \in Sizes : n \in Nat
  /\ MaxSrc \in Nat
<1>1. /\ HeaderLen \in Nat /\ DescLen \in Nat /\ IdLen \in Nat \ {0, 3} /\ HeaderLen > 0 /\ DescLen > 0
      /\ TableLens \subseteq Nat /\ Sizes \subseteq Nat /\ MaxSrc \in Nat
  BY GifDecoderAssumption
<1> QED BY <1>1

(* A method runs only while there is no error, and it is the active one.   *)
LEMMA Running ==
  ASSUME Control, pc # "caller"
  PROVE  /\ self_status = "ok" /\ method = Active /\ Point = pc
         /\ call_sequence \in {0, 1}
         /\ call_sequence = 0 => pc \in ConfigPoints \cup {"c_top"} /\ resume["decode_frame"] = "start"
         /\ call_sequence = 1 => /\ pc \in FramePoints \cup {"f_top", "lzw_run"}
                                /\ resume["decode_config"] = "start"
         /\ call_sequence = 1 /\ pc # "f_top" => ~peek_block_type
BY DEF Control, TypeOK, OneMethod, Point

(* Between calls, no method is within lzw.decode.                          *)
LEMMA Resumable ==
  ASSUME TypeOK, pc = "caller"
  PROVE  Point \notin {"c_top", "f_top", "lzw_run"}
BY DEF TypeOK, Point, Active

LEMMA InitStep == Init => DecoderInv
<1> SUFFICES ASSUME Init PROVE DecoderInv OBVIOUS
<1>1. /\ pc = "caller" /\ method = "decode_config" /\ ret = "not_called" /\ self_status = "ok"
      /\ resume = [m \in {"decode_config", "decode_frame"} |-> "start"] /\ call_sequence = 0
      /\ block_type = "none" /\ peek_block_type = FALSE /\ left = 0 /\ lzw = "fresh" /\ first_block = FALSE
      /\ ri = 0 /\ wi = 0 /\ role = At("header", HeaderLen) /\ in_sync = TRUE /\ stale = FALSE
  BY DEF Init
<1>2. Point = "start" BY <1>1 DEF Point, Active
<1>3. TypeOK /\ Limited
  <2>1. Buffers /\ lzw \in LzwStates /\ Limited BY <1>1 DEF Buffers, LzwStates, Limited
  <2> QED BY <1>1, <2>1 DEF TypeOK, Types
<1>4. OneMethod BY <1>1, <1>2 DEF OneMethod
<1>5. Control BY <1>1, <1>3, <1>4 DEF Control, NoInternalError
<1>6. Position BY <1>1, <1>2 DEF Position, InStep
<1>7. FreshFrames BY <1>1, <1>2 DEF FreshFrames, LzwInStep
<1> QED BY <1>5, <1>6, <1>7 DEF DecoderInv

(* Control moves to another point of the same method.                      *)
LEMMA GoToControl ==
  ASSUME Control, pc # "caller", NEW where, NEW n \in Nat, GoTo(where, n),
         where \in IF call_sequence = 0 THEN ConfigPoints \cup {"c_top"} ELSE FramePoints \cup {"f_top"},
         call_sequence' = call_sequence, block_type' \in Types \cup {"none"}, peek_block_type' \in BOOLEAN,
         call_sequence = 1 /\ where # "f_top" => ~peek_block_type',
         first_block' \in BOOLEAN, lzw' \in LzwStates, Buffers'
  PROVE  Control' /\ Point' = where /\ self_status' = "ok"
<1>1. self_status = "ok" /\ method = Active BY Running
<1>2. pc' = where /\ left' = n /\ method' = method /\ resume' = resume /\ ret' = ret /\ self_status' = self_status
  BY DEF GoTo
<1>3. where # "caller" BY DEF Control, TypeOK
<1>4. TypeOK' BY <1>2 DEF Control, TypeOK
<1>5. Active' = Active BY DEF Active
<1>6. Point' = where BY <1>2, <1>3 DEF Point
<1>7. OneMethod' BY <1>1, <1>2, <1>3, <1>5, <1>6 DEF Control, OneMethod, TypeOK
<1>8. Limited' BY <1>2 DEF Limited
<1> QED BY <1>1, <1>2, <1>4, <1>6, <1>7, <1>8 DEF Control, NoInternalError

(* lzw.decode is called, or runs on.                                       *)
LEMMA RunControl ==
  ASSUME Control, pc \in {"lzw", "lzw_run"}, GoTo("lzw_run", left), Limited',
         UNCHANGED <<call_sequence, block_type, peek_block_type>>,
         first_block' \in BOOLEAN, lzw' \in LzwStates, Buffers'
  PROVE  Control' /\ Point' = "lzw_run" /\ self_status' = "ok" /\ left' = left
<1>1. self_status = "ok" /\ method = Active /\ call_sequence = 1 /\ ~peek_block_type
      /\ resume["decode_config"] = "start"
  BY Running
<1>2. /\ pc' = "lzw_run" /\ left' = left /\ method' = method /\ resume' = resume /\ ret' = ret
      /\ self_status' = self_status
  BY DEF GoTo
<1>3. TypeOK' BY <1>2 DEF Control, TypeOK
<1>4. Active' = Active BY DEF Active
<1>5. Point' = "lzw_run" BY <1>2 DEF Point
<1>6. OneMethod' BY <1>1, <1>2, <1>4, <1>5 DEF OneMethod
<1> QED BY <1>1, <1>2, <1>3, <1>5, <1>6 DEF Control, NoInternalError

(* A suspension.                                                           *)
LEMMA SuspendControl ==
  ASSUME Control, pc # "caller", NEW why, why # "inconsistent_limited_read", NEW where, NEW n \in Nat,
         Suspend(why, where, n),
         where \in IF call_sequence = 0 THEN ConfigPoints ELSE FramePoints,
         call_sequence' = call_sequence, block_type' \in Types \cup {"none"}, peek_block_type' \in BOOLEAN,
         call_sequence = 1 => ~peek_block_type',
         first_block' \in BOOLEAN, lzw' \in LzwStates, Buffers'
  PROVE  Control' /\ Point' = where /\ self_status' = "ok" /\ left' = n
<1>1. self_status = "ok" /\ method = Active /\ call_sequence \in {0, 1} BY Running
<1>2. /\ pc' = "caller" /\ left' = n /\ method' = method /\ resume' = [resume EXCEPT ![method] = where]
      /\ ret' = why /\ self_status' = self_status
  BY DEF Suspend
<1>3. TypeOK' BY <1>2 DEF Control, TypeOK
<1>4. Active' = Active BY DEF Active
<1>5. Point' = where BY <1>1, <1>2, <1>4 DEF Point, Control, TypeOK
<1>6. resume' [IF call_sequence = 0 THEN "decode_frame" ELSE "decode_config"] = "start"
  BY <1>1, <1>2, Running DEF Active, Control, TypeOK
<1>7. OneMethod' /\ Limited' BY <1>1, <1>2, <1>4, <1>5, <1>6 DEF OneMethod, Limited
<1> QED BY <1>1, <1>2, <1>3, <1>5, <1>7 DEF Control, NoInternalError

(* An error.                                                               *)
LEMMA ErrorControl ==
  ASSUME Control, NEW what, what # "inconsistent_limited_read", what # "ok", Error(what),
         call_sequence' = call_sequence, block_type' \in Types \cup {"none"}, peek_block_type' \in BOOLEAN,
         first_block' \in BOOLEAN, lzw' \in LzwStates, Buffers'
  PROVE  Control' /\ self_status' # "ok"
BY DEF Control, TypeOK, OneMethod, Limited, NoInternalError, Error

(* Reading in step.                                                        *)
LEMMA ReadInStep ==
  ASSUME NEW f, NEW then, NEW n \in Nat, Read(f, then), n > 0, in_sync, role = At(f, n)
  PROVE  in_sync' /\ role' = IF n = 1 THEN then ELSE At(f, n - 1)
<1>1. role.field = f /\ role.left = n /\ role.left >= 1 OBVIOUS
<1>2. role' = (IF role.left = 1 THEN then ELSE At(f, role.left - 1)) /\ in_sync' = in_sync
  BY <1>1, Zenon DEF Read
<1> QED BY <1>1, <1>2

LEMMA ReadCounts ==
  ASSUME NEW f, NEW then, Read(f, then), Buffers
  PROVE  Buffers' /\ ri < wi /\ ri' = ri + 1 /\ wi' = wi
BY DEF Read, Buffers

(* What does not touch the LZW decoder, outside the LZW data.              *)
LEMMA FreshOutside ==
  ASSUME FreshFrames, Control, pc \notin {"caller", "lzw", "lzw_run", "block"}, lzw' = lzw, stale' = stale,
         Point' \notin {"lzw", "lzw_run"}
  PROVE  FreshFrames'
<1>1. lzw = "fresh" BY Running DEF FreshFrames, LzwInStep, Control, TypeOK
<1> QED BY <1>1 DEF FreshFrames, LzwInStep

LEMMA ErrorStep ==
  ASSUME DecoderInv, NEW what, what # "inconsistent_limited_read", what # "ok", Error(what),
         call_sequence' = call_sequence, block_type' \in Types \cup {"none"}, peek_block_type' \in BOOLEAN,
         first_block' \in BOOLEAN, lzw' \in LzwStates, Buffers',
         regular' => in_sync' /\ ~stale'
  PROVE  DecoderInv'
<1>1. Control' /\ self_status' # "ok" BY ErrorControl DEF DecoderInv
<1> QED BY <1>1 DEF DecoderInv, Position, FreshFrames

(* The decoder is in step when it arrives at a field with all of it left,  *)
(* the next byte of the stream being that field's.                         *)
LEMMA InStepLong ==
  ASSUME Point' \in Long, left' > 0, role' = At(FieldOf(Point'), left')
  PROVE  InStep'
<1>1. /\ Point' \notin {"c_top", "c_type", "f_type"} /\ Point' \notin {"size", "a_size", "a_sub_size"}
      /\ Point' \notin {"label", "lw", "block"} /\ Point' \notin {"start", "f_top"}
      /\ Point' # "a_one" /\ Point' \notin {"lzw", "lzw_run"} /\ Point' # "start" /\ Point' # "c_type"
  OBVIOUS
<1>2. FieldOf(Point)' = FieldOf(Point') BY DEF FieldOf
<1> QED BY <1>1, <1>2, Zenon DEF InStep, At

LEMMA InStepShort ==
  ASSUME \/ Point' \in {"c_top", "c_type", "f_type"} /\ role' = Type
         \/ Point' \in {"size", "a_size", "a_sub_size"} /\ role' = Size
         \/ Point' \in {"label", "lw", "block"} /\ role' = At(Point', 1)
         \/ Point' = "a_one" /\ role' = At("data", 3),
         Point' = "c_type" => peek_block_type'
  PROVE  InStep'
BY DEF InStep, Type, Size

LEMMA LoopStep ==
  ASSUME DecoderInv, NEW p \in Long, NEW f, f = FieldOf(p), Loop(p, f)
  PROVE  DecoderInv'
<1>1. /\ pc = p /\ left > 1 /\ Read(f, At(f, 0)) /\ GoTo(p, left - 1)
      /\ UNCHANGED <<call_sequence, block_type, peek_block_type, lzw, first_block, ended, regular, stale>>
  BY DEF Loop, config, image
<1>2. Control /\ TypeOK /\ left - 1 \in Nat BY <1>1 DEF DecoderInv, Control, TypeOK
<1>3. self_status = "ok" /\ Point = p /\ call_sequence \in {0, 1} BY <1>1, <1>2, Running
<1>4. Control' /\ Point' = p /\ self_status' = "ok" /\ left' = left - 1
  <2>1. Buffers' BY <1>1, <1>2, ReadCounts DEF TypeOK
  <2>2. p \in IF call_sequence = 0 THEN ConfigPoints \cup {"c_top"} ELSE FramePoints \cup {"f_top"}
    BY <1>1, <1>2, Running
  <2>3. call_sequence = 1 => ~peek_block_type BY <1>1, <1>2, Running
  <2>4. left' = left - 1 BY <1>1 DEF GoTo
  <2> QED BY <1>1, <1>2, <1>3, <2>1, <2>2, <2>3, <2>4, GoToControl DEF TypeOK
<1>5. ASSUME Position PROVE Position'
  <2>1. role = At(f, left) /\ in_sync BY <1>3, <1>5 DEF Position, InStep
  <2>2. in_sync' /\ role' = At(f, left - 1) BY <1>1, <1>2, <2>1, ReadInStep DEF TypeOK
  <2>3. InStep' BY <1>1, <1>2, <1>4, <2>2, InStepLong DEF TypeOK
  <2> QED BY <2>2, <2>3 DEF Position
<1>6. ASSUME FreshFrames PROVE FreshFrames' BY <1>1, <1>2, <1>4, <1>6, FreshOutside
<1> QED BY <1>1, <1>4, <1>5, <1>6 DEF DecoderInv


(* The last byte of a field, and the point and the field that follow.      *)
Follow(p, where, then) ==
  \/ p \in {"header", "table"} /\ where = "c_top" /\ then = Type
  \/ p \in {"desc", "l_table"} /\ where = "lw" /\ then = At("lw", 1)
  \/ /\ p \in {"label", "data", "a_data", "a_id", "a_sub_data", "a_two"}
     /\ where \in {"size", "a_size", "a_sub_size"} /\ then = Size

LEMMA PartStep ==
  ASSUME DecoderInv, NEW p, NEW f, NEW where, NEW then, f = FieldOf(p), Follow(p, where, then),
         Part(p, f, where, then)
  PROVE  DecoderInv'
<1>1. /\ pc = p /\ left = 1 /\ Read(f, then) /\ GoTo(where, 1)
      /\ UNCHANGED <<call_sequence, block_type, peek_block_type, lzw, first_block, ended, regular, stale>>
  BY DEF Part, config, image
<1>2. Control /\ TypeOK BY DEF DecoderInv, Control
<1>3. /\ p \in Long \cup {"label"}
      /\ \/ p \in {"header", "table"} /\ where = "c_top" /\ then = Type
         \/ p \in {"desc", "l_table"} /\ where = "lw" /\ then = At("lw", 1)
         \/ p \in ExtensionPoints /\ where \in {"size", "a_size", "a_sub_size"} /\ then = Size
  BY DEF Follow
<1>4. pc # "caller" /\ self_status = "ok" /\ Point = p /\ call_sequence \in {0, 1}
  BY <1>1, <1>2, <1>3, Running
<1>5. Control' /\ Point' = where /\ self_status' = "ok"
  <2>1. Buffers' BY <1>1, <1>2, ReadCounts DEF TypeOK
  <2>2. where \in IF call_sequence = 0 THEN ConfigPoints \cup {"c_top"} ELSE FramePoints \cup {"f_top"}
    BY <1>1, <1>2, <1>3, <1>4, Running
  <2>3. call_sequence = 1 => ~peek_block_type BY <1>1, <1>2, <1>3, <1>4, Running
  <2> QED BY <1>1, <1>2, <1>4, <2>1, <2>2, <2>3, GoToControl DEF TypeOK
<1>6. ASSUME Position PROVE Position'
  <2>1. role = At(f, 1) /\ in_sync BY <1>1, <1>3, <1>4, <1>6 DEF Position, InStep, FieldOf
  <2>2. in_sync' /\ role' = then BY <1>1, <2>1, ReadInStep
  <2>3. InStep' BY <1>3, <1>5, <2>2, InStepShort
  <2> QED BY <2>2, <2>3 DEF Position
<1>7. ASSUME FreshFrames PROVE FreshFrames' BY <1>1, <1>2, <1>3, <1>5, <1>7, FreshOutside
<1> QED BY <1>1, <1>5, <1>6, <1>7 DEF DecoderInv

(* A field of several bytes is next.                                       *)
LEMMA LongNextStep ==
  ASSUME DecoderInv, NEW p \in {"header", "desc"}, NEW where, NEW n \in Nat, n > 0,
         where = IF p = "header" THEN "table" ELSE "l_table",
         pc = p, left = 1, Read(p, At(where, n)), GoTo(where, n), UNCHANGED <<config, image>>
  PROVE  DecoderInv'
<1>1. UNCHANGED <<call_sequence, block_type, peek_block_type, lzw, first_block, ended, regular, stale>>
  BY DEF config, image
<1>2. Control /\ TypeOK BY DEF DecoderInv, Control
<1>3. self_status = "ok" /\ Point = p /\ call_sequence \in {0, 1} BY <1>2, Running
<1>4. Control' /\ Point' = where /\ self_status' = "ok" /\ left' = n
  <2>1. Buffers' BY <1>2, ReadCounts DEF TypeOK
  <2>2. where \in IF call_sequence = 0 THEN ConfigPoints \cup {"c_top"} ELSE FramePoints \cup {"f_top"}
    BY <1>2, <1>3, Running
  <2>3. call_sequence = 1 => ~peek_block_type BY <1>2, <1>3, Running
  <2>4. left' = n BY DEF GoTo
  <2> QED BY <1>1, <1>2, <1>3, <2>1, <2>2, <2>3, <2>4, GoToControl DEF TypeOK
<1>5. ASSUME Position PROVE Position'
  <2>1. role = At(p, 1) /\ in_sync BY <1>3, <1>5 DEF Position, InStep, FieldOf
  <2>2. in_sync' /\ role' = At(where, n) BY <2>1, ReadInStep
  <2>3. InStep' BY <1>4, <2>2, InStepLong DEF FieldOf
  <2> QED BY <2>2, <2>3 DEF Position
<1>6. ASSUME FreshFrames PROVE FreshFrames' BY <1>1, <1>2, <1>4, <1>6, FreshOutside
<1> QED BY <1>1, <1>4, <1>5, <1>6 DEF DecoderInv

LEMMA HeaderEndStep == ASSUME DecoderInv, HeaderEnd PROVE DecoderInv'
<1>1. PICK n \in TableLens :
        IF n = 0 THEN Part("header", "header", "c_top", Type)
        ELSE /\ pc = "header" /\ left = 1 /\ Read("header", At("table", n)) /\ GoTo("table", n)
             /\ UNCHANGED <<config, image>>
  BY Zenon DEF HeaderEnd
<1>2. n \in Nat BY Lengths
<1>3. CASE n = 0
  <2>1. Part("header", "header", "c_top", Type) BY <1>1, <1>3
  <2>2. Follow("header", "c_top", Type) /\ FieldOf("header") = "header" BY DEF Follow, FieldOf
  <2> QED BY <2>1, <2>2, PartStep
<1>4. CASE n # 0 BY <1>1, <1>2, <1>4, LongNextStep
<1> QED BY <1>3, <1>4

LEMMA DescEndStep == ASSUME DecoderInv, DescEnd PROVE DecoderInv'
<1>1. PICK n \in TableLens :
        IF n = 0 THEN Part("desc", "desc", "lw", At("lw", 1))
        ELSE /\ pc = "desc" /\ left = 1 /\ Read("desc", At("l_table", n)) /\ GoTo("l_table", n)
             /\ UNCHANGED <<config, image>>
  BY Zenon DEF DescEnd
<1>2. n \in Nat BY Lengths
<1>3. CASE n = 0
  <2>1. Part("desc", "desc", "lw", At("lw", 1)) BY <1>1, <1>3
  <2>2. Follow("desc", "lw", At("lw", 1)) /\ FieldOf("desc") = "desc" BY DEF Follow, FieldOf
  <2> QED BY <2>1, <2>2, PartStep
<1>4. CASE n # 0 BY <1>1, <1>2, <1>4, LongNextStep
<1> QED BY <1>3, <1>4


(* Nothing moves but the control between a point and its resumption.       *)
LEMMA SamePoint ==
  ASSUME DecoderInv, Control', Point' = Point,
         UNCHANGED <<self_status, left, role, in_sync, call_sequence, peek_block_type, block_type,
                     lzw, first_block, ended, regular, stale>>,
         Point = "lzw_run" => UNCHANGED <<ri, mark>>
  PROVE  DecoderInv'
<1>1. BlockLeft' = BlockLeft BY DEF BlockLeft
<1>2. Position => Position'
  <2>1. InStep => InStep'
    BY <1>1 DEF InStep, FieldOf, Type, Size, AfterType
  <2> QED BY <2>1 DEF Position
<1>3. FreshFrames => FreshFrames' BY <1>1 DEF FreshFrames, LzwInStep
<1> QED BY <1>1, <1>2, <1>3 DEF DecoderInv

LEMMA FeedStep ==
  ASSUME DecoderInv, NEW n \in 0..MaxSrc, NEW c \in BOOLEAN, Feed(n, c)
  PROVE  DecoderInv'
<1>1. /\ pc = "caller" /\ ri' = 0 /\ wi' = n + wi - ri
      /\ UNCHANGED <<pc, method, resume, ret, self_status, call_sequence, block_type, peek_block_type,
                     left, lzw, first_block, ended, regular, stale, role, in_sync>>
  BY DEF Feed, config, image
<1>2. Control /\ TypeOK /\ n \in Nat BY Lengths DEF DecoderInv, Control
<1>3. Buffers' BY <1>1, <1>2 DEF TypeOK, Buffers
<1>4. TypeOK' BY <1>1, <1>2, <1>3 DEF TypeOK
<1>5. Active' = Active /\ Point' = Point BY <1>1 DEF Active, Point
<1>6. OneMethod' /\ Limited' BY <1>1, <1>2, <1>5 DEF Control, OneMethod, Limited
<1>7. Control' BY <1>1, <1>2, <1>4, <1>6 DEF Control, NoInternalError
<1>8. Point # "lzw_run" BY <1>1, <1>2, Resumable
<1> QED BY <1>1, <1>5, <1>7, <1>8, SamePoint

LEMMA ShortReadStep == ASSUME DecoderInv, ShortRead PROVE DecoderInv'
<1>1. /\ pc \in Fields
      /\ UNCHANGED <<call_sequence, block_type, peek_block_type, lzw, first_block, ended, regular, stale, ri, wi, role, in_sync>>
      /\ IF closed THEN Error("unexpected_eof") ELSE Suspend("short_read", pc, left)
  BY DEF ShortRead, config, image, source
<1>2. Control /\ TypeOK /\ pc \notin {"caller", "c_top", "f_top", "lzw_run"} /\ Buffers'
  BY <1>1 DEF DecoderInv, Control, Fields, TypeOK, Buffers
<1>3. CASE Error("unexpected_eof")
  BY <1>1, <1>2, <1>3, ErrorStep DEF DecoderInv, TypeOK, Position, FreshFrames
<1>4. CASE Suspend("short_read", pc, left)
  <2>1. Point = pc /\ self_status = "ok" BY <1>2, Running
  <2>2. pc \in IF call_sequence = 0 THEN ConfigPoints ELSE FramePoints BY <1>2, Running
  <2>3. call_sequence = 1 => ~peek_block_type BY <1>2, Running
  <2>4. Control' /\ Point' = pc /\ self_status' = "ok" /\ left' = left
    BY <1>1, <1>2, <1>4, <2>2, <2>3, SuspendControl DEF TypeOK
  <2> QED BY <1>1, <1>2, <2>1, <2>4, SamePoint
<1> QED BY <1>1, <1>3, <1>4

LEMMA EndOfDataStep == ASSUME DecoderInv, EndOfData PROVE DecoderInv'
<1>1. /\ pc = "end" /\ Suspend("end_of_data", "end", left)
      /\ UNCHANGED <<call_sequence, block_type, peek_block_type, lzw, first_block, ended, regular, stale, ri, wi, role, in_sync>>
  BY DEF EndOfData, config, image, source
<1>2. Control /\ TypeOK /\ pc # "caller" /\ Buffers' BY <1>1 DEF DecoderInv, Control, TypeOK, Buffers
<1>3. Point = "end" /\ self_status = "ok" /\ call_sequence = 1 /\ ~peek_block_type BY <1>1, <1>2, Running
<1>4. Control' /\ Point' = "end" /\ self_status' = "ok" /\ left' = left
  BY <1>1, <1>2, <1>3, SuspendControl DEF TypeOK
<1> QED BY <1>1, <1>3, <1>4, SamePoint

LEMMA FrameNotPeekedStep == ASSUME DecoderInv, FrameNotPeeked PROVE DecoderInv'
<1>1. /\ pc = "f_top" /\ ~peek_block_type /\ GoTo("f_type", 1)
      /\ UNCHANGED <<call_sequence, block_type, peek_block_type, lzw, first_block, ended, regular, stale, ri, wi, role, in_sync>>
  BY DEF FrameNotPeeked, Peeked, config, image, source
<1>2. Control /\ TypeOK /\ pc # "caller" /\ Buffers' BY <1>1 DEF DecoderInv, Control, TypeOK, Buffers
<1>3. Point = "f_top" /\ self_status = "ok" /\ call_sequence = 1 BY <1>1, <1>2, Running
<1>4. Control' /\ Point' = "f_type" /\ self_status' = "ok"
  BY <1>1, <1>2, <1>3, GoToControl DEF TypeOK
<1>5. ASSUME Position PROVE Position'
  <2>1. role = Type BY <1>1, <1>3, <1>5 DEF Position, InStep
  <2>2. role' = Type BY <1>1, <2>1
  <2> QED BY <1>1, <1>4, <1>5, <2>2, InStepShort DEF Position
<1>6. ASSUME FreshFrames PROVE FreshFrames' BY <1>1, <1>2, <1>4, <1>6, FreshOutside
<1> QED BY <1>1, <1>4, <1>5, <1>6 DEF DecoderInv


(* The method returns ok: it starts over when it is called again.          *)
LEMMA OkControl ==
  ASSUME Control, pc # "caller", Ok, call_sequence' \in {0, 1}, call_sequence' >= call_sequence,
         call_sequence' = 1, block_type' \in Types \cup {"none"}, peek_block_type' \in BOOLEAN,
         first_block' \in BOOLEAN, lzw' \in LzwStates, Buffers'
  PROVE  Control' /\ Point' = "start" /\ self_status' = "ok"
<1>1. self_status = "ok" /\ method = Active /\ call_sequence \in {0, 1} BY Running
<1>2. /\ pc' = "caller" /\ left' = left /\ method' = method /\ resume' = [resume EXCEPT ![method] = "start"]
      /\ ret' = "ok" /\ self_status' = self_status
  BY DEF Ok
<1>3. TypeOK' BY <1>2 DEF Control, TypeOK
<1>4. resume'["decode_config"] = "start" /\ resume'["decode_frame"] = "start"
  BY <1>1, <1>2, Running DEF Active, Control, TypeOK
<1>5. Active' = "decode_frame" /\ Point' = "start" BY <1>2, <1>4 DEF Active, Point
<1>6. OneMethod' /\ Limited' BY <1>1, <1>2, <1>4, <1>5 DEF OneMethod, Limited
<1> QED BY <1>1, <1>2, <1>3, <1>5, <1>6 DEF Control, NoInternalError

LEMMA CallStep ==
  ASSUME DecoderInv, NEW m \in Methods, Call(m)
  PROVE  DecoderInv'
<1>1. /\ pc = "caller" /\ method' = m
      /\ UNCHANGED <<resume, call_sequence, block_type, peek_block_type, lzw, first_block, ended, regular, stale,
                     ri, wi, role, in_sync>>
  BY DEF Call, config, source
<1>2. Control /\ TypeOK /\ Buffers' BY <1>1 DEF DecoderInv, Control, TypeOK, Buffers
<1>3. Active' = Active /\ Point # "lzw_run" BY <1>1, <1>2, Resumable DEF Active
<1>4. CASE self_status # "ok"
  <2>1. ret' = self_status /\ UNCHANGED <<pc, left, self_status>> BY <1>4 DEF Call
  <2>2. Point' = Point BY <1>1, <1>3, <2>1 DEF Point
  <2>3. TypeOK' /\ Limited' BY <1>1, <1>2, <2>1 DEF TypeOK, Limited
  <2>4. Control' BY <1>1, <1>2, <1>4, <2>1, <2>3 DEF Control, OneMethod, NoInternalError
  <2> QED BY <1>1, <1>3, <2>1, <2>2, <2>4, SamePoint
<1>5. CASE self_status = "ok" /\ resume[m] # "start"
  <2>1. pc' = resume[m] /\ UNCHANGED <<ret, left, self_status>> BY <1>5 DEF Call
  <2>2. m = Active BY <1>2, <1>5 DEF Control, TypeOK, OneMethod, Active
  <2>3. resume[m] \in ConfigPoints \cup FramePoints BY <1>2, <1>5 DEF TypeOK
  <2>4. Point = resume[m] /\ Point' = Point BY <1>1, <2>1, <2>2, <2>3 DEF Point
  <2>5. TypeOK' /\ Limited' BY <1>1, <1>2, <2>1, <2>3 DEF TypeOK, Limited
  <2>6. OneMethod' BY <1>1, <1>2, <1>3, <1>5, <2>1, <2>2, <2>4 DEF Control, OneMethod
  <2>7. Control' BY <1>2, <2>1, <2>5, <2>6 DEF Control, NoInternalError
  <2> QED BY <1>1, <1>3, <2>1, <2>4, <2>7, SamePoint
<1>6. CASE self_status = "ok" /\ resume[m] = "start" /\ ~RightCallSequence(m)
  <2>1. ret' = "invalid_call_sequence" /\ self_status' = "invalid_call_sequence" /\ UNCHANGED <<pc, left>>
    BY <1>6 DEF Call
  <2>2. Control'
    <3>1. TypeOK' /\ Limited' BY <1>1, <1>2, <2>1 DEF TypeOK, Limited
    <3> QED BY <1>1, <1>2, <2>1, <3>1 DEF Control, OneMethod, NoInternalError
  <2>3. Position => Position' BY <1>1, <2>1 DEF Position
  <2>4. FreshFrames => FreshFrames' BY <1>1, <2>1 DEF FreshFrames
  <2> QED BY <1>1, <2>2, <2>3, <2>4 DEF DecoderInv
<1>7. CASE self_status = "ok" /\ resume[m] = "start" /\ RightCallSequence(m)
  <2>1. /\ pc' = IF m = "decode_config" THEN "header" ELSE "f_top"
        /\ left' = HeaderLen
        /\ UNCHANGED <<ret, self_status>>
    BY <1>7 DEF Call
  <2>2. m = Active BY <1>2, <1>7 DEF TypeOK, Active, RightCallSequence
  <2>3. /\ Point = "start" /\ Point' = pc'
        /\ pc' = IF call_sequence = 0 THEN "header" ELSE "f_top"
    BY <1>1, <1>2, <1>7, <2>1, <2>2 DEF Point, Active
  <2>4. TypeOK' /\ Limited' BY <1>1, <1>2, <2>1, Lengths DEF TypeOK, Limited
  <2>5. OneMethod' BY <1>1, <1>2, <1>3, <1>7, <2>1, <2>2, <2>3 DEF Control, OneMethod
  <2>6. Control' BY <1>2, <2>1, <2>4, <2>5 DEF Control, NoInternalError
  <2>7. ASSUME Position PROVE Position'
    <3>1. CASE call_sequence = 0
      <4>1. role' = At("header", HeaderLen) BY <1>1, <1>7, <2>3, <2>7, <3>1 DEF Position, InStep
      <4> QED BY <1>1, <2>1, <2>3, <2>7, <3>1, <4>1, Lengths, InStepLong DEF Position, FieldOf
    <3>2. CASE call_sequence = 1
      <4>1. role = IF peek_block_type THEN AfterType(block_type) ELSE Type
        BY <1>7, <2>3, <2>7, <3>2 DEF Position, InStep
      <4>2. InStep' BY <1>1, <2>3, <3>2, <4>1 DEF InStep, AfterType, Type
      <4> QED BY <1>1, <2>7, <4>2 DEF Position
    <3> QED BY <1>2, <3>1, <3>2 DEF TypeOK
  <2>8. ASSUME FreshFrames PROVE FreshFrames'
    <3>1. lzw = "fresh" BY <1>2, <1>7, <2>3, <2>8 DEF FreshFrames, LzwInStep, TypeOK
    <3> QED BY <1>1, <2>1, <2>3, <2>8, <3>1 DEF FreshFrames, LzwInStep
  <2> QED BY <1>1, <2>6, <2>7, <2>8 DEF DecoderInv
<1> QED BY <1>4, <1>5, <1>6, <1>7

LEMMA BadHeaderStep == ASSUME DecoderInv, BadHeader PROVE DecoderInv'
<1>1. /\ pc = "header" /\ Read("header", At("header", 0)) /\ Error("bad_header")
      /\ UNCHANGED <<call_sequence, block_type, peek_block_type, lzw, first_block, ended, regular, stale>>
  BY DEF BadHeader, config, image
<1>2. Control /\ TypeOK BY DEF DecoderInv, Control
<1>3. Buffers' BY <1>1, <1>2, ReadCounts DEF TypeOK
<1>4. ASSUME Position PROVE in_sync'
  <2>1. self_status = "ok" /\ Point = "header" BY <1>1, <1>2, Running
  <2>2. left > 0 /\ role = At("header", left) /\ in_sync BY <1>4, <2>1 DEF Position, InStep, FieldOf
  <2>3. 1 \in Nat /\ 1 > 0 /\ 1 <= left /\ left \in Nat BY <1>2, <2>2 DEF TypeOK
  <2> QED BY <1>1, <2>2, <2>3, ReadInStep
<1> QED BY <1>1, <1>2, <1>3, <1>4, ErrorStep DEF DecoderInv, TypeOK, FreshFrames

LEMMA ConfigTopStep == ASSUME DecoderInv, ConfigTop PROVE DecoderInv'
<1>1. /\ pc = "c_top" /\ peek_block_type' = TRUE /\ GoTo("c_type", 1)
      /\ UNCHANGED <<call_sequence, block_type, lzw, first_block, ended, regular, stale, ri, wi, role, in_sync>>
  BY DEF ConfigTop, image, source
<1>2. Control /\ TypeOK /\ pc # "caller" BY <1>1 DEF DecoderInv, Control
<1>3. Point = "c_top" /\ self_status = "ok" /\ call_sequence = 0 BY <1>1, <1>2, Running
<1>4. Buffers' /\ peek_block_type' \in BOOLEAN BY <1>1, <1>2 DEF TypeOK, Buffers
<1>5. Control' /\ Point' = "c_type" /\ self_status' = "ok"
  BY <1>1, <1>2, <1>3, <1>4, GoToControl DEF TypeOK
<1>6. ASSUME Position PROVE Position'
  <2>1. role = Type BY <1>3, <1>6 DEF Position, InStep
  <2>2. role' = Type BY <1>1, <2>1 DEF Type
  <2> QED BY <1>1, <1>5, <1>6, <2>2, InStepShort DEF Position
<1>7. ASSUME FreshFrames PROVE FreshFrames' BY <1>1, <1>2, <1>5, <1>7, FreshOutside
<1> QED BY <1>1, <1>5, <1>6, <1>7 DEF DecoderInv

LEMMA ConfigTypeStep == ASSUME DecoderInv, ConfigType PROVE DecoderInv'
<1>1. PICK t \in Types :
        /\ pc = "c_type" /\ Read("type", AfterType(t)) /\ block_type' = t /\ peek_block_type' = peek_block_type
        /\ IF seen_num_loops \/ t # "extension"
           THEN Ok /\ call_sequence' = 1
           ELSE GoTo("label", 1) /\ UNCHANGED call_sequence
        /\ UNCHANGED <<lzw, first_block, ended, regular, stale>>
  BY DEF ConfigType, image
<1>2. Control /\ TypeOK /\ pc # "caller" BY <1>1 DEF DecoderInv, Control
<1>3. self_status = "ok" /\ Point = "c_type" /\ call_sequence = 0 BY <1>1, <1>2, Running
<1>4. Buffers' BY <1>1, <1>2, ReadCounts DEF TypeOK
<1>5. ASSUME Position PROVE in_sync' /\ role' = AfterType(t)
  <2>1. role = At("type", 1) /\ in_sync BY <1>3, <1>5 DEF Position, InStep, Type
  <2> QED BY <1>1, <2>1, ReadInStep
<1>6. ASSUME FreshFrames, Point' \notin {"lzw", "lzw_run"} PROVE FreshFrames'
  BY <1>1, <1>2, <1>6, FreshOutside
<1>7. CASE Ok /\ call_sequence' = 1
  <2>1. Control' /\ Point' = "start" /\ self_status' = "ok"
    BY <1>1, <1>2, <1>3, <1>4, <1>7, OkControl DEF TypeOK
  <2>2. ASSUME Position PROVE Position'
    <3>1. AfterType(block_type)' = AfterType(t) BY <1>1 DEF AfterType
    <3>2. peek_block_type' BY <1>1, <1>3, <2>2 DEF Position, InStep
    <3>3. InStep' BY <1>1, <1>5, <1>7, <2>1, <2>2, <3>1, <3>2 DEF InStep
    <3> QED BY <1>5, <2>2, <3>3 DEF Position
  <2> QED BY <1>1, <1>6, <2>1, <2>2 DEF DecoderInv
<1>8. CASE GoTo("label", 1) /\ UNCHANGED call_sequence /\ t = "extension"
  <2>1. Control' /\ Point' = "label" /\ self_status' = "ok"
    BY <1>1, <1>2, <1>3, <1>4, <1>8, GoToControl DEF TypeOK
  <2>2. ASSUME Position PROVE Position'
    <3>1. role' = At("label", 1) /\ in_sync' BY <1>5, <1>8, <2>2 DEF AfterType
    <3> QED BY <2>1, <3>1, InStepShort DEF Position
  <2> QED BY <1>1, <1>6, <2>1, <2>2 DEF DecoderInv
<1> QED BY <1>1, <1>7, <1>8


(* The block type t is known in decode_frame.                              *)
LEMMA BlockStep ==
  ASSUME DecoderInv, pc \in {"f_top", "f_type"}, NEW t, Block(t), call_sequence' = call_sequence,
         block_type' \in Types \cup {"none"}, peek_block_type' = FALSE,
         UNCHANGED <<lzw, first_block, ended, regular, stale>>, Buffers',
         Position => in_sync' /\ role' = AfterType(t)
  PROVE  DecoderInv'
<1>1. Control /\ TypeOK /\ pc # "caller" BY DEF DecoderInv, Control
<1>2. self_status = "ok" /\ Point = pc /\ call_sequence = 1 BY <1>1, Running
<1>3. ASSUME FreshFrames, Point' \notin {"lzw", "lzw_run"} PROVE FreshFrames'
  BY <1>1, <1>3, FreshOutside
<1>4. /\ ~peek_block_type' /\ peek_block_type' \in BOOLEAN
      /\ first_block' \in BOOLEAN /\ lzw' \in LzwStates
  BY <1>1 DEF TypeOK
<1>5. CASE t = "extension"
  <2>1. GoTo("label", 1) BY <1>5 DEF Block
  <2>2. Control' /\ Point' = "label" /\ self_status' = "ok" BY <1>1, <1>2, <1>4, <2>1, GoToControl
  <2>3. ASSUME Position PROVE Position'
    <3>1. role' = At("label", 1) /\ in_sync' BY <1>5, <2>3 DEF AfterType
    <3> QED BY <2>2, <3>1, InStepShort DEF Position
  <2> QED BY <1>1, <1>3, <2>2, <2>3 DEF DecoderInv
<1>6. CASE t = "image"
  <2>1. GoTo("desc", DescLen) BY <1>6 DEF Block
  <2>2. Control' /\ Point' = "desc" /\ self_status' = "ok" BY <1>1, <1>2, <1>4, <2>1, Lengths, GoToControl
  <2>3. left' = DescLen BY <2>1 DEF GoTo
  <2>4. ASSUME Position PROVE Position'
    <3>1. role' = At("desc", DescLen) /\ in_sync' BY <1>6, <2>4 DEF AfterType
    <3> QED BY <2>2, <2>3, <3>1, Lengths, InStepLong DEF Position, FieldOf
  <2> QED BY <1>1, <1>3, <2>2, <2>4 DEF DecoderInv
<1>7. CASE t = "trailer"
  <2>1. Suspend("end_of_data", "end", left) BY <1>7 DEF Block
  <2>2. Control' /\ Point' = "end" /\ self_status' = "ok"
    BY <1>1, <1>2, <1>4, <2>1, SuspendControl DEF TypeOK
  <2>3. ASSUME Position PROVE Position'
    <3>1. InStep' BY <2>2 DEF InStep
    <3> QED BY <2>3, <3>1 DEF Position
  <2> QED BY <1>1, <1>3, <2>2, <2>3 DEF DecoderInv
<1>8. CASE t \notin {"extension", "image", "trailer"}
  <2>1. Error("bad_block") BY <1>8 DEF Block
  <2> QED BY <1>1, <2>1, ErrorStep DEF DecoderInv, TypeOK, FreshFrames
<1> QED BY <1>5, <1>6, <1>7, <1>8

LEMMA FramePeekedStep == ASSUME DecoderInv, FramePeeked PROVE DecoderInv'
<1>1. /\ pc = "f_top" /\ peek_block_type /\ peek_block_type' = FALSE /\ Block(block_type)
      /\ UNCHANGED <<call_sequence, block_type, lzw, first_block, ended, regular, stale, ri, wi, role, in_sync>>
  BY DEF FramePeeked, Peeked, image, source
<1>2. Control /\ TypeOK /\ pc # "caller" /\ Buffers' BY <1>1 DEF DecoderInv, Control, TypeOK, Buffers
<1>3. self_status = "ok" /\ Point = "f_top" /\ call_sequence = 1 BY <1>1, <1>2, Running
<1>4. ASSUME Position PROVE in_sync' /\ role' = AfterType(block_type)
  BY <1>1, <1>3, <1>4 DEF Position, InStep
<1> QED BY <1>1, <1>2, <1>4, BlockStep DEF TypeOK

LEMMA FrameTypeStep == ASSUME DecoderInv, FrameType PROVE DecoderInv'
<1>1. PICK t \in Types :
        /\ pc = "f_type" /\ Read("type", AfterType(t)) /\ block_type' = t /\ Block(t)
        /\ UNCHANGED <<call_sequence, peek_block_type, lzw, first_block, ended, regular, stale>>
  BY DEF FrameType, image
<1>2. Control /\ TypeOK /\ pc # "caller" BY <1>1 DEF DecoderInv, Control
<1>3. self_status = "ok" /\ Point = "f_type" /\ call_sequence = 1 /\ ~peek_block_type BY <1>1, <1>2, Running
<1>4. Buffers' BY <1>1, <1>2, ReadCounts DEF TypeOK
<1>5. ASSUME Position PROVE in_sync' /\ role' = AfterType(t)
  <2>1. role = At("type", 1) /\ in_sync BY <1>3, <1>5 DEF Position, InStep, Type
  <2> QED BY <1>1, <2>1, ReadInStep
<1>6. peek_block_type' = FALSE BY <1>1, <1>2, <1>3 DEF TypeOK
<1> QED BY <1>1, <1>4, <1>5, <1>6, BlockStep

(* Control is in an extension, in either method.                           *)
LEMMA ExtensionControl ==
  ASSUME Control, pc \in ExtensionPoints, NEW where \in ExtensionPoints, NEW n \in Nat, GoTo(where, n),
         UNCHANGED <<call_sequence, block_type, peek_block_type, lzw, first_block>>, Buffers'
  PROVE  Control' /\ Point' = where /\ self_status' = "ok" /\ left' = n
<1>1. pc # "caller" /\ pc # "f_top" /\ TypeOK BY DEF Control
<1>2. call_sequence \in {0, 1} /\ (call_sequence = 1 => ~peek_block_type) BY <1>1, Running
<1>3. left' = n BY DEF GoTo
<1> QED BY <1>1, <1>2, <1>3, GoToControl DEF TypeOK

LEMMA SizeOfStep ==
  ASSUME DecoderInv, NEW p \in {"size", "a_size"}, NEW n \in Nat, NEW skip \in {"data", "a_data", "a_id"},
         SizeOf(p, n, skip)
  PROVE  DecoderInv'
<1>1. /\ pc = p /\ Read("size", AfterSize(n))
      /\ IF n = 0 THEN GoTo(NextType, 1) ELSE GoTo(skip, n)
      /\ UNCHANGED <<call_sequence, block_type, peek_block_type, lzw, first_block, ended, regular, stale>>
  BY DEF SizeOf, config, image
<1>2. Control /\ TypeOK /\ pc # "caller" /\ pc # "f_top" BY <1>1 DEF DecoderInv, Control
<1>3. /\ self_status = "ok" /\ Point = p /\ method = Active /\ call_sequence \in {0, 1}
      /\ (call_sequence = 1 => ~peek_block_type)
  BY <1>1, <1>2, Running
<1>4. Buffers' BY <1>1, <1>2, ReadCounts DEF TypeOK
<1>5. ASSUME Position PROVE in_sync' /\ role' = AfterSize(n)
  <2>1. role = At("size", 1) /\ in_sync BY <1>3, <1>5 DEF Position, InStep, Size
  <2> QED BY <1>1, <2>1, ReadInStep
<1>6. ASSUME FreshFrames, Point' \notin {"lzw", "lzw_run"} PROVE FreshFrames'
  BY <1>1, <1>2, <1>6, FreshOutside
<1>7. CASE n = 0
  <2>1. GoTo(NextType, 1) BY <1>1, <1>7
  <2>2. NextType = IF call_sequence = 0 THEN "c_top" ELSE "f_top" BY <1>3 DEF NextType, Active
  <2>3. Control' /\ Point' = NextType /\ self_status' = "ok"
    BY <1>1, <1>2, <1>3, <1>4, <2>1, <2>2, GoToControl DEF TypeOK
  <2>4. ASSUME Position PROVE Position'
    <3>1. role' = Type /\ in_sync' BY <1>5, <1>7, <2>4 DEF AfterSize
    <3>2. InStep' BY <1>1, <1>3, <2>2, <2>3, <3>1 DEF InStep, Type
    <3> QED BY <3>1, <3>2 DEF Position
  <2> QED BY <1>1, <1>6, <2>2, <2>3, <2>4 DEF DecoderInv
<1>8. CASE n # 0
  <2>1. GoTo(skip, n) BY <1>1, <1>8
  <2>2. Control' /\ Point' = skip /\ self_status' = "ok" /\ left' = n
    BY <1>1, <1>2, <1>4, <2>1, ExtensionControl
  <2>3. ASSUME Position PROVE Position'
    <3>1. role' = At("data", n) /\ in_sync' BY <1>5, <1>8, <2>3 DEF AfterSize
    <3> QED BY <1>8, <2>2, <3>1, InStepLong DEF Position, FieldOf
  <2> QED BY <1>1, <1>6, <2>2, <2>3 DEF DecoderInv
<1> QED BY <1>7, <1>8

LEMMA AppSubSizeStep == ASSUME DecoderInv, AppSubSize PROVE DecoderInv'
<1>1. PICK n \in Sizes :
        /\ pc = "a_sub_size" /\ regular' = (regular /\ (in_sync /\ role.field = "size" => n # 0))
        /\ Read("size", AfterSize(n))
        /\ CASE n = 0 -> GoTo("size", 1)
             [] n = 3 -> GoTo("a_one", 1)
             [] OTHER -> GoTo("a_sub_data", n)
        /\ UNCHANGED <<call_sequence, block_type, peek_block_type, lzw, first_block, ended, stale>>
  BY DEF AppSubSize, Expects, config
<1>2. Control /\ TypeOK /\ pc # "caller" /\ n \in Nat BY <1>1, Lengths DEF DecoderInv, Control
<1>3. self_status = "ok" /\ Point = "a_sub_size" BY <1>1, <1>2, Running
<1>4. Buffers' BY <1>1, <1>2, ReadCounts DEF TypeOK
<1>5. ASSUME Position PROVE in_sync' /\ role' = AfterSize(n) /\ (regular' => n # 0)
  <2>1. role = At("size", 1) /\ in_sync BY <1>3, <1>5 DEF Position, InStep, Size
  <2>2. role.field = "size" BY <2>1
  <2>3. regular' => n # 0 BY <1>1, <2>1, <2>2
  <2> QED BY <1>1, <2>1, <2>3, ReadInStep
<1>6. ASSUME FreshFrames, Point' \notin {"lzw", "lzw_run"} PROVE FreshFrames'
  BY <1>1, <1>2, <1>6, FreshOutside
<1>7. CASE n = 0
  <2>1. GoTo("size", 1) BY <1>1, <1>7
  <2>2. Control' BY <1>1, <1>2, <1>4, <2>1, ExtensionControl
  <2> QED BY <1>1, <1>5, <1>7, <2>2 DEF DecoderInv
<1>8. CASE n = 3
  <2>1. GoTo("a_one", 1) BY <1>1, <1>8
  <2>2. Control' /\ Point' = "a_one" /\ self_status' = "ok" BY <1>1, <1>2, <1>4, <2>1, ExtensionControl
  <2>3. ASSUME Position PROVE Position'
    <3>1. role' = At("data", 3) /\ in_sync' BY <1>5, <1>8, <2>3 DEF AfterSize
    <3> QED BY <2>2, <3>1, InStepShort DEF Position
  <2> QED BY <1>1, <1>6, <2>2, <2>3 DEF DecoderInv
<1>9. CASE n \notin {0, 3}
  <2>1. GoTo("a_sub_data", n) BY <1>1, <1>9
  <2>2. Control' /\ Point' = "a_sub_data" /\ self_status' = "ok" /\ left' = n
    BY <1>1, <1>2, <1>4, <2>1, ExtensionControl
  <2>3. ASSUME Position PROVE Position'
    <3>1. role' = At("data", n) /\ in_sync' BY <1>5, <1>9, <2>3 DEF AfterSize
    <3> QED BY <1>2, <1>9, <2>2, <3>1, InStepLong DEF Position, FieldOf
  <2> QED BY <1>1, <1>6, <2>2, <2>3 DEF DecoderInv
<1> QED BY <1>7, <1>8, <1>9

LEMMA AppOneStep == ASSUME DecoderInv, AppOne PROVE DecoderInv'
<1>1. PICK where \in {"a_loops", "a_two"} :
        /\ pc = "a_one" /\ Read("data", Size) /\ GoTo(where, 2)
        /\ UNCHANGED <<call_sequence, block_type, peek_block_type, lzw, first_block, ended, regular, stale>>
  BY DEF AppOne, config, image
<1>2. Control /\ TypeOK /\ pc # "caller" BY <1>1 DEF DecoderInv, Control
<1>3. self_status = "ok" /\ Point = "a_one" BY <1>1, <1>2, Running
<1>4. Buffers' BY <1>1, <1>2, ReadCounts DEF TypeOK
<1>5. Control' /\ Point' = where /\ self_status' = "ok" /\ left' = 2
  BY <1>1, <1>2, <1>4, ExtensionControl
<1>6. ASSUME Position PROVE Position'
  <2>1. role = At("data", 3) /\ in_sync BY <1>3, <1>6 DEF Position, InStep
  <2>2. in_sync' /\ role' = At("data", 2) BY <1>1, <2>1, ReadInStep
  <2> QED BY <1>5, <2>2, InStepLong DEF Position, FieldOf
<1>7. ASSUME FreshFrames PROVE FreshFrames' BY <1>1, <1>2, <1>5, <1>7, FreshOutside
<1> QED BY <1>1, <1>5, <1>6, <1>7 DEF DecoderInv

LEMMA AppLoopsStep == ASSUME DecoderInv, AppLoops PROVE DecoderInv'
<1>1. /\ pc = "a_loops" /\ left = 1 /\ Read("data", Size) /\ GoTo("size", 1)
      /\ UNCHANGED <<call_sequence, block_type, peek_block_type, lzw, first_block, ended, regular, stale>>
  BY DEF AppLoops, image
<1>2. Control /\ TypeOK /\ pc # "caller" BY <1>1 DEF DecoderInv, Control
<1>3. self_status = "ok" /\ Point = "a_loops" BY <1>1, <1>2, Running
<1>4. Buffers' BY <1>1, <1>2, ReadCounts DEF TypeOK
<1>5. Control' /\ Point' = "size" /\ self_status' = "ok" BY <1>1, <1>2, <1>4, ExtensionControl
<1>6. ASSUME Position PROVE Position'
  <2>1. role = At("data", 1) /\ in_sync BY <1>1, <1>3, <1>6 DEF Position, InStep, FieldOf
  <2>2. in_sync' /\ role' = Size BY <1>1, <2>1, ReadInStep
  <2> QED BY <1>5, <2>2, InStepShort DEF Position
<1>7. ASSUME FreshFrames PROVE FreshFrames' BY <1>1, <1>2, <1>5, <1>7, FreshOutside
<1> QED BY <1>1, <1>5, <1>6, <1>7 DEF DecoderInv


LEMMA LiteralWidthStep == ASSUME DecoderInv, LiteralWidth PROVE DecoderInv'
<1>1. /\ pc = "lw" /\ Read("lw", At("block", 1))
      /\ \/ Error("bad_literal_width") /\ UNCHANGED <<first_block, ended>>
         \/ GoTo("block", 1) /\ first_block' = TRUE /\ ended' = FALSE
      /\ UNCHANGED <<call_sequence, block_type, peek_block_type, lzw, regular, stale>>
  BY DEF LiteralWidth, config
<1>2. Control /\ TypeOK /\ pc # "caller" BY <1>1 DEF DecoderInv, Control
<1>3. self_status = "ok" /\ Point = "lw" /\ call_sequence = 1 /\ ~peek_block_type BY <1>1, <1>2, Running
<1>4. Buffers' BY <1>1, <1>2, ReadCounts DEF TypeOK
<1>5. ASSUME Position PROVE in_sync' /\ role' = At("block", 1)
  <2>1. role = At("lw", 1) /\ in_sync BY <1>3, <1>5 DEF Position, InStep
  <2> QED BY <1>1, <2>1, ReadInStep
<1>6. CASE Error("bad_literal_width") /\ UNCHANGED <<first_block, ended>>
  BY <1>1, <1>2, <1>4, <1>5, <1>6, ErrorStep DEF DecoderInv, TypeOK, FreshFrames
<1>7. CASE GoTo("block", 1) /\ first_block' = TRUE /\ ended' = FALSE
  <2>1. first_block' \in BOOLEAN BY <1>7
  <2>2. Control' /\ Point' = "block" /\ self_status' = "ok"
    BY <1>1, <1>2, <1>3, <1>4, <1>7, <2>1, GoToControl DEF TypeOK
  <2>3. ASSUME Position PROVE Position' BY <1>5, <2>2, <2>3, InStepShort DEF Position
  <2>4. ASSUME FreshFrames PROVE FreshFrames' BY <1>1, <1>2, <2>2, <2>4, FreshOutside
  <2> QED BY <1>1, <2>2, <2>3, <2>4 DEF DecoderInv
<1> QED BY <1>1, <1>6, <1>7

(* The size of a sub-block: the empty one comes after the end code, which  *)
(* lzw.decode has met and returned for.                                    *)
LEMMA BlockSizeStep == ASSUME DecoderInv, BlockSize PROVE DecoderInv'
<1>1. PICK n \in Sizes :
        /\ pc = "block"
        /\ regular' = (regular /\ (in_sync /\ role.field = "block" => (n = 0 <=> ended)))
        /\ Read("block", IF n = 0 THEN Type ELSE At("lzw", n))
        /\ IF n = 0 THEN Ok ELSE GoTo("lzw", n)
        /\ UNCHANGED <<call_sequence, block_type, peek_block_type, lzw, first_block, ended, stale>>
  BY DEF BlockSize, Expects, config
<1>2. Control /\ TypeOK /\ pc # "caller" /\ n \in Nat BY <1>1, Lengths DEF DecoderInv, Control
<1>3. self_status = "ok" /\ Point = "block" /\ call_sequence = 1 /\ ~peek_block_type BY <1>1, <1>2, Running
<1>4. Buffers' BY <1>1, <1>2, ReadCounts DEF TypeOK
<1>5. ASSUME Position
      PROVE  /\ in_sync' /\ role' = IF n = 0 THEN Type ELSE At("lzw", n)
             /\ regular' => (n = 0 <=> ended)
  <2>1. role = At("block", 1) /\ in_sync BY <1>3, <1>5 DEF Position, InStep
  <2>2. role.field = "block" BY <2>1
  <2>3. regular' => (n = 0 <=> ended) BY <1>1, <2>1, <2>2
  <2> QED BY <1>1, <2>1, <2>3, ReadInStep
<1>6. CASE n = 0
  <2>1. Ok BY <1>1, <1>6
  <2>2. Control' /\ Point' = "start" /\ self_status' = "ok"
    BY <1>1, <1>2, <1>3, <1>4, <2>1, OkControl DEF TypeOK
  <2>3. ASSUME Position PROVE Position'
    <3>1. role' = Type /\ in_sync' BY <1>5, <1>6, <2>3
    <3>2. InStep' BY <1>1, <1>3, <2>2, <3>1 DEF InStep, Type
    <3> QED BY <3>1, <3>2 DEF Position
  <2>4. ASSUME Position, FreshFrames, regular' PROVE FreshFrames'
    <3>1. ended BY <1>5, <1>6, <2>4
    <3>2. lzw' = "fresh" BY <1>1, <1>3, <2>4, <3>1 DEF FreshFrames, LzwInStep
    <3> QED BY <1>1, <2>2, <2>4, <3>2 DEF FreshFrames, LzwInStep
  <2> QED BY <1>1, <2>2, <2>3, <2>4 DEF DecoderInv
<1>7. CASE n # 0
  <2>1. GoTo("lzw", n) BY <1>1, <1>7
  <2>2. Control' /\ Point' = "lzw" /\ self_status' = "ok"
    BY <1>1, <1>2, <1>3, <1>4, <2>1, GoToControl DEF TypeOK
  <2>3. left' = n /\ BlockLeft' = n BY <2>1, <2>2 DEF GoTo, BlockLeft
  <2>4. ASSUME Position PROVE Position'
    <3>1. role' = At("lzw", n) /\ in_sync' BY <1>5, <1>7, <2>4
    <3>2. InStep' BY <1>7, <2>2, <2>3, <3>1 DEF InStep
    <3> QED BY <3>1, <3>2 DEF Position
  <2>5. ASSUME Position, FreshFrames, regular' PROVE FreshFrames'
    <3>1. ~ended BY <1>5, <1>7, <2>5
    <3>2. lzw # "ends" /\ (lzw # "fresh" => ~first_block) /\ ~stale
      BY <1>3, <2>5 DEF FreshFrames, LzwInStep
    <3> QED BY <1>1, <2>2, <3>1, <3>2 DEF FreshFrames, LzwInStep
  <2> QED BY <1>1, <2>2, <2>4, <2>5 DEF DecoderInv
<1> QED BY <1>6, <1>7

(* The limited copy of the reader ends within the buffer and within what   *)
(* is left of the sub-block.                                               *)
LEMMA LzwCallStep == ASSUME DecoderInv, LzwCall PROVE DecoderInv'
<1>1. /\ pc = "lzw" /\ mark' = ri /\ rend' = ri + IF wi - ri <= left THEN wi - ri ELSE left
      /\ lzw' = (IF lzw = "fresh" THEN "reads" ELSE lzw) /\ first_block' = FALSE
      /\ stale' = (stale \/ (first_block /\ lzw # "fresh")) /\ GoTo("lzw_run", left)
      /\ UNCHANGED <<call_sequence, block_type, peek_block_type, ended, regular, ri, wi, role, in_sync>>
  BY DEF LzwCall, LimitedEnd, Limit, config, source
<1>2. Control /\ TypeOK /\ pc # "caller" BY <1>1 DEF DecoderInv, Control
<1>3. self_status = "ok" /\ Point = "lzw" BY <1>1, <1>2, Running
<1>4. ri \in Nat /\ wi \in Nat /\ ri <= wi /\ left \in Nat BY <1>2 DEF TypeOK, Buffers
<1>5. /\ Buffers' /\ first_block' \in BOOLEAN /\ lzw' \in LzwStates /\ lzw' # "fresh" /\ left' = left
  BY <1>1, <1>2, <1>4 DEF Buffers, TypeOK, LzwStates, GoTo
<1>6. rend' \in Nat /\ ri <= rend' /\ rend' <= wi /\ rend' <= ri + left BY <1>1, <1>4
<1>7. Limited' BY <1>1, <1>4, <1>5, <1>6 DEF Limited
<1>8. Control' /\ Point' = "lzw_run" /\ self_status' = "ok" BY <1>1, <1>2, <1>5, <1>7, RunControl
<1>9. BlockLeft = left /\ BlockLeft' = left BY <1>1, <1>3, <1>4, <1>5, <1>8 DEF BlockLeft
<1>10. ASSUME Position PROVE Position'
  <2>1. in_sync /\ role = IF left = 0 THEN At("block", 1) ELSE At("lzw", left)
    BY <1>3, <1>9, <1>10 DEF Position, InStep
  <2>2. InStep' BY <1>1, <1>8, <1>9, <2>1 DEF InStep
  <2> QED BY <1>1, <2>1, <2>2 DEF Position
<1>11. ASSUME FreshFrames PROVE FreshFrames'
  <2>1. ~stale /\ (lzw # "fresh" => ~first_block) /\ (ended <=> lzw = "ends") /\ (lzw = "ends" => left = 0)
    BY <1>3, <1>9, <1>11 DEF FreshFrames, LzwInStep
  <2> QED BY <1>1, <1>8, <1>9, <2>1 DEF FreshFrames, LzwInStep
<1> QED BY <1>1, <1>8, <1>10, <1>11 DEF DecoderInv

(* What lzw.decode knows of the stream while it runs.                      *)
LEMMA InLzw ==
  ASSUME DecoderInv, pc = "lzw_run"
  PROVE  /\ Control /\ TypeOK /\ self_status = "ok" /\ Point = "lzw_run" /\ call_sequence = 1
         /\ ~peek_block_type
         /\ mark \in Nat /\ rend \in Nat /\ ri \in Nat /\ wi \in Nat /\ left \in Nat
         /\ mark <= ri /\ ri <= rend /\ rend <= wi /\ rend <= mark + left
         /\ SinceMark = ri - mark /\ SinceMark \in Nat /\ SinceMark <= left
         /\ BlockLeft = left - SinceMark
         /\ regular => /\ in_sync /\ ~stale /\ ~first_block /\ (ended <=> lzw = "ends")
                       /\ role = IF BlockLeft = 0 THEN At("block", 1) ELSE At("lzw", BlockLeft)
                       /\ lzw = "ends" => BlockLeft = 0
<1>1. Control /\ TypeOK /\ pc # "caller" /\ Limited BY DEF DecoderInv, Control
<1>2. self_status = "ok" /\ Point = "lzw_run" /\ call_sequence = 1 /\ ~peek_block_type BY <1>1, Running
<1>3. /\ mark \in Nat /\ rend \in Nat /\ ri \in Nat /\ wi \in Nat /\ left \in Nat
      /\ mark <= ri /\ ri <= rend /\ rend <= wi /\ rend <= mark + left /\ lzw # "fresh"
  BY <1>1 DEF Limited, TypeOK, Buffers
<1>4. SinceMark = ri - mark /\ SinceMark \in Nat /\ SinceMark <= left BY <1>3 DEF SinceMark, NoMark
<1>5. BlockLeft = left - SinceMark BY <1>2, <1>4 DEF BlockLeft
<1>6. ASSUME regular
      PROVE  /\ in_sync /\ ~stale /\ ~first_block /\ (ended <=> lzw = "ends")
             /\ role = IF BlockLeft = 0 THEN At("block", 1) ELSE At("lzw", BlockLeft)
             /\ lzw = "ends" => BlockLeft = 0
  <2>1. Position /\ FreshFrames BY <1>6 DEF DecoderInv
  <2> QED BY <1>2, <1>3, <2>1 DEF Position, InStep, FreshFrames, LzwInStep
<1> QED BY <1>1, <1>2, <1>3, <1>4, <1>5, <1>6

LEMMA LzwReadStep == ASSUME DecoderInv, LzwRead PROVE DecoderInv'
<1>1. PICK is_end \in BOOLEAN :
        /\ pc = "lzw_run" /\ lzw \in {"reads", "writes"} /\ ri < rend
        /\ regular' = (regular /\ (in_sync /\ role.field = "lzw" => (is_end => ~ended /\ role.left = 1)))
        /\ Read("lzw", At("block", 1)) /\ ended' = (ended \/ is_end)
        /\ lzw' \in IF stale \/ ended \/ ~in_sync THEN {"reads", "writes", "ends"}
                    ELSE IF is_end THEN {"ends"} ELSE {"reads", "writes"}
        /\ GoTo("lzw_run", left)
        /\ UNCHANGED <<call_sequence, block_type, peek_block_type, first_block, mark, rend, stale>>
  BY DEF LzwRead, Expects, config
<1>2. /\ Control /\ TypeOK /\ self_status = "ok" /\ Point = "lzw_run"
      /\ mark \in Nat /\ rend \in Nat /\ ri \in Nat /\ wi \in Nat /\ left \in Nat
      /\ mark <= ri /\ ri <= rend /\ rend <= wi /\ rend <= mark + left
      /\ SinceMark = ri - mark /\ BlockLeft = left - SinceMark
  BY <1>1, InLzw
<1>3. Buffers' /\ ri' = ri + 1 /\ wi' = wi BY <1>1, <1>2, ReadCounts DEF TypeOK
<1>4. lzw' \in {"reads", "writes", "ends"} BY <1>1
<1>5. first_block' \in BOOLEAN /\ lzw' \in LzwStates /\ left' = left
  BY <1>1, <1>2, <1>4 DEF TypeOK, LzwStates, GoTo
<1>6. Limited' BY <1>1, <1>2, <1>3, <1>4, <1>5 DEF Limited
<1>7. Control' /\ Point' = "lzw_run" /\ self_status' = "ok" BY <1>1, <1>2, <1>3, <1>5, <1>6, RunControl
<1>8. BlockLeft \in Nat /\ BlockLeft > 0 /\ BlockLeft' = BlockLeft - 1
  BY <1>1, <1>2, <1>3, <1>5, <1>7 DEF BlockLeft
<1>9. ASSUME regular' PROVE Position' /\ FreshFrames'
  <2>1. /\ in_sync /\ ~stale /\ ~first_block /\ (ended <=> lzw = "ends")
        /\ role = At("lzw", BlockLeft)
    <3>1. regular BY <1>1, <1>9
    <3> QED BY <1>1, <1>8, <3>1, InLzw
  <2>2. in_sync' /\ role' = IF BlockLeft = 1 THEN At("block", 1) ELSE At("lzw", BlockLeft - 1)
    BY <1>1, <1>8, <2>1, ReadInStep
  <2>3. role' = IF BlockLeft' = 0 THEN At("block", 1) ELSE At("lzw", BlockLeft') BY <1>8, <2>2
  <2>4. InStep' BY <1>7, <2>3 DEF InStep
  <2>5. ~ended BY <1>1, <2>1
  <2>6. role.field = "lzw" /\ role.left = BlockLeft BY <2>1
  <2>7. is_end => BlockLeft' = 0
    <3>1. is_end => role.left = 1 BY <1>1, <1>9, <2>1, <2>6
    <3> QED BY <1>8, <2>6, <3>1
  <2>8. (lzw' = "ends") <=> is_end BY <1>1, <2>1, <2>5
  <2>9. LzwInStep' BY <1>1, <1>7, <2>1, <2>5, <2>7, <2>8 DEF LzwInStep
  <2> QED BY <1>1, <2>1, <2>2, <2>4, <2>9 DEF Position, FreshFrames
<1> QED BY <1>1, <1>7, <1>9 DEF DecoderInv

LEMMA LzwOkStep == ASSUME DecoderInv, LzwOk PROVE DecoderInv'
<1>1. /\ pc = "lzw_run" /\ lzw = "ends" /\ lzw' = "fresh" /\ GoTo("block", 1)
      /\ UNCHANGED <<call_sequence, block_type, peek_block_type, first_block, ended, regular, stale, ri, wi, role,
                     in_sync>>
  BY DEF LzwOk, config, source
<1>2. /\ Control /\ TypeOK /\ call_sequence = 1 /\ ~peek_block_type /\ pc # "caller" BY <1>1, InLzw
<1>3. Buffers' /\ lzw' \in LzwStates BY <1>1, <1>2 DEF TypeOK, Buffers, LzwStates
<1>4. Control' /\ Point' = "block" /\ self_status' = "ok"
  BY <1>1, <1>2, <1>3, GoToControl DEF TypeOK
<1>5. ASSUME regular PROVE Position' /\ FreshFrames'
  <2>1. in_sync /\ ~stale /\ role = At("block", 1) BY <1>1, <1>5, InLzw
  <2>2. InStep' BY <1>1, <1>4, <2>1, InStepShort
  <2>3. LzwInStep' BY <1>1, <1>4 DEF LzwInStep
  <2> QED BY <1>1, <2>1, <2>2, <2>3 DEF Position, FreshFrames
<1> QED BY <1>1, <1>4, <1>5 DEF DecoderInv

(* lzw.decode has returned z, and decode_id goes on: within the sub-block, *)
(* with the bytes read since the mark taken off, or at the next one.       *)
LEMMA AfterLzwStep ==
  ASSUME DecoderInv, pc = "lzw_run", NEW z \in {"short_read", "short_write", "lzw_error"}, AfterLzw(z),
         lzw' \in LzwStates \ {"fresh"}, (lzw' = "ends") <=> (lzw = "ends"),
         z = "short_read" => lzw # "ends",
         UNCHANGED <<call_sequence, block_type, peek_block_type, first_block, ended, regular, stale, ri, wi, role,
                     in_sync>>
  PROVE  DecoderInv'
<1>1. /\ Control /\ TypeOK /\ pc # "caller" /\ call_sequence = 1 /\ ~peek_block_type
      /\ left \in Nat /\ SinceMark \in Nat /\ SinceMark <= left /\ BlockLeft = left - SinceMark
  BY InLzw
<1>2. Buffers' /\ lzw' \in LzwStates /\ first_block' \in BOOLEAN BY <1>1 DEF TypeOK, Buffers
<1>3. ASSUME regular
      PROVE  /\ in_sync /\ ~stale /\ ~first_block /\ (ended <=> lzw = "ends")
             /\ role = IF BlockLeft = 0 THEN At("block", 1) ELSE At("lzw", BlockLeft)
             /\ lzw = "ends" => BlockLeft = 0
  BY <1>3, InLzw
<1>4. CASE left = SinceMark /\ z = "short_read"
  <2>1. GoTo("block", 1) BY <1>1, <1>4 DEF AfterLzw
  <2>2. Control' /\ Point' = "block" /\ self_status' = "ok" BY <1>1, <1>2, <2>1, GoToControl DEF TypeOK
  <2>3. ASSUME regular PROVE Position' /\ FreshFrames'
    <3>1. BlockLeft = 0 BY <1>1, <1>4
    <3>2. role = At("block", 1) BY <1>3, <2>3, <3>1
    <3>3. InStep' BY <2>2, <3>2, InStepShort
    <3>4. LzwInStep' BY <1>3, <1>4, <2>2, <2>3 DEF LzwInStep
    <3> QED BY <1>3, <2>3, <3>3, <3>4 DEF Position, FreshFrames
  <2> QED BY <1>1, <2>2, <2>3 DEF DecoderInv
<1>5. CASE ~(left = SinceMark /\ z = "short_read") /\ z = "lzw_error"
  <2>1. Error("lzw_error") BY <1>1, <1>5 DEF AfterLzw
  <2> QED BY <1>1, <1>2, <1>3, <2>1, ErrorStep DEF TypeOK
<1>6. CASE ~(left = SinceMark /\ z = "short_read") /\ z # "lzw_error"
  <2>1. Suspend(z, "lzw", left - SinceMark) /\ left - SinceMark \in Nat BY <1>1, <1>6 DEF AfterLzw
  <2>2. Control' /\ Point' = "lzw" /\ self_status' = "ok" /\ left' = left - SinceMark
    BY <1>1, <1>2, <2>1, SuspendControl DEF TypeOK
  <2>3. BlockLeft' = BlockLeft BY <1>1, <2>2 DEF BlockLeft
  <2>4. ASSUME regular PROVE Position' /\ FreshFrames'
    <3>1. InStep' BY <1>3, <2>2, <2>3, <2>4 DEF InStep
    <3>2. LzwInStep' BY <1>3, <2>2, <2>3, <2>4 DEF LzwInStep
    <3> QED BY <1>3, <2>4, <3>1, <3>2 DEF Position, FreshFrames
  <2> QED BY <1>1, <2>2, <2>4 DEF DecoderInv
<1> QED BY <1>4, <1>5, <1>6

LEMMA LzwShortReadStep == ASSUME DecoderInv, LzwShortRead PROVE DecoderInv'
<1>1. /\ pc = "lzw_run" /\ lzw \in {"reads", "writes"} /\ lzw' = "reads" /\ AfterLzw("short_read")
      /\ UNCHANGED <<call_sequence, block_type, peek_block_type, first_block, ended, regular, stale, ri, wi, role,
                     in_sync>>
  BY DEF LzwShortRead, config, source
<1>2. lzw' \in LzwStates \ {"fresh"} /\ lzw # "ends" /\ lzw' # "ends" BY <1>1 DEF LzwStates
<1> QED BY <1>1, <1>2, AfterLzwStep

LEMMA LzwStopsStep == ASSUME DecoderInv, LzwStops PROVE DecoderInv'
<1>1. PICK z \in {"short_write", "lzw_error"} :
        /\ pc = "lzw_run" /\ lzw \in {"writes", "ends"} /\ AfterLzw(z) /\ lzw' = lzw
        /\ UNCHANGED <<call_sequence, block_type, peek_block_type, first_block, ended, regular, stale, ri, wi, role,
                       in_sync>>
  BY DEF LzwStops, config, image, source
<1>2. lzw' \in LzwStates \ {"fresh"} /\ z # "short_read" BY <1>1 DEF LzwStates
<1> QED BY <1>1, <1>2, AfterLzwStep


LEMMA HeaderStep == ASSUME DecoderInv, Header PROVE DecoderInv'
<1>1. FieldOf("header") = "header" /\ FieldOf("table") = "table" /\ Follow("table", "c_top", Type)
  BY DEF FieldOf, Follow
<1>2. ASSUME ColorTable PROVE DecoderInv' BY <1>1, <1>2, PartStep DEF ColorTable
<1>3. ASSUME Loop("header", "header") \/ Loop("table", "table") PROVE DecoderInv' BY <1>1, <1>3, LoopStep
<1> QED BY <1>2, <1>3, BadHeaderStep, HeaderEndStep DEF Header

LEMMA ExtensionStep == ASSUME DecoderInv, Extension PROVE DecoderInv'
<1>1. \A p \in {"data", "a_data", "a_id", "a_sub_data", "a_two", "a_loops"} : p \in Long /\ FieldOf(p) = "data"
  BY DEF FieldOf
<1>2. ASSUME NEW p \in {"data", "a_data", "a_id", "a_sub_data", "a_two", "a_loops"}, Loop(p, "data")
      PROVE  DecoderInv'
  BY <1>1, <1>2, LoopStep
<1>3. ASSUME NEW p \in {"data", "a_data", "a_id", "a_sub_data", "a_two"}, NEW where \in {"size", "a_sub_size"},
             Part(p, "data", where, Size)
      PROVE  DecoderInv'
  <2>1. Follow(p, where, Size) BY DEF Follow
  <2> QED BY <1>1, <1>3, <2>1, PartStep
<1>4. ASSUME Label PROVE DecoderInv'
  <2>1. PICK where \in {"a_size", "size"} : Part("label", "label", where, Size) BY <1>4 DEF Label
  <2>2. Follow("label", where, Size) /\ FieldOf("label") = "label" BY DEF Follow, FieldOf
  <2> QED BY <2>1, <2>2, PartStep
<1>5. ASSUME SkipSize PROVE DecoderInv' BY <1>5, SizeOfStep, Lengths DEF SkipSize
<1>6. ASSUME AppSize PROVE DecoderInv' BY <1>6, SizeOfStep, Lengths DEF AppSize
<1>7. ASSUME SkipEnd \/ AppSkipEnd \/ AppId \/ AppSubSkipEnd \/ AppTwoEnd PROVE DecoderInv'
  BY <1>3, <1>7 DEF SkipEnd, AppSkipEnd, AppId, AppSubSkipEnd, AppTwoEnd
<1> QED BY <1>2, <1>4, <1>5, <1>6, <1>7, AppSubSizeStep, AppOneStep, AppLoopsStep DEF Extension

LEMMA ImageStep == ASSUME DecoderInv, Image PROVE DecoderInv'
<1>1. FieldOf("desc") = "desc" /\ FieldOf("l_table") = "l_table" /\ Follow("l_table", "lw", At("lw", 1))
  BY DEF FieldOf, Follow
<1>2. ASSUME LocalTable PROVE DecoderInv' BY <1>1, <1>2, PartStep DEF LocalTable
<1>3. ASSUME Loop("desc", "desc") \/ Loop("l_table", "l_table") PROVE DecoderInv' BY <1>1, <1>3, LoopStep
<1> QED
  BY <1>2, <1>3, DescEndStep, LiteralWidthStep, BlockSizeStep, LzwCallStep, LzwReadStep, LzwOkStep,
     LzwShortReadStep, LzwStopsStep
  DEF Image

LEMMA StutterStep == ASSUME DecoderInv, UNCHANGED vars PROVE DecoderInv'
<1>1. /\ UNCHANGED <<pc, method, resume, ret, self_status, call_sequence, block_type, peek_block_type, left,
                     lzw, first_block, mark, rend, ri, wi, role, ended, regular, in_sync, stale>>
  BY DEF vars
<1>2. Active' = Active /\ Point' = Point BY <1>1 DEF Active, Point
<1>3. Control'
  <2>1. TypeOK' /\ Limited' BY <1>1 DEF DecoderInv, Control, TypeOK, Buffers, Limited
  <2>2. OneMethod' BY <1>1, <1>2 DEF DecoderInv, Control, OneMethod
  <2> QED BY <1>1, <2>1, <2>2 DEF DecoderInv, Control, NoInternalError
<1> QED BY <1>1, <1>2, <1>3, SamePoint

LEMMA NextStep == DecoderInv /\ [Next]_vars => DecoderInv'
<1> SUFFICES ASSUME DecoderInv, [Next]_vars PROVE DecoderInv' OBVIOUS
<1>1. ASSUME NEW m \in {"decode_config", "decode_frame"}, Call(m) PROVE DecoderInv' BY <1>1, CallStep
<1> QED
  BY <1>1, FeedStep, ShortReadStep, HeaderStep, ConfigTopStep, ConfigTypeStep, FramePeekedStep, FrameNotPeekedStep,
     FrameTypeStep, EndOfDataStep, ExtensionStep, ImageStep, StutterStep
  DEF Next, Decoder

-----------------------------------------------------------------------------
(* The inductive invariant of decode_config and decode_frame: whatever the *)
(* encoder does, one method at most is suspended, at a point of its own;   *)
(* and the position and the LZW decoder are right while it does what the   *)
(* decoder expects.                                                        *)
THEOREM Invariance == Spec => []DecoderInv
BY InitStep, NextStep, PTL DEF Spec

(* decode_id never meets "internal error: inconsistent limited read",      *)
(* whatever the encoder does.                                              *)
THEOREM InternalErrorIsUnreachable == Spec => []NoInternalError
<1>1. DecoderInv => NoInternalError BY DEF DecoderInv, Control
<1> QED BY <1>1, Invariance, PTL

(* decode_config and decode_frame read every byte as the field that the    *)
(* encoder wrote, wherever the caller cuts the source, until an encoder    *)
(* ends a frame's LZW data without its end code, writes data after that,   *)
(* or ends a loop extension after its identifier.                          *)
THEOREM StaysInSync == Spec => []InSync
<1>1. DecoderInv => InSync BY DEF DecoderInv, Position, InSync
<1> QED BY <1>1, Invariance, PTL

(* Every frame starts its LZW data with a fresh lzw.decode, for the same   *)
(* streams: decode_id hands over all the data up to the end code, and does *)
(* not leave a sub-block before lzw.decode has written what it stands for. *)
THEOREM FramesStartFresh == Spec => []FreshLzw
<1>1. DecoderInv => FreshLzw BY DEF DecoderInv, FreshFrames, FreshLzw
<1> QED BY <1>1, Invariance, PTL
=============================================================================
