----------------------------- MODULE GifDecoder -----------------------------
(***************************************************************************)
(* The gif decoder of std/gif around its LZW decoder: decode_config and    *)
(* decode_frame, the header, the extensions, the image descriptor and the  *)
(* sub-blocks that carry the LZW data, over a source that the caller       *)
(* delivers in pieces and may close.                                       *)
(*                                                                         *)
(* The source is read as the ghost variable role says it was written: a    *)
(* GIF is a sequence of fields, and role is the field that the next byte   *)
(* belongs to and how many bytes of it are left.  A byte's value is what   *)
(* the decoder tells apart.  The LZW decoder appears here with the reads   *)
(* and writes at which it may suspend, on a reader that decode_id limits   *)
(* to the sub-block; its codes are the subject of GifLzw.                  *)
(***************************************************************************)
EXTENDS Integers

CONSTANTS
  HeaderLen,   \* bytes of the header and the screen descriptor: 6 + 7
  TableLens,   \* bytes of a color table, 0 if there is none: 0, 6 .. 768
  DescLen,     \* bytes of an image descriptor: 9
  IdLen,       \* bytes of an application identifier: 11
  Sizes,       \* the sub-block sizes: 0..255
  Loops,       \* the loop counts on the wire: 0..65535
  MaxSrc       \* bound on the bytes of one source buffer

(* The values of a base.u16.                                               *)
U16 == 0..65535

ASSUME GifDecoderAssumption ==
  /\ HeaderLen \in Nat /\ DescLen \in Nat /\ IdLen \in Nat \ {0, 3}
  /\ HeaderLen > 0 /\ DescLen > 0
  /\ TableLens \subseteq Nat /\ Sizes \subseteq Nat /\ Loops \subseteq U16
  /\ MaxSrc \in Nat

VARIABLES
  pc,             \* the field being read; "caller" between calls
  method,         \* the public method that runs, or ran last
  resume,         \* the suspension points of the two methods, "start" at first
  ret,            \* what the last call returned
  self_status,    \* decoder.status: an error, or "ok"
  call_sequence, block_type, peek_block_type, seen_num_loops, num_loops,
  left,           \* bytes left of the field at pc; block_size within decode_id
  lzw,            \* lzw.decode starts afresh, or will read, write or end next
  first_block,    \* ghost: lzw.decode has not run yet in this frame
  mark, rend,     \* decode_id's r.mark; where lzw.decode has to stop reading
  ri, wi, closed, \* the source buffer; ri is rptr, too, while a method runs
  role,           \* ghost: the field of the next byte and its bytes left
  ended,          \* ghost: the encoder has written this frame's end code
  regular,        \* ghost: the encoder did only what the decoder expects
  in_sync,        \* ghost: every byte was read as the field it belongs to
  stale           \* ghost: a frame's data went to a suspended lzw.decode

vars == <<pc, method, resume, ret, self_status, call_sequence, block_type,
          peek_block_type, seen_num_loops, num_loops, left, lzw, first_block,
          mark, rend, ri, wi, closed, role, ended, regular, in_sync, stale>>
config == <<call_sequence, block_type, peek_block_type, seen_num_loops, num_loops>>
image == <<lzw, first_block, mark, rend, ended, regular, stale>>
source == <<ri, wi, closed, role, in_sync>>

(* The points where read_u8 or skip32 may suspend.                         *)
Fields == {"header", "table", "c_type", "f_type", "label", "size", "data", "a_size", "a_data",
           "a_id", "a_sub_size", "a_sub_data", "a_one", "a_two", "a_loops", "desc", "l_table", "lw",
           "block"}
At(r, n) == [field |-> r, left |-> n]

(* The null pointer.                                                       *)
NoMark == -1

-----------------------------------------------------------------------------
Init ==
  /\ pc = "caller" /\ method = "decode_config" /\ ret = "not_called"
  /\ resume = [m \in {"decode_config", "decode_frame"} |-> "start"]
  /\ self_status = "ok"
  /\ call_sequence = 0 /\ block_type = "none" /\ peek_block_type = FALSE
  /\ seen_num_loops = FALSE /\ num_loops = 1
  /\ left = 0 /\ lzw = "fresh" /\ first_block = FALSE
  /\ mark = NoMark /\ rend = 0
  /\ ri = 0 /\ wi = 0 /\ closed = FALSE
  /\ role = At("header", HeaderLen)
  /\ ended = FALSE /\ regular = TRUE /\ in_sync = TRUE /\ stale = FALSE

GoTo(where, n) ==
  /\ pc' = where
  /\ left' = n
  /\ UNCHANGED <<method, resume, ret, self_status>>

Error(what) ==
  /\ pc' = "caller"
  /\ ret' = what
  /\ self_status' = what
  /\ UNCHANGED <<method, resume, left>>

Suspend(why, where, n) ==
  /\ pc' = "caller"
  /\ ret' = why
  /\ resume' = [resume EXCEPT ![method] = where]
  /\ left' = n
  /\ UNCHANGED <<method, self_status>>

Ok ==
  /\ pc' = "caller"
  /\ ret' = "ok"
  /\ resume' = [resume EXCEPT ![method] = "start"]
  /\ UNCHANGED <<method, self_status, left>>

-----------------------------------------------------------------------------
(* The caller moves the unread bytes to the start of its buffer, appends n *)
(* bytes, and may close it.                                                *)
Feed(n, c) ==
  /\ pc = "caller"
  /\ ~closed
  /\ n + wi - ri <= MaxSrc
  /\ ri' = 0
  /\ wi' = n + wi - ri
  /\ closed' = c
  /\ UNCHANGED <<pc, method, resume, ret, self_status, config, left, image, role, in_sync>>

(* The test at the top of each method.                                     *)
RightCallSequence(m) == IF m = "decode_config" THEN call_sequence < 1 ELSE call_sequence >= 1

(* A call starts, or goes on where it was suspended; of the locals, r is   *)
(* not kept.                                                               *)
Call(m) ==
  /\ pc = "caller"
  /\ method' = m
  /\ IF self_status # "ok"
     THEN ret' = self_status /\ UNCHANGED <<pc, left, self_status>>
     ELSE IF resume[m] # "start"
     THEN pc' = resume[m] /\ UNCHANGED <<ret, left, self_status>>
     ELSE IF ~RightCallSequence(m)
     THEN /\ ret' = "invalid_call_sequence"
          /\ self_status' = "invalid_call_sequence"
          /\ UNCHANGED <<pc, left>>
     ELSE /\ pc' = IF m = "decode_config" THEN "header" ELSE "f_top"
          /\ left' = HeaderLen
          /\ UNCHANGED <<ret, self_status>>
  /\ mark' = NoMark
  /\ UNCHANGED <<resume, config, lzw, first_block, rend, ended, regular, stale, source>>

(* Read a byte of the field named f; then is the field that follows it if  *)
(* it is the last one.                                                     *)
Read(f, then) ==
  /\ ri < wi
  /\ ri' = ri + 1
  /\ IF role.field = f /\ role.left >= 1
     THEN /\ role' = IF role.left = 1 THEN then ELSE At(f, role.left - 1)
          /\ UNCHANGED in_sync
     ELSE UNCHANGED role /\ in_sync' = FALSE
  /\ UNCHANGED <<wi, closed>>

(* A byte that the encoder wrote for field f should abide by rule: what    *)
(* encoders do that the decoder does not expect.  It may have any value.   *)
Expects(f, rule) == regular' = (regular /\ (in_sync /\ role.field = f => rule))

(* The template short_read, without a limit on the reader.                 *)
ShortRead ==
  /\ pc \in Fields
  /\ ri = wi
  /\ IF closed THEN Error("unexpected_eof") ELSE Suspend("short_read", pc, left)
  /\ UNCHANGED <<config, image, source>>

(* A field of several bytes: the loops over read_u8, and skip32.           *)
Loop(p, f) ==
  /\ pc = p
  /\ left > 1
  /\ Read(f, At(f, 0))
  /\ GoTo(p, left - 1)
  /\ UNCHANGED <<config, image>>

Part(p, f, where, then) ==
  /\ pc = p
  /\ left = 1
  /\ Read(f, then)
  /\ GoTo(where, 1)
  /\ UNCHANGED <<config, image>>

-----------------------------------------------------------------------------
(* decode_header and decode_lsd.                                           *)
Type == At("type", 1)
BadHeader ==
  /\ pc = "header"
  /\ Read("header", At("header", 0))
  /\ Error("bad_header")
  /\ UNCHANGED <<config, image>>

HeaderEnd == \E n \in TableLens :
  IF n = 0 THEN Part("header", "header", "c_top", Type)
  ELSE /\ pc = "header"
       /\ left = 1
       /\ Read("header", At("table", n))
       /\ GoTo("table", n)
       /\ UNCHANGED <<config, image>>

ColorTable == Part("table", "table", "c_top", Type)

(* The block type and, for its sake only, what follows in the stream.      *)
Types == {"extension", "image", "trailer", "bad"}
AfterType(t) ==
  CASE t = "extension" -> At("label", 1) [] t = "image" -> At("desc", DescLen)
    [] OTHER -> At("end", 0)

(* The loop of decode_config.                                              *)
ConfigTop ==
  /\ pc = "c_top"
  /\ peek_block_type' = TRUE
  /\ GoTo("c_type", 1)
  /\ UNCHANGED <<call_sequence, block_type, seen_num_loops, num_loops, image, source>>

ConfigType == \E t \in Types :
  /\ pc = "c_type"
  /\ Read("type", AfterType(t))
  /\ block_type' = t
  /\ IF seen_num_loops \/ t # "extension"
     THEN Ok /\ call_sequence' = 1
     ELSE GoTo("label", 1) /\ UNCHANGED call_sequence
  /\ UNCHANGED <<peek_block_type, seen_num_loops, num_loops, image>>

(* Variant: the block type read by decode_config is forgotten.             *)
PeekedIsForgotten == FALSE

Peeked == peek_block_type

(* The loop of decode_frame, with the block type now known to be t.        *)
Block(t) ==
  CASE t = "extension" -> GoTo("label", 1)
    [] t = "image"     -> GoTo("desc", DescLen)
    [] t = "trailer"   -> Suspend("end_of_data", "end", left)
    [] OTHER           -> Error("bad_block")

FramePeeked ==
  /\ pc = "f_top"
  /\ Peeked
  /\ peek_block_type' = FALSE
  /\ Block(block_type)
  /\ UNCHANGED <<call_sequence, block_type, seen_num_loops, num_loops, image, source>>

FrameNotPeeked ==
  /\ pc = "f_top"
  /\ ~Peeked
  /\ GoTo("f_type", 1)
  /\ UNCHANGED <<config, image, source>>

FrameType == \E t \in Types :
  /\ pc = "f_type"
  /\ Read("type", AfterType(t))
  /\ block_type' = t
  /\ Block(t)
  /\ UNCHANGED <<call_sequence, peek_block_type, seen_num_loops, num_loops, image>>

EndOfData ==
  /\ pc = "end"
  /\ Suspend("end_of_data", "end", left)
  /\ UNCHANGED <<config, image, source>>

-----------------------------------------------------------------------------
(* decode_extension, decode_ae and skip_blocks.  After an extension both   *)
(* methods go on with the next block type.                                 *)
NextType == IF method = "decode_config" THEN "c_top" ELSE "f_top"
Size == At("size", 1)
AfterSize(n) == IF n = 0 THEN Type ELSE At("data", n)

Label ==
  \/ Part("label", "label", "a_size", Size)
  \/ Part("label", "label", "size", Size)

(* A sub-block's size, and control for it: skip n bytes at skip.           *)
SizeOf(p, n, skip) ==
  /\ pc = p
  /\ Read("size", AfterSize(n))
  /\ IF n = 0 THEN GoTo(NextType, 1) ELSE GoTo(skip, n)
  /\ UNCHANGED <<config, image>>

SkipSize == \E n \in Sizes : SizeOf("size", n, "data")
SkipEnd == Part("data", "data", "size", Size)

AppSize ==
  \/ \E n \in Sizes \ {IdLen} : SizeOf("a_size", n, "a_data")
  \/ IdLen \in Sizes /\ SizeOf("a_size", IdLen, "a_id")
AppSkipEnd == Part("a_data", "data", "size", Size)

(* The identifier is one of the two, or neither.                           *)
AppId ==
  \/ Part("a_id", "data", "a_sub_size", Size)
  \/ Part("a_id", "data", "size", Size)

(* skip32 of 0 bytes goes on: skip_blocks then takes the byte after the    *)
(* terminator for a size.  Expected is a sub-block after the identifier.   *)
AppSubSize == \E n \in Sizes :
  /\ pc = "a_sub_size"
  /\ Expects("size", n # 0)
  /\ Read("size", AfterSize(n))
  /\ CASE n = 0 -> GoTo("size", 1)
       [] n = 3 -> GoTo("a_one", 1)
       [] OTHER -> GoTo("a_sub_data", n)
  /\ UNCHANGED <<config, lzw, first_block, mark, rend, ended, stale>>
AppSubSkipEnd == Part("a_sub_data", "data", "size", Size)

AppOne ==
  /\ pc = "a_one"
  /\ Read("data", Size)
  /\ GoTo("a_loops", 2) \/ GoTo("a_two", 2)
  /\ UNCHANGED <<config, image>>
AppTwoEnd == Part("a_two", "data", "size", Size)

(* "A loop count of N, in the wire format, actually means repeat N times   *)
(* after the first play, if N is positive."                                *)
PlayCount(n) == IF 0 < n /\ n <= 65535 THEN n + 1 ELSE n
AppLoops == \E n \in Loops :
  /\ pc = "a_loops"
  /\ left = 1
  /\ Read("data", Size)
  /\ num_loops' = PlayCount(n)
  /\ seen_num_loops' = TRUE
  /\ GoTo("size", 1)
  /\ UNCHANGED <<call_sequence, block_type, peek_block_type, image>>

-----------------------------------------------------------------------------
(* decode_id.                                                              *)
DescEnd == \E n \in TableLens :
  IF n = 0 THEN Part("desc", "desc", "lw", At("lw", 1))
  ELSE /\ pc = "desc"
       /\ left = 1
       /\ Read("desc", At("l_table", n))
       /\ GoTo("l_table", n)
       /\ UNCHANGED <<config, image>>

LocalTable == Part("l_table", "l_table", "lw", At("lw", 1))

LiteralWidth ==
  /\ pc = "lw"
  /\ Read("lw", At("block", 1))
  /\ \/ Error("bad_literal_width") /\ UNCHANGED <<first_block, ended>>
     \/ GoTo("block", 1) /\ first_block' = TRUE /\ ended' = FALSE
  /\ UNCHANGED <<config, lzw, mark, rend, regular, stale>>

(* The size of a sub-block of LZW data.  Expected is that the one with the *)
(* end code is the last that is not empty.                                 *)
BlockSize == \E n \in Sizes :
  /\ pc = "block"
  /\ Expects("block", n = 0 <=> ended)
  /\ Read("block", IF n = 0 THEN Type ELSE At("lzw", n))
  /\ IF n = 0 THEN Ok ELSE GoTo("lzw", n)
  /\ UNCHANGED <<config, lzw, first_block, mark, rend, ended, stale>>

(* What is left of the sub-block.                                          *)
Limit == left

(* Where a reader with that limit ends: rend, as lzw.decode computes it.   *)
LimitedEnd == ri + IF wi - ri <= Limit THEN wi - ri ELSE Limit

(* decode_id marks its reader and calls lzw.decode on a copy of it that is *)
(* limited to what is left of the sub-block: lzw.decode stops at rend.     *)
LzwCall ==
  /\ pc = "lzw"
  /\ mark' = ri
  /\ rend' = LimitedEnd
  /\ lzw' = IF lzw = "fresh" THEN "reads" ELSE lzw
  /\ first_block' = FALSE
  /\ stale' = (stale \/ (first_block /\ lzw # "fresh"))
  /\ GoTo("lzw_run", left)
  /\ UNCHANGED <<config, ended, regular, source>>

(* lzw.decode reads a byte, which may complete the encoder's end code;     *)
(* else it goes on to read, or to write what its codes stand for.  In data *)
(* that is not its own, it may find anything.  Expected is that the end    *)
(* code ends its sub-block.                                                *)
LzwRead == \E is_end \in BOOLEAN :
  /\ pc = "lzw_run"
  /\ lzw \in {"reads", "writes"}
  /\ ri < rend
  /\ Expects("lzw", is_end => ~ended /\ role.left = 1)
  /\ Read("lzw", At("block", 1))
  /\ ended' = (ended \/ is_end)
  /\ lzw' \in IF stale \/ ended \/ ~in_sync THEN {"reads", "writes", "ends"}
              ELSE IF is_end THEN {"ends"} ELSE {"reads", "writes"}
  /\ GoTo("lzw_run", left)
  /\ UNCHANGED <<config, first_block, mark, rend, stale>>

(* Variant: counted from the start of the buffer.                          *)
SinceStart == ri

(* r.since_mark().length().                                                *)
SinceMark == IF mark = NoMark THEN 0 ELSE ri - mark

(* Variant: a call that has used up its sub-block is taken to be done.     *)
AfterLzwAnyEnd(z) ==
  IF left < SinceMark THEN Error("inconsistent_limited_read")
  ELSE IF left = SinceMark THEN GoTo("block", 1)
  ELSE IF z = "lzw_error" THEN Error(z)
  ELSE Suspend(z, "lzw", left - SinceMark)

(* What decode_id does when lzw.decode returned z, if that is not ok.      *)
AfterLzw(z) ==
  IF left < SinceMark THEN Error("inconsistent_limited_read")
  ELSE IF left = SinceMark /\ z = "short_read" THEN GoTo("block", 1)
  ELSE IF z = "lzw_error" THEN Error(z)
  ELSE Suspend(z, "lzw", left - SinceMark)

(* z.is_ok(): the rest of the sub-block, if any, is not skipped.           *)
LzwOk ==
  /\ pc = "lzw_run"
  /\ lzw = "ends"
  /\ lzw' = "fresh"
  /\ GoTo("block", 1)
  /\ UNCHANGED <<config, first_block, mark, rend, ended, regular, stale, source>>

(* The template short_read, with a limit: closed is not looked at.         *)
LzwShortRead ==
  /\ pc = "lzw_run"
  /\ lzw \in {"reads", "writes"}
  /\ ri = rend
  /\ lzw' = "reads"
  /\ AfterLzw("short_read")
  /\ UNCHANGED <<config, first_block, mark, rend, ended, regular, stale, source>>

(* There is no room for what the codes read so far stand for, or one of    *)
(* them is not valid.                                                      *)
LzwStops == \E z \in {"short_write", "lzw_error"} :
  /\ pc = "lzw_run"
  /\ lzw \in {"writes", "ends"}
  /\ AfterLzw(z)
  /\ UNCHANGED <<config, image, source>>

-----------------------------------------------------------------------------
Header == Loop("header", "header") \/ BadHeader \/ HeaderEnd \/ Loop("table", "table") \/ ColorTable
Extension ==
  \/ Label \/ SkipSize \/ Loop("data", "data") \/ SkipEnd
  \/ AppSize \/ Loop("a_data", "data") \/ AppSkipEnd \/ Loop("a_id", "data") \/ AppId
  \/ AppSubSize \/ Loop("a_sub_data", "data") \/ AppSubSkipEnd
  \/ AppOne \/ Loop("a_two", "data") \/ AppTwoEnd \/ Loop("a_loops", "data") \/ AppLoops
Image ==
  \/ Loop("desc", "desc") \/ DescEnd \/ Loop("l_table", "l_table") \/ LocalTable
  \/ LiteralWidth \/ BlockSize \/ LzwCall \/ LzwRead \/ LzwOk \/ LzwShortRead \/ LzwStops

Decoder ==
  \/ ShortRead \/ Header \/ ConfigTop \/ ConfigType
  \/ FramePeeked \/ FrameNotPeeked \/ FrameType \/ EndOfData
  \/ Extension \/ Image

Next ==
  \/ \E n \in 0..MaxSrc, c \in BOOLEAN : Feed(n, c)
  \/ \E m \in {"decode_config", "decode_frame"} : Call(m)
  \/ Decoder

Spec == Init /\ [][Next]_vars
-----------------------------------------------------------------------------
(* The methods in progress: decode_config until it has returned ok, then   *)
(* decode_frame, and the point where it is or will be resumed.             *)
Methods == {"decode_config", "decode_frame"}
Active == IF call_sequence = 0 THEN "decode_config" ELSE "decode_frame"
Point == IF pc = "caller" THEN resume[Active] ELSE pc

ExtensionPoints == {"label", "size", "data", "a_size", "a_data", "a_id", "a_sub_size", "a_sub_data",
                    "a_one", "a_two", "a_loops"}
ConfigPoints == ExtensionPoints \cup {"header", "table", "c_type"}
FramePoints == ExtensionPoints \cup {"f_type", "desc", "l_table", "lw", "block", "lzw", "end"}

LzwStates == {"fresh", "reads", "writes", "ends"}
Buffers == ri \in Nat /\ wi \in Nat /\ ri <= wi

TypeOK ==
  /\ pc \in ConfigPoints \cup FramePoints \cup {"caller", "c_top", "f_top", "lzw_run"}
  /\ method \in Methods
  /\ resume \in [Methods -> ConfigPoints \cup FramePoints \cup {"start"}]
  /\ call_sequence \in {0, 1}
  /\ block_type \in Types \cup {"none"}
  /\ peek_block_type \in BOOLEAN /\ first_block \in BOOLEAN
  /\ left \in Nat /\ Buffers
  /\ lzw \in LzwStates

(* An error ends both methods; before that, at most the active method is   *)
(* suspended, and it is at a point of its own.                             *)
OneMethod ==
  /\ self_status # "ok" => pc = "caller"
  /\ self_status = "ok" =>
       /\ pc # "caller" => method = Active
       /\ call_sequence = 0 =>
            resume["decode_frame"] = "start" /\ Point \in ConfigPoints \cup {"c_top", "start"}
       /\ call_sequence = 1 =>
            /\ resume["decode_config"] = "start"
            /\ Point \in FramePoints \cup {"f_top", "lzw_run", "start"}
       /\ call_sequence = 1 /\ Point \notin {"f_top", "start"} => ~peek_block_type

(* While lzw.decode runs, it is between the mark of decode_id and its own  *)
(* end, which is within the buffer and within the sub-block.               *)
Limited ==
  pc = "lzw_run" =>
    /\ mark \in Nat /\ rend \in Nat
    /\ mark <= ri /\ ri <= rend /\ rend <= wi /\ rend <= mark + left
    /\ lzw # "fresh"

(* The points that read a field of several bytes, and the field.           *)
Long == {"header", "table", "desc", "l_table", "data", "a_data", "a_id", "a_sub_data", "a_two", "a_loops"}
FieldOf(p) == IF p \in {"a_data", "a_id", "a_sub_data", "a_two", "a_loops"} THEN "data" ELSE p

(* The bytes that are left of a sub-block of LZW data.                     *)
BlockLeft == IF Point = "lzw_run" THEN left - (ri - mark) ELSE left

(* The next byte of the stream is the one that the decoder is about to     *)
(* read at its point.                                                      *)
InStep ==
  /\ Point \in Long => left > 0 /\ role = At(FieldOf(Point), left)
  /\ Point \in {"c_top", "c_type", "f_type"} => role = Type
  /\ Point = "c_type" => peek_block_type
  /\ Point \in {"size", "a_size", "a_sub_size"} => role = Size
  /\ Point \in {"label", "lw", "block"} => role = At(Point, 1)
  /\ Point = "a_one" => role = At("data", 3)
  /\ Point \in {"lzw", "lzw_run"} =>
       role = IF BlockLeft = 0 THEN At("block", 1) ELSE At("lzw", BlockLeft)
  /\ Point = "start" /\ call_sequence = 0 => role = At("header", HeaderLen)
  /\ Point \in {"start", "f_top"} /\ call_sequence = 1 =>
       role = IF peek_block_type THEN AfterType(block_type) ELSE Type

(* lzw.decode has begun only within the LZW data of a frame; there, it has *)
(* met the end code once the encoder wrote it, at the end of a sub-block,  *)
(* and it is done before the next sub-block is looked at.                  *)
LzwInStep ==
  /\ lzw # "fresh" => Point \in {"lzw", "lzw_run", "block"} /\ ~first_block
  /\ Point \in {"lzw", "lzw_run"} => (ended <=> lzw = "ends") /\ (lzw = "ends" => BlockLeft = 0)
  /\ Point = "block" => lzw # "ends" /\ (ended => lzw = "fresh")

(* Every byte of a GIF is read as the field it belongs to, wherever the    *)
(* caller cuts the source: the block type that decode_config peeked at,    *)
(* the sub-blocks of extensions and those of the LZW data.  That is, until *)
(* the encoder does one of three things that decode_ae and decode_id do    *)
(* not allow for: a loop extension that ends after its identifier, an end  *)
(* code with other data after it, a frame that ends without an end code.   *)
InSync == regular => in_sync

(* decode_id never meets its internal error: the bytes that lzw.decode has *)
(* read since the mark are at most what is left of the sub-block, over all *)
(* the calls that it takes and however the caller moves its buffer.        *)
NoInternalError == ret # "inconsistent_limited_read"

(* A frame's LZW data is decoded from the initial state: lzw.decode does   *)
(* not resume a call that an earlier frame left suspended, with codes that *)
(* it has read and not written yet, as long as encoders end their frames   *)
(* as above.                                                               *)
FreshLzw == regular => ~stale

(* The inductive invariant: of the control and, until an encoder does what *)
(* the decoder does not expect, of the stream's position and of lzw.decode.*)
Control ==
  /\ TypeOK /\ OneMethod /\ Limited
  /\ NoInternalError /\ self_status # "inconsistent_limited_read"
Position == in_sync /\ (self_status = "ok" => InStep)
FreshFrames == ~stale /\ (self_status = "ok" => LzwInStep)
DecoderInv == Control /\ (regular => Position /\ FreshFrames)
=============================================================================
