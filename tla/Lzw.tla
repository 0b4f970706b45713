-------------------------------- MODULE Lzw --------------------------------
(***************************************************************************)
(* LZW as std/gif/README.md describes it, with strings: what a code stands *)
(* for, what it adds to the dictionary, and the text that comes out.  No   *)
(* bits, bytes, buffers, prefix chains or suspensions.                     *)
(***************************************************************************)
EXTENDS Integers, Sequences

CONSTANTS
  LiteralWidths,  \* the literal widths; 2..8 in the code
  MaxWidth        \* the width of the longest codes: 12

VARIABLES
  lw,       \* the literal width
  dict,     \* dict[k] is what code end_code + k stands for
  prev,     \* what the code before stands for; empty after a clear code
  text,     \* the text delivered
  pending,  \* what is still to be delivered of the code decoded last
  status    \* "running", "ok" or "out_of_range"

vars == <<lw, dict, prev, text, pending, status>>

ClearCode == 2^lw
EndCode == ClearCode + 1
LastCode == 2^MaxWidth - 1

(* What a code stands for; the dictionary's next entry is one of them.     *)
Outputs(code) ==
  IF code < ClearCode THEN {<<code>>}
  ELSE {dict[k] : k \in {j \in 1..Len(dict) : code = EndCode + j}}
       \cup IF prev # << >> /\ code = EndCode + Len(dict) + 1
            THEN {prev \o <<prev[1]>>} ELSE {}

Init ==
  /\ lw \in LiteralWidths
  /\ dict = << >> /\ prev = << >>
  /\ text = << >> /\ pending = << >>
  /\ status = "running"

Decode(code) ==
  /\ status = "running"
  /\ pending = << >>
  /\ \E out \in Outputs(code) :
       /\ pending' = out
       /\ prev' = out
       /\ dict' = IF prev # << >> /\ EndCode + Len(dict) < LastCode
                  THEN Append(dict, prev \o <<out[1]>>) ELSE dict
  /\ UNCHANGED <<lw, text, status>>

Clear ==
  /\ status = "running"
  /\ pending = << >>
  /\ dict' = << >>
  /\ prev' = << >>
  /\ UNCHANGED <<lw, text, pending, status>>

Deliver(n) ==
  /\ text' = text \o SubSeq(pending, 1, n)
  /\ pending' = SubSeq(pending, n + 1, Len(pending))
  /\ UNCHANGED <<lw, dict, prev, status>>

Stop(code) ==
  /\ status = "running"
  /\ pending = << >>
  /\ \/ code = EndCode /\ status' = "ok"
     \/ /\ code > EndCode
        /\ Outputs(code) = {}
        /\ status' = "out_of_range"
  /\ UNCHANGED <<lw, dict, prev, text, pending>>

Next ==
  \/ \E code \in 0..LastCode : Decode(code) \/ Stop(code)
  \/ Clear
  \/ \E n \in 1..Len(pending) : Deliver(n)

Spec == Init /\ [][Next]_vars
=============================================================================
