------------------------------- MODULE Lz77 -------------------------------
(***************************************************************************)
(* What std/deflate promises once Huffman codes are resolved to symbols:   *)
(* the text is the LZ77 expansion of the symbols read so far.  Nothing     *)
(* here knows about buffers, suspensions or a history ring, so implementing *)
(* this specification means that the way the caller cuts the input and the *)
(* output into chunks cannot be seen in the text.                          *)
(***************************************************************************)
EXTENDS Integers, Sequences

CONSTANTS
  Runs,       \* the runs of literal bytes that one step may add
  Lengths,    \* match lengths; 3..258 in the code
  Distances   \* match distances; 1..0x8000 in the code

VARIABLES
  text,     \* the text decoded so far
  stream,   \* the symbols whose expansion text is
  failed    \* a match reached back before the start of the text

vars == <<text, stream, failed>>

LiteralSymbol(bytes) == [kind |-> "literal", bytes |-> bytes]

MatchSymbol(length, distance) ==
  [kind |-> "match", length |-> length, distance |-> distance]

(* u is t followed by the expansion of a run of literal bytes.             *)
ExpandsLiteral(t, bytes, u) == u = t \o bytes

(* u is t followed by length bytes, each a copy of the one distance back.  *)
(* The copied bytes may themselves be copies: distance < length is legal.  *)
ExpandsMatch(t, length, distance, u) ==
  /\ distance <= Len(t)
  /\ Len(u) = Len(t) + length
  /\ \A i \in 1..Len(t) : u[i] = t[i]
  /\ \A i \in Len(t) + 1 .. Len(u) : u[i] = u[i - distance]

Init ==
  /\ text = << >>
  /\ stream = << >>
  /\ failed = FALSE

Literal ==
  /\ ~failed
  /\ \E bytes \in Runs :
       /\ ExpandsLiteral(text, bytes, text')
       /\ stream' = Append(stream, LiteralSymbol(bytes))
  /\ UNCHANGED failed

Match ==
  /\ ~failed
  /\ \E length \in Lengths, distance \in Distances :
       /\ ExpandsMatch(text, length, distance, text')
       /\ stream' = Append(stream, MatchSymbol(length, distance))
  /\ UNCHANGED failed

BadDistance ==
  /\ ~failed
  /\ \E length \in Lengths, distance \in Distances :
       /\ distance > Len(text)
       /\ stream' = Append(stream, MatchSymbol(length, distance))
  /\ failed' = TRUE
  /\ UNCHANGED text

Next == Literal \/ Match \/ BadDistance

Spec == Init /\ [][Next]_vars
=============================================================================
