-------------------------- MODULE GifLzwRefinement --------------------------
(***************************************************************************)
(* The table-driven, resumable decoder implements Lzw: its tables stand    *)
(* for the strings of the dictionary, a chain of prefixes spells the       *)
(* string of the code it starts from, and every step of GifLzw is a step   *)
(* of the abstract specification or leaves its state alone.                *)
(***************************************************************************)
EXTENDS GifLzwProofs, SequenceTheorems

-----------------------------------------------------------------------------
(* Sequences.                                                              *)

LEMMA FunctionIsSeq ==
  ASSUME NEW S, NEW n \in Nat, NEW f \in [1..n -> S]
  PROVE  f \in Seq(S) /\ Len(f) = n
<1>1. f \in Seq(S) BY SeqDef
<1>2. DOMAIN f = 1..n OBVIOUS
<1>3. DOMAIN f = 1..Len(f) /\ Len(f) \in Nat BY <1>1, LenProperties
<1> QED BY <1>1, <1>2, <1>3

LEMMA OneElement ==
  ASSUME NEW S, NEW e \in S
  PROVE  <<e>> \in Seq(S) /\ Len(<<e>>) = 1 /\ <<e>>[1] = e
OBVIOUS

(* The slots lo + 1 to hi of the stack, as a sequence.                     *)
Slice(f, lo, hi) == [k \in 1..hi - lo |-> f[lo + k]]

(* What a sequence q of elements of S says of those slots.                 *)
IsSlice(q, S, f, lo, hi) == q \in Seq(S) /\ Len(q) = hi - lo /\ \A k \in 1..hi - lo : q[k] = f[lo + k]

LEMMA SliceIsSeq ==
  ASSUME NEW L \in Nat, NEW S, NEW f \in [0..L -> S], NEW hi \in 0..L, NEW lo \in -1..hi
  PROVE  IsSlice(Slice(f, lo, hi), S, f, lo, hi)
<1> DEFINE n == hi - lo
<1>1. n \in Nat /\ \A k \in 1..n : lo + k \in 0..L OBVIOUS
<1>2. Slice(f, lo, hi) \in [1..n -> S] BY <1>1 DEF Slice
<1>3. \A k \in 1..n : Slice(f, lo, hi)[k] = f[lo + k] BY <1>1 DEF Slice
<1> HIDE DEF n
<1>4. Slice(f, lo, hi) \in Seq(S) /\ Len(Slice(f, lo, hi)) = n BY <1>1, <1>2, FunctionIsSeq
<1> QED BY <1>3, <1>4 DEF n, IsSlice

LEMMA EmptySlice ==
  ASSUME NEW f, NEW lo \in Int
  PROVE  Slice(f, lo, lo) = << >>
<1>1. 1..lo - lo = {} OBVIOUS
<1> QED BY <1>1 DEF Slice

(* A byte pushed on the stack moves from the end of a string to the front  *)
(* of what the stack holds.                                                *)
Pushed(f, g, b, lo, e) == b = lo - 1 /\ g[lo] = e /\ \A k \in lo + 1..Last : g[k] = f[k]

LEMMA Push ==
  ASSUME Last \in Nat, NEW f \in [0..Last -> Slots], NEW g \in [0..Last -> Slots],
         NEW a \in Seq(Slots), NEW e \in Slots, NEW top \in 0..Last, NEW lo \in 1..top, NEW b \in 0..top,
         Pushed(f, g, b, lo, e)
  PROVE  Append(a, e) \o Slice(f, lo, top) = a \o Slice(g, b, top)
<1> DEFINE p == Append(a, e)
           u == Slice(f, lo, top)
           v == Slice(g, b, top)
<1>1. Len(a) \in Nat BY LenProperties
<1>2. b = lo - 1 /\ g[lo] = e /\ \A k \in lo + 1..Last : g[k] = f[k] BY DEF Pushed
<1>3. /\ p \in Seq(Slots) /\ Len(p) = Len(a) + 1
      /\ \A i \in 1..Len(a) : p[i] = a[i]
      /\ p[Len(a) + 1] = e
  BY AppendProperties
<1>4. /\ u \in Seq(Slots) /\ Len(u) = top - lo /\ \A k \in 1..top - lo : u[k] = f[lo + k]
  <2>1. lo \in -1..top OBVIOUS
  <2>2. IsSlice(Slice(f, lo, top), Slots, f, lo, top) BY <2>1, SliceIsSeq, Zenon
  <2> QED BY <2>2, Zenon DEF IsSlice
<1>5. /\ v \in Seq(Slots) /\ Len(v) = top - lo + 1 /\ \A k \in 1..top - lo + 1 : v[k] = g[b + k]
  <2>1. b \in -1..top OBVIOUS
  <2>a. IsSlice(Slice(g, b, top), Slots, g, b, top) BY <2>1, SliceIsSeq, Zenon
  <2>2. v \in Seq(Slots) /\ Len(v) = top - b /\ \A k \in 1..top - b : v[k] = g[b + k]
    BY <2>a, Zenon DEF IsSlice
  <2>3. top - b = top - lo + 1 BY <1>2
  <2> HIDE DEF v
  <2> QED BY <2>2, <2>3
<1> HIDE DEF p, u, v
<1>6. /\ p \o u \in Seq(Slots) /\ Len(p \o u) = Len(p) + Len(u)
      /\ \A i \in 1..Len(p) + Len(u) : (p \o u)[i] = IF i <= Len(p) THEN p[i] ELSE u[i - Len(p)]
  <2>1. p \in Seq(Slots) /\ u \in Seq(Slots) BY <1>3, <1>4
  <2> QED BY <2>1, ConcatProperties
<1>7. /\ a \o v \in Seq(Slots) /\ Len(a \o v) = Len(a) + Len(v)
      /\ \A i \in 1..Len(a) + Len(v) : (a \o v)[i] = IF i <= Len(a) THEN a[i] ELSE v[i - Len(a)]
  <2>1. a \in Seq(Slots) /\ v \in Seq(Slots) BY <1>5
  <2> QED BY <2>1, ConcatProperties
<1>8. Len(p \o u) = Len(a \o v) BY <1>1, <1>3, <1>4, <1>5, <1>6, <1>7
<1>9. ASSUME NEW i \in 1..Len(p \o u) PROVE (p \o u)[i] = (a \o v)[i]
  <2>0. i \in 1..Len(p) + Len(u) /\ i \in 1..Len(a) + Len(v) /\ i \in Nat BY <1>6, <1>7, <1>8
  <2>1. CASE i <= Len(a)
    BY <2>0, <2>1, <1>1, <1>3, <1>6, <1>7
  <2>2. CASE i = Len(a) + 1
    <3>1. (p \o u)[i] = e BY <2>0, <2>2, <1>1, <1>3, <1>6
    <3>2. (a \o v)[i] = v[1] BY <2>0, <2>2, <1>1, <1>7
    <3>3. v[1] = g[lo] BY <1>2, <1>5
    <3> QED BY <3>1, <3>2, <3>3, <1>2
  <2>3. CASE i > Len(a) + 1
    <3> DEFINE k == i - Len(a) - 1
    <3>1. k \in 1..top - lo /\ k + 1 \in 1..top - lo + 1
      <4>1. top \in Int /\ lo \in Int OBVIOUS
      <4>2. i <= Len(a) + 1 + (top - lo) BY <2>0, <1>3, <1>4
      <4> QED BY <4>1, <4>2, <2>0, <2>3, <1>1
    <3>2. (p \o u)[i] = u[k] BY <2>0, <2>3, <1>1, <1>3, <1>6, SMTT(30)
    <3>3. (a \o v)[i] = v[k + 1] BY <2>0, <2>3, <1>1, <1>7
    <3>4. v[k + 1] = g[lo + k]
      <4>1. v[k + 1] = g[b + (k + 1)] BY <3>1, <1>5
      <4>2. b + (k + 1) = lo + k BY <3>1, <1>2
      <4> QED BY <4>1, <4>2
    <3>5. g[lo + k] = f[lo + k]
      <4>1. lo + k \in lo + 1..Last BY <3>1
      <4> QED BY <4>1, <1>2
    <3> QED BY <3>1, <3>2, <3>3, <3>4, <3>5, <1>4
  <2>4. i <= Len(a) \/ i = Len(a) + 1 \/ i > Len(a) + 1 BY ONLY <2>0, <1>1, SMTT(40)
  <2> QED BY <2>1, <2>2, <2>3, <2>4
<1>10. p \o u = a \o v BY <1>6, <1>7, <1>8, <1>9, SeqEqual
<1> QED BY <1>10 DEF p, u, v

-----------------------------------------------------------------------------
(* The strings of the dictionary.                                          *)

(* The numbers of a state.                                                 *)
LEMMA Numbers ==
  ASSUME LzwInv
  PROVE  /\ clear_code \in Nat /\ end_code \in Nat /\ Last \in Nat
         /\ clear_code >= 2 /\ end_code = clear_code + 1 /\ end_code <= Last
         /\ save_code \in Nat /\ end_code <= save_code /\ save_code <= Last + 1
         /\ prev_code \in 0..Last /\ code \in 0..Last /\ s \in 0..Last /\ c \in 0..Last
         /\ suffixes \in [0..Last -> 0..Last] /\ prefixes \in [0..Last -> 0..Last]
         /\ stack \in [0..Last -> 0..Last]
<1>1. /\ clear_code \in Nat /\ end_code \in Nat /\ Last \in Nat
      /\ clear_code >= 2 /\ end_code = clear_code + 1 /\ end_code <= Last
  BY Constants DEF LzwInv, TypeOK
<1>2. save_code \in end_code..Last + 1 BY DEF LzwInv, TypeOK
<1>3. save_code \in Nat /\ end_code <= save_code /\ save_code <= Last + 1 BY <1>1, <1>2
<1>4. /\ prev_code \in 0..Last /\ code \in 0..Last /\ s \in 0..Last /\ c \in 0..Last
      /\ suffixes \in [0..Last -> 0..Last] /\ prefixes \in [0..Last -> 0..Last]
      /\ stack \in [0..Last -> 0..Last]
  BY DEF LzwInv, TypeOK, Slots
<1> QED BY <1>1, <1>3, <1>4

Text(t) == t \in Seq(Slots) /\ Len(t) \in Nat /\ Len(t) >= 1 /\ t[1] \in Slots /\ t # << >>

LEMMA TextOfOne ==
  ASSUME NEW e \in Slots
  PROVE  Text(<<e>>)
<1>1. <<e>> \in Seq(Slots) /\ Len(<<e>>) = 1 /\ <<e>>[1] = e BY OneElement
<1> QED BY <1>1 DEF Text

LEMMA TextOfAppend ==
  ASSUME NEW t \in Seq(Slots), NEW e \in Slots
  PROVE  Text(Append(t, e)) /\ (t # << >> => Append(t, e)[1] = t[1])
<1> DEFINE u == Append(t, e)
<1>1. Len(t) \in Nat BY LenProperties
<1>2. /\ u \in Seq(Slots) /\ u # << >> /\ Len(u) = Len(t) + 1
      /\ \A i \in 1..Len(t) : u[i] = t[i]
  BY AppendProperties
<1>3. t # << >> => Len(t) \in Nat \ {0} BY EmptySeq
<1> HIDE DEF u
<1>4. 1 \in 1..Len(u) BY <1>1, <1>2
<1>5. u[1] \in Slots BY <1>2, <1>4, ElementOfSeq
<1>6. t # << >> => u[1] = t[1] BY <1>2, <1>3
<1>7. Len(u) \in Nat /\ Len(u) >= 1 BY <1>1, <1>2
<1>8. Text(u) BY <1>2, <1>5, <1>7 DEF Text
<1> QED BY <1>6, <1>8 DEF u

(* A code with a meaning stands for a string, and one of the dictionary    *)
(* for the string of its prefix and one byte more.                         *)
LEMMA EntryIndex ==
  ASSUME LzwInv, EntriesMatch, NEW k \in Defined(save_code), ~(k < clear_code)
  PROVE  k \in end_code + 1..save_code - 1 /\ k - end_code \in 1..Len(entries)
<1>1. /\ clear_code \in Nat /\ end_code \in Nat /\ end_code = clear_code + 1
      /\ save_code \in Nat /\ end_code <= save_code
  BY Numbers
<1>2. k \in end_code + 1..save_code - 1 BY <1>1 DEF Defined
<1>3. save_code # end_code BY <1>1, <1>2
<1>4. Len(entries) = save_code - 1 - end_code BY <1>3 DEF EntriesMatch
<1> QED BY <1>1, <1>2, <1>4

LEMMA StringIsSeq ==
  ASSUME LzwInv, EntriesMatch, NEW k \in Defined(save_code)
  PROVE  String(k) \in Seq(Slots)
<1>1. CASE k < clear_code
  <2>1. /\ clear_code \in Nat /\ end_code \in Nat /\ end_code = clear_code + 1 /\ end_code <= Last
        /\ Last \in Nat /\ save_code \in Nat
    BY Numbers
  <2>2. k \in Slots BY <1>1, <2>1 DEF Defined, Slots
  <2>3. Text(<<k>>) BY <2>2, TextOfOne
  <2> QED BY <1>1, <2>3 DEF String, Text
<1>2. CASE ~(k < clear_code)
  <2>1. k - end_code \in 1..Len(entries) BY <1>2, EntryIndex
  <2>2. entries \in Seq(Seq(Slots)) BY DEF EntriesMatch
  <2>3. entries[k - end_code] \in Seq(Slots) BY <2>1, <2>2, ElementOfSeq
  <2> QED BY <1>2, <2>3 DEF String
<1> QED BY <1>1, <1>2

LEMMA StringIsText ==
  ASSUME LzwInv, EntriesMatch, NEW k \in Defined(save_code)
  PROVE  /\ Text(String(k))
         /\ ~(k < clear_code) => /\ prefixes[k] \in Defined(save_code)
                                 /\ suffixes[k] \in Slots
                                 /\ String(k) = Append(String(prefixes[k]), suffixes[k])
<1>1. CASE k < clear_code
  <2>1. /\ clear_code \in Nat /\ end_code \in Nat /\ end_code = clear_code + 1 /\ end_code <= Last
        /\ Last \in Nat /\ save_code \in Nat
    BY Numbers
  <2>2. k \in Slots BY <1>1, <2>1 DEF Defined, Slots
  <2>3. Text(<<k>>) BY <2>2, TextOfOne
  <2> QED BY <1>1, <2>3 DEF String
<1>2. CASE ~(k < clear_code)
  <2>1. k \in end_code + 1..save_code - 1 /\ k - end_code \in 1..Len(entries) BY <1>2, EntryIndex
  <2>2. /\ end_code \in Nat /\ save_code \in Nat /\ save_code <= Last + 1 /\ Last \in Nat
        /\ suffixes \in [0..Last -> 0..Last] /\ clear_code \in Nat /\ end_code = clear_code + 1
    BY Numbers
  <2>3. k \in 0..Last /\ end_code + (k - end_code) = k BY <2>1, <2>2
  <2>4. entries[k - end_code]
          = Append(String(prefixes[end_code + (k - end_code)]), suffixes[end_code + (k - end_code)])
    BY <2>1 DEF EntriesMatch
  <2>5. entries[k - end_code] = Append(String(prefixes[k]), suffixes[k]) BY <2>3, <2>4
  <2>6. prefixes[k] \in Defined(k) BY <2>1 DEF LzwInv, ChainsDescend, DictionaryDescends
  <2>7. prefixes[k] \in Defined(save_code)
    <3> DEFINE q == prefixes[k]
    <3>1. q \in 0..clear_code - 1 \/ q \in end_code + 1..k - 1 BY <2>6 DEF Defined
    <3>2. end_code \in Nat /\ save_code \in Nat /\ clear_code \in Nat BY <2>2
    <3> HIDE DEF q
    <3>3. q \in 0..clear_code - 1 \/ q \in end_code + 1..save_code - 1
      BY ONLY <2>1, <3>1, <3>2, SMTT(30)
    <3> QED BY <3>3 DEF q, Defined
  <2>8. suffixes[k] \in Slots BY <2>2, <2>3 DEF Slots
  <2>9. String(prefixes[k]) \in Seq(Slots) BY <2>7, StringIsSeq
  <2>10. Text(Append(String(prefixes[k]), suffixes[k])) BY <2>8, <2>9, TextOfAppend
  <2>11. String(k) = entries[k - end_code] BY <1>2 DEF String
  <2> QED BY <2>5, <2>7, <2>8, <2>10, <2>11
<1> QED BY <1>1, <1>2

(* What came before is empty just after a clear code.                      *)
LEMMA PrevStringIsSeq ==
  ASSUME LzwInv, EntriesMatch
  PROVE  /\ PrevString \in Seq(Slots)
         /\ save_code = end_code => PrevString = << >>
         /\ save_code # end_code => /\ Text(PrevString) /\ PrevString = String(prev_code)
                                     /\ prev_code \in Defined(save_code)
<1>1. CASE save_code = end_code BY <1>1, EmptySeq DEF PrevString
<1>2. CASE save_code # end_code
  <2>1. save_code > end_code BY <1>2, Numbers
  <2>2. prev_code \in Defined(save_code)
    BY <2>1 DEF LzwInv, ChainsDescend, DictionaryDescends
  <2>3. Text(String(prev_code)) BY <2>2, StringIsText
  <2> QED BY <1>2, <2>2, <2>3 DEF PrevString, Text
<1> QED BY <1>1, <1>2

(* The string of the code that is being written.                           *)
LEMMA CodeStringIsText ==
  ASSUME LzwInv, EntriesMatch, Busy
  PROVE  /\ Text(CodeString)
         /\ code = save_code =>
              /\ save_code # end_code /\ save_code <= Last
              /\ CodeString = Append(PrevString, PrevString[1]) /\ CodeString[1] = PrevString[1]
         /\ code # save_code => code \in Defined(save_code) /\ CodeString = String(code)
         /\ save_code = end_code => code < clear_code
<1>1. /\ clear_code \in Nat /\ end_code \in Nat /\ end_code = clear_code + 1
      /\ Last \in Nat /\ save_code \in Nat /\ end_code <= save_code /\ code \in 0..Last
  BY Numbers
<1>2. /\ code \in Defined(save_code + 1)
      /\ save_code = end_code => code < clear_code
  <2>1. CASE At = "write"
    <3>1. code < clear_code BY <2>1 DEF LzwInv, ChainsDescend, CodeDescends
    <3> QED BY <3>1, <1>1 DEF Defined
  <2>2. CASE At \in {"chain", "copy"}
    <3>1. save_code > end_code /\ code \in Defined(save_code + 1)
      BY <2>2 DEF LzwInv, ChainsDescend, CodeDescends
    <3> QED BY <3>1, <1>1
  <2> QED BY <2>1, <2>2 DEF Busy
<1>3. CASE code = save_code
  <2>1. save_code # end_code BY <1>1, <1>2, <1>3
  <2>2. Text(PrevString) BY <2>1, PrevStringIsSeq
  <2>3. PrevString \in Seq(Slots) /\ PrevString[1] \in Slots /\ PrevString # << >> BY <2>2 DEF Text
  <2>4. CodeString = Append(PrevString, PrevString[1]) BY <1>3 DEF CodeString
  <2>5. /\ Text(Append(PrevString, PrevString[1]))
        /\ Append(PrevString, PrevString[1])[1] = PrevString[1]
    BY <2>3, TextOfAppend
  <2>6. save_code <= Last BY <1>1, <1>3
  <2> QED BY <1>3, <2>1, <2>4, <2>5, <2>6
<1>4. CASE code # save_code
  <2>1. code \in Defined(save_code) BY <1>1, <1>2, <1>4 DEF Defined
  <2>2. Text(String(code)) BY <2>1, StringIsText
  <2> QED BY <1>2, <1>4, <2>1, <2>2 DEF CodeString
<1> QED BY <1>3, <1>4

-----------------------------------------------------------------------------
(* How the strings change in a step.                                       *)

NewString(k) == IF k < clear_code' THEN <<k>> ELSE entries'[k - end_code']

LEMMA PrimedStrings ==
  /\ PrevString' = IF save_code' = end_code' THEN << >> ELSE NewString(prev_code')
  /\ CodeString' = IF code' = save_code' THEN Append(PrevString', PrevString'[1]) ELSE NewString(code')
BY DEF PrevString, CodeString, String, NewString

LEMMA EntriesMatchAfter ==
  ASSUME entries' \in Seq(Seq(Slots)),
         Len(entries') = IF save_code' = end_code' THEN 0 ELSE save_code' - 1 - end_code',
         \A k \in 1..Len(entries') :
            entries'[k] = Append(NewString(prefixes'[end_code' + k]), suffixes'[end_code' + k])
  PROVE  EntriesMatch'
BY DEF EntriesMatch, String, NewString, Slots, Last

LEMMA ChainMatchesAfter ==
  ASSUME At' = "chain", s' <= Top',
         (IF code' = save_code' THEN PrevString' ELSE NewString(code'))
           = NewString(c') \o Slice(stack', s', Top')
  PROVE  ChainMatches'
BY DEF ChainMatches, String, NewString, Slice

(* The dictionary stays.                                                   *)
LEMMA SameStrings ==
  ASSUME EntriesMatch, UNCHANGED <<literal_width, save_code, prev_code, entries, suffixes, prefixes>>
  PROVE  /\ EntriesMatch' /\ PrevString' = PrevString
         /\ clear_code' = clear_code /\ end_code' = end_code
         /\ \A k : NewString(k) = String(k)
<1>1. clear_code' = clear_code /\ end_code' = end_code BY DEF clear_code, end_code
<1>2. \A k : NewString(k) = String(k) BY <1>1 DEF NewString, String
<1>3. PrevString' = PrevString BY <1>1, <1>2, PrimedStrings DEF PrevString
<1>4. EntriesMatch' BY <1>1, <1>2, EntriesMatchAfter DEF EntriesMatch
<1> QED BY <1>1, <1>2, <1>3, <1>4

(* The dictionary gets another entry.                                      *)
LEMMA KeptStrings ==
  ASSUME LzwInv, EntriesMatch, literal_width' = literal_width, NEW e \in Seq(Slots),
         entries' = Append(entries, e)
  PROVE  /\ clear_code' = clear_code /\ end_code' = end_code
         /\ \A k \in Defined(save_code) : NewString(k) = String(k)
<1>1. clear_code' = clear_code /\ end_code' = end_code BY DEF clear_code, end_code
<1>2. entries \in Seq(Seq(Slots)) BY DEF EntriesMatch
<1>3. \A i \in 1..Len(entries) : entries'[i] = entries[i] BY <1>2, AppendProperties
<1>4. ASSUME NEW k \in Defined(save_code) PROVE NewString(k) = String(k)
  <2>1. CASE k < clear_code BY <2>1, <1>1 DEF NewString, String
  <2>2. CASE ~(k < clear_code)
    <3>1. k - end_code \in 1..Len(entries) BY <2>2, EntryIndex
    <3> QED BY <2>2, <3>1, <1>1, <1>3 DEF NewString, String
  <2> QED BY <2>1, <2>2
<1> QED BY <1>1, <1>4

(* Save: the code's string becomes the previous one, and the entry that    *)
(* the abstract decoder made when it read the code is in the tables.       *)
LEMMA SaveStrings ==
  ASSUME LzwInv, EntriesMatch, Busy, Save(CodeString[1]), UNCHANGED <<literal_width, code>>
  PROVE  EntriesMatch' /\ PrevString' = CodeString /\ entries' = Dict
<1>1. /\ clear_code \in Nat /\ end_code \in Nat /\ Last \in Nat
      /\ end_code = clear_code + 1 /\ end_code <= Last
      /\ save_code \in Nat /\ end_code <= save_code /\ save_code <= Last + 1
      /\ prev_code \in 0..Last /\ code \in 0..Last
      /\ suffixes \in [0..Last -> 0..Last] /\ prefixes \in [0..Last -> 0..Last]
  BY Numbers
<1>2. /\ Text(CodeString)
      /\ code = save_code =>
           /\ save_code # end_code /\ save_code <= Last
           /\ CodeString = Append(PrevString, PrevString[1]) /\ CodeString[1] = PrevString[1]
      /\ code # save_code => code \in Defined(save_code) /\ CodeString = String(code)
      /\ save_code = end_code => code < clear_code
  BY CodeStringIsText
<1>3. clear_code' = clear_code /\ end_code' = end_code /\ prev_code' = code
  BY DEF clear_code, end_code, Save
<1>4. CASE save_code > Last
  <2>1. UNCHANGED <<entries, suffixes, prefixes, save_code>> BY <1>1, <1>4 DEF Save, tables
  <2>2. code # save_code /\ save_code # end_code BY <1>1, <1>4
  <2>3. \A k : NewString(k) = String(k) BY <1>3, <2>1 DEF NewString, String
  <2>4. PrevString' = CodeString BY <1>2, <1>3, <2>1, <2>2, <2>3, PrimedStrings
  <2>5. EntriesMatch' BY <1>3, <2>1, <2>3, EntriesMatchAfter DEF EntriesMatch
  <2>6. Dict = entries BY <1>1, <1>4 DEF Dict
  <2> QED BY <2>1, <2>4, <2>5, <2>6
<1>5. CASE save_code = end_code
  <2>1. entries' = entries /\ save_code' = save_code + 1 BY <1>1, <1>5 DEF Save
  <2>2. Len(entries) = 0 /\ entries \in Seq(Seq(Slots)) BY <1>5 DEF EntriesMatch
  <2>3. EntriesMatch'
    <3>1. save_code' # end_code' /\ save_code' - 1 - end_code' = 0 BY <1>1, <1>3, <1>5, <2>1
    <3> QED BY <2>1, <2>2, <3>1, EntriesMatchAfter
  <2>4. code < clear_code /\ code # save_code /\ save_code' # end_code' BY <1>1, <1>2, <1>3, <1>5, <2>1
  <2>5. CodeString = <<code>> BY <2>4, <1>2 DEF String
  <2>6. PrevString' = <<code>> BY <2>4, <1>3, PrimedStrings DEF NewString
  <2>7. Dict = entries BY <1>1, <1>5 DEF Dict
  <2> QED BY <2>1, <2>3, <2>5, <2>6, <2>7
<1>6. CASE save_code <= Last /\ save_code # end_code
  <2> DEFINE last == CodeString[1]
             e == Append(PrevString, last)
  <2>1. /\ suffixes' = [suffixes EXCEPT ![save_code] = last]
        /\ prefixes' = [prefixes EXCEPT ![save_code] = prev_code]
        /\ entries' = Append(entries, e) /\ save_code' = save_code + 1
    BY <1>6 DEF Save, Prefix
  <2>2. last \in Slots BY <1>2 DEF Text
  <2>3. Text(PrevString) /\ PrevString = String(prev_code) /\ prev_code \in Defined(save_code)
    BY <1>6, PrevStringIsSeq
  <2>4. PrevString \in Seq(Slots) BY <2>3 DEF Text
  <2>5. e \in Seq(Slots) BY <2>2, <2>4, TextOfAppend DEF Text
  <2> HIDE DEF last, e
  <2>6. \A k \in Defined(save_code) : NewString(k) = String(k) BY <2>1, <2>5, KeptStrings
  <2>7. entries \in Seq(Seq(Slots)) /\ Len(entries) = save_code - 1 - end_code
    BY <1>6 DEF EntriesMatch
  <2>8. /\ entries' \in Seq(Seq(Slots)) /\ Len(entries') = Len(entries) + 1
        /\ \A i \in 1..Len(entries) : entries'[i] = entries[i]
        /\ entries'[Len(entries) + 1] = e
    BY <2>1, <2>5, <2>7, AppendProperties
  <2>9. save_code' # end_code' /\ Len(entries') = save_code' - 1 - end_code' /\ Len(entries) \in Nat
        /\ end_code + (Len(entries) + 1) = save_code
    BY <1>1, <1>3, <1>6, <2>1, <2>7, <2>8
  <2>10. ASSUME NEW k \in 1..Len(entries')
         PROVE  entries'[k] = Append(NewString(prefixes'[end_code' + k]), suffixes'[end_code' + k])
    <3>1. CASE k = Len(entries) + 1
      <4>1. end_code' + k = save_code /\ save_code \in 0..Last BY <3>1, <2>9, <1>1, <1>3, <1>6
      <4>2. prefixes'[save_code] = prev_code /\ suffixes'[save_code] = last BY <2>1, <4>1, <1>1
      <4>3. NewString(prev_code) = PrevString BY <2>3, <2>6
      <4> QED BY <3>1, <2>8, <4>1, <4>2, <4>3 DEF e
    <3>2. CASE k # Len(entries) + 1
      <4>1. k \in 1..Len(entries) BY <3>2, <2>8, <2>9
      <4>2. end_code' + k = end_code + k /\ end_code + k \in end_code + 1..save_code - 1
            /\ end_code + k \in 0..Last /\ end_code + k # save_code
        BY <4>1, <2>7, <1>1, <1>3, <1>6
      <4>3. prefixes'[end_code + k] = prefixes[end_code + k] /\ suffixes'[end_code + k] = suffixes[end_code + k]
        BY <2>1, <4>2, <1>1
      <4>4. end_code + k \in Defined(save_code) /\ ~(end_code + k < clear_code)
        BY <4>1, <4>2, <1>1 DEF Defined
      <4>5. prefixes[end_code + k] \in Defined(save_code) BY <4>4, StringIsText
      <4>6. NewString(prefixes[end_code + k]) = String(prefixes[end_code + k]) BY <4>5, <2>6
      <4>7. entries[k] = Append(String(prefixes[end_code + k]), suffixes[end_code + k])
        BY <4>1 DEF EntriesMatch
      <4>8. entries'[k] = entries[k] BY <4>1, <2>8
      <4> QED BY <4>2, <4>3, <4>6, <4>7, <4>8
    <3> QED BY <3>1, <3>2
  <2>11. EntriesMatch' BY <2>8, <2>9, <2>10, EntriesMatchAfter
  <2>12. PrevString' = CodeString
    <3>1. PrevString' = NewString(code) BY <1>3, <2>9, PrimedStrings
    <3>2. CASE code = save_code
      <4>1. CodeString = e BY <1>2, <3>2 DEF e, last
      <4>2. ~(code < clear_code') /\ code - end_code' = Len(entries) + 1 BY <3>2, <1>1, <1>3, <2>9
      <4>3. NewString(code) = entries'[Len(entries) + 1] BY <4>2 DEF NewString
      <4> QED BY <3>1, <4>1, <4>3, <2>8
    <3>3. CASE code # save_code BY <3>1, <3>3, <1>2, <2>6
    <3> QED BY <3>2, <3>3
  <2>13. Dict = Append(entries, e)
    <3>1. save_code \in end_code + 1..Last BY <1>1, <1>6
    <3> QED BY <3>1 DEF Dict, e, last
  <2> QED BY <2>1, <2>11, <2>12, <2>13
<1>7. save_code > Last \/ save_code = end_code \/ (save_code <= Last /\ save_code # end_code) BY <1>1
<1> QED BY <1>4, <1>5, <1>6, <1>7

-----------------------------------------------------------------------------
(* The abstract state before and after a step.                             *)

LEMMA AtRead ==
  ASSUME StringsInv, pc = "read"
  PROVE  Dict = entries /\ Previous = PrevString /\ Pending = << >> /\ Verdict = "running"
<1>1. At = "read" BY DEF At
<1>2. ~Busy BY <1>1 DEF Busy
<1>3. status \notin {"ok", "out_of_range", "cyclical"} BY DEF StringsInv
<1>4. Pending = << >> BY <1>1 DEF Pending
<1> QED BY <1>2, <1>3, <1>4 DEF Dict, Previous, Verdict

LEMMA IdleAfter ==
  ASSUME At' \in {"read", "returned"}
  PROVE  Dict' = entries' /\ Previous' = PrevString' /\ Pending' = << >>
<1>1. ~Busy' BY DEF Busy
<1>2. Pending' = << >> BY DEF Pending
<1> QED BY <1>1, <1>2 DEF Dict, Previous

LEMMA Running ==
  ASSUME StringsInv, pc # "returned"
  PROVE  Verdict = "running" /\ status \notin {"ok", "out_of_range", "cyclical"}
BY DEF StringsInv, Verdict

LEMMA RunningAfter ==
  ASSUME status' \notin {"ok", "out_of_range", "cyclical"}
  PROVE  Verdict' = "running" /\ (status' \in {"ok", "out_of_range", "cyclical"} => pc' = "returned")
BY DEF Verdict

LEMMA AbstractCodes ==
  /\ Abstract!ClearCode = clear_code /\ Abstract!EndCode = end_code /\ Abstract!LastCode = Last
BY DEF Abstract!ClearCode, Abstract!EndCode, Abstract!LastCode, clear_code, end_code, Last, Pow2

(* A code is decoded in one step of the abstract decoder, which outputs it *)
(* later.                                                                  *)
LEMMA DecodeRefines ==
  ASSUME LzwInv, StringsInv, NEW x \in Slots, pc = "read",
         UNCHANGED <<literal_width, entries, suffixes, prefixes, save_code, prev_code, status, text>>,
         At' \in {"write", "chain"}, NEW out, Text(out), CodeString' = out,
         out \in Abstract!Outputs(x)
  PROVE  Abstract!Decode(x)
<1>1. Dict = entries /\ Previous = PrevString /\ Pending = << >> /\ Verdict = "running" BY AtRead
<1>2. EntriesMatch /\ EntriesMatch' /\ PrevString' = PrevString /\ clear_code' = clear_code /\ end_code' = end_code
  BY SameStrings DEF StringsInv
<1>3. /\ end_code \in Nat /\ Last \in Nat /\ save_code \in Nat
      /\ end_code <= save_code /\ save_code <= Last + 1 /\ end_code <= Last
  BY Numbers
<1>4. Busy' BY DEF Busy
<1>5. Previous' = out /\ Pending' = out BY <1>4 DEF Previous, Pending
<1>6. /\ PrevString \in Seq(Slots)
      /\ save_code = end_code => PrevString = << >>
      /\ save_code # end_code => Text(PrevString)
  BY <1>2, PrevStringIsSeq
<1>7. PrevString # << >> <=> save_code # end_code BY <1>6 DEF Text
<1>8. Append(PrevString, out[1]) = PrevString \o <<out[1]>>
  <2>1. out[1] \in Slots BY DEF Text
  <2> QED BY <2>1, <1>6, AppendIsConcat
<1>9. Dict' = IF save_code \in end_code + 1..Last THEN Append(entries, Append(PrevString, out[1])) ELSE entries
  BY <1>2, <1>4 DEF Dict
<1>10. save_code \in end_code + 1..Last
         <=> PrevString # << >> /\ Abstract!EndCode + Len(entries) < Abstract!LastCode
  <2>1. CASE save_code = end_code BY <2>1, <1>3, <1>7
  <2>2. CASE save_code # end_code
    <3>1. Len(entries) = save_code - 1 - end_code BY <2>2, <1>2 DEF EntriesMatch
    <3>2. end_code + Len(entries) < Last <=> save_code <= Last BY <3>1, <1>3
    <3>3. save_code \in end_code + 1..Last <=> save_code <= Last BY <2>2, <1>3
    <3> QED BY <2>2, <1>7, <3>2, <3>3, AbstractCodes
  <2> QED BY <2>1, <2>2
<1>11. Dict' = IF Previous # << >> /\ Abstract!EndCode + Len(Dict) < Abstract!LastCode
               THEN Append(Dict, Previous \o <<out[1]>>) ELSE Dict
  BY <1>1, <1>8, <1>9, <1>10
<1>12. Verdict' = "running" BY Running, RunningAfter
<1>13. /\ Verdict = "running" /\ Pending = << >> /\ UNCHANGED <<literal_width, text, Verdict>>
  BY <1>1, <1>12
<1> QED BY <1>5, <1>11, <1>13 DEF Abstract!Decode

(* Nothing of the abstract state changes in these steps.                   *)
LEMMA StutterRefines ==
  ASSUME LzwInv, StringsInv, At' = At,
         UNCHANGED <<literal_width, save_code, prev_code, code, s, c, entries, suffixes, prefixes, stack, text>>,
         status' \in {"ok", "out_of_range", "cyclical"} => pc' = "returned", Verdict' = Verdict
  PROVE  StringsInv' /\ UNCHANGED Abstract!vars
<1>1. /\ EntriesMatch' /\ PrevString' = PrevString
      /\ clear_code' = clear_code /\ end_code' = end_code
      /\ \A k : NewString(k) = String(k)
  BY SameStrings DEF StringsInv
<1>2. CodeString' = CodeString BY <1>1, PrimedStrings DEF CodeString
<1>3. OnStack' = OnStack BY DEF OnStack
<1>4. Dict' = Dict /\ Previous' = Previous /\ Pending' = Pending
  BY <1>1, <1>2, <1>3 DEF Dict, Busy, Previous, Pending
<1>5. ChainMatches'
  <2>1. ChainMatches BY DEF StringsInv
  <2>2. String(c)' = String(c) /\ String(code)' = String(code) BY <1>1 DEF String
  <2> QED BY <1>1, <1>2, <2>1, <2>2 DEF ChainMatches, Top
<1>6. text' \in Seq(Slots) BY DEF StringsInv
<1> QED BY <1>1, <1>4, <1>5, <1>6 DEF StringsInv, Abstract!vars

LEMMA CallRefines ==
  ASSUME LzwInv, StringsInv, NEW n, NEW m, Call(n, m)
  PROVE  StringsInv' /\ UNCHANGED Abstract!vars
<1>1. /\ pc = "caller" /\ pc' = resume
      /\ UNCHANGED <<status, literal_width, save_code, prev_code, code, s, c, entries, suffixes, prefixes,
                      stack, text>>
  BY DEF Call, tables
<1>2. At' = At BY <1>1 DEF At, LzwInv, TypeOK
<1>3. Verdict' = Verdict /\ status' \notin {"ok", "out_of_range", "cyclical"} BY <1>1, Running DEF Verdict
<1> QED BY <1>1, <1>2, <1>3, StutterRefines

LEMMA ReadU8Refines ==
  ASSUME LzwInv, StringsInv, ReadU8
  PROVE  StringsInv' /\ UNCHANGED Abstract!vars
<1>1. /\ pc = "read" /\ At' = "read"
      /\ UNCHANGED <<literal_width, save_code, prev_code, entries, suffixes, prefixes, text>>
      /\ status' \in {status, "short_read"}
  BY DEF ReadU8, tables, At, Suspend, GoTo
<1>2. /\ EntriesMatch' /\ PrevString' = PrevString BY <1>1, SameStrings DEF StringsInv
<1>3. Dict = entries /\ Previous = PrevString /\ Pending = << >> /\ Verdict = "running" BY <1>1, AtRead
<1>4. Dict' = entries' /\ Previous' = PrevString' /\ Pending' = << >> BY <1>1, IdleAfter
<1>5. status' \notin {"ok", "out_of_range", "cyclical"} BY <1>1, Running
<1>6. Verdict' = "running" BY <1>5, RunningAfter
<1>7. ChainMatches' BY <1>1 DEF ChainMatches
<1>8. text' \in Seq(Slots) BY <1>1 DEF StringsInv
<1> QED BY <1>1, <1>2, <1>3, <1>4, <1>5, <1>6, <1>7, <1>8 DEF StringsInv, Abstract!vars

(* A code is read.                                                         *)
LEMMA LiteralRefines ==
  ASSUME LzwInv, StringsInv, NEW x \in Slots, Literal(x)
  PROVE  StringsInv' /\ Abstract!Decode(x)
<1>1. /\ pc = "read" /\ pc' = "write" /\ At' = "write" /\ code' = x /\ x < clear_code
      /\ UNCHANGED <<status, literal_width, entries, suffixes, prefixes, save_code, prev_code, text>>
  BY DEF Literal, ReadCode, GoTo, At
<1>2. EntriesMatch' /\ clear_code' = clear_code BY <1>1, SameStrings DEF StringsInv
<1>3. save_code \in Nat /\ end_code <= save_code /\ clear_code \in Nat /\ end_code = clear_code + 1
  BY Numbers
<1>4. x # save_code BY <1>1, <1>3 DEF Slots
<1>5. CodeString' = <<x>> BY <1>1, <1>2, <1>4, PrimedStrings DEF NewString
<1>6. Text(<<x>>) BY TextOfOne
<1>7. <<x>> \in Abstract!Outputs(x) BY <1>1, AbstractCodes DEF Abstract!Outputs
<1>8. Abstract!Decode(x) BY <1>1, <1>5, <1>6, <1>7, DecodeRefines
<1>9. ChainMatches' BY <1>1 DEF ChainMatches
<1>10. status' \notin {"ok", "out_of_range", "cyclical"} BY <1>1, Running
<1>11. text' \in Seq(Slots) BY <1>1 DEF StringsInv
<1> QED BY <1>2, <1>8, <1>9, <1>10, <1>11 DEF StringsInv

LEMMA BackReferenceRefines ==
  ASSUME LzwInv, StringsInv, NEW x \in Slots, BackReference(x)
  PROVE  StringsInv' /\ Abstract!Decode(x)
<1>1. /\ pc = "read" /\ pc' = "chain" /\ At' = "chain" /\ code' = x /\ x > end_code /\ x <= save_code
      /\ s' = (IF x = save_code THEN Last - 1 ELSE Last)
      /\ c' = (IF x = save_code THEN prev_code ELSE x)
      /\ UNCHANGED <<status, literal_width, entries, suffixes, prefixes, stack, save_code, prev_code, text>>
  BY DEF BackReference, ReadCode, GoTo, At
<1>2. /\ EntriesMatch /\ EntriesMatch' /\ PrevString' = PrevString
      /\ clear_code' = clear_code /\ end_code' = end_code
      /\ \A k : NewString(k) = String(k)
  BY <1>1, SameStrings DEF StringsInv
<1>3. /\ save_code \in Nat /\ end_code \in Nat /\ clear_code \in Nat /\ end_code = clear_code + 1
      /\ save_code <= Last + 1 /\ end_code <= Last /\ Last \in Nat
  BY Numbers
<1>4. x \in Nat /\ x <= Last BY <1>3 DEF Slots
<1>5. save_code # end_code /\ ~(x < clear_code) BY <1>1, <1>3, <1>4
<1>6. Text(PrevString) /\ PrevString = String(prev_code) /\ prev_code \in Defined(save_code)
  BY <1>2, <1>5, PrevStringIsSeq
<1>7. Len(entries) = save_code - 1 - end_code BY <1>2, <1>5 DEF EntriesMatch
<1>8. Dict = entries /\ Previous = PrevString BY <1>1, AtRead
<1>9. s' = Top' /\ Top' \in Int BY <1>1, <1>3 DEF Top
<1>10. Slice(stack', s', Top') = << >> BY <1>9, EmptySlice
<1>11. s' <= Top' BY <1>9
<1>12. ASSUME x = save_code PROVE ChainMatches' /\ Abstract!Decode(x)
  <2>1. CodeString' = Append(PrevString, PrevString[1]) BY <1>1, <1>2, <1>12, PrimedStrings
  <2>2. PrevString \in Seq(Slots) /\ PrevString[1] \in Slots /\ PrevString # << >> BY <1>6 DEF Text
  <2>3. Text(CodeString') BY <2>1, <2>2, TextOfAppend
  <2>4. CodeString' = Previous \o <<Previous[1]>> BY <1>8, <2>1, <2>2, AppendIsConcat
  <2>5. x = Abstract!EndCode + Len(Dict) + 1 BY <1>3, <1>7, <1>8, <1>12, AbstractCodes
  <2>6. CodeString' \in Abstract!Outputs(x)
    BY <1>5, <1>8, <2>2, <2>4, <2>5, AbstractCodes DEF Abstract!Outputs
  <2>7. Abstract!Decode(x) BY <1>1, <2>3, <2>6, DecodeRefines
  <2>8. ChainMatches'
    <3>1. NewString(c') = PrevString /\ code' = save_code' BY <1>1, <1>2, <1>6, <1>12
    <3>2. PrevString = PrevString \o << >> BY <2>2, ConcatEmptySeq
    <3> QED BY <1>1, <1>2, <1>10, <1>11, <3>1, <3>2, ChainMatchesAfter
  <2> QED BY <2>7, <2>8
<1>13. ASSUME x # save_code PROVE ChainMatches' /\ Abstract!Decode(x)
  <2>1. CodeString' = String(x) BY <1>1, <1>2, <1>13, PrimedStrings
  <2>2. x \in Defined(save_code) BY <1>1, <1>3, <1>4, <1>13 DEF Defined
  <2>3. Text(String(x)) BY <1>2, <2>2, StringIsText
  <2>4. x - end_code \in 1..Len(entries) /\ x = end_code + (x - end_code) BY <1>1, <1>3, <1>4, <1>7, <1>13
  <2>5. String(x) = Dict[x - end_code] BY <1>5, <1>8 DEF String
  <2>6. String(x) \in Abstract!Outputs(x)
    BY <1>5, <1>8, <2>4, <2>5, AbstractCodes DEF Abstract!Outputs
  <2>7. Abstract!Decode(x) BY <1>1, <2>1, <2>3, <2>6, DecodeRefines
  <2>8. ChainMatches'
    <3>1. NewString(c') = String(x) /\ NewString(code') = String(x) /\ code' # save_code'
      BY <1>1, <1>2, <1>13
    <3>2. String(x) = String(x) \o << >> BY <2>3, ConcatEmptySeq DEF Text
    <3> QED BY <1>1, <1>10, <1>11, <3>1, <3>2, ChainMatchesAfter
  <2> QED BY <2>7, <2>8
<1>14. status' \notin {"ok", "out_of_range", "cyclical"} BY <1>1, Running
<1>15. text' \in Seq(Slots) BY <1>1 DEF StringsInv
<1> QED BY <1>2, <1>12, <1>13, <1>14, <1>15 DEF StringsInv

LEMMA ClearRefines ==
  ASSUME LzwInv, StringsInv, Clear
  PROVE  StringsInv' /\ Abstract!Clear
<1>1. /\ pc = "read" /\ pc' = "read" /\ At' = "read" /\ save_code' = end_code /\ entries' = << >>
      /\ UNCHANGED <<status, literal_width, text>>
  BY DEF Clear, ReadCode, GoTo, At
<1>2. clear_code' = clear_code /\ end_code' = end_code BY <1>1 DEF clear_code, end_code
<1>3. PrevString' = << >> BY <1>1, <1>2, PrimedStrings
<1>4. EntriesMatch'
  <2>1. entries' \in Seq(Seq(Slots)) /\ Len(entries') = 0 BY <1>1, EmptySeq
  <2> QED BY <1>1, <1>2, <2>1, EntriesMatchAfter
<1>5. Pending = << >> /\ Verdict = "running" BY <1>1, AtRead
<1>6. Dict' = << >> /\ Previous' = << >> /\ Pending' = << >> BY <1>1, <1>3, IdleAfter
<1>7. status' \notin {"ok", "out_of_range", "cyclical"} BY <1>1, Running
<1>8. Verdict' = "running" BY <1>7, RunningAfter
<1>9. ChainMatches' BY <1>1 DEF ChainMatches
<1>10. text' \in Seq(Slots) BY <1>1 DEF StringsInv
<1> QED BY <1>1, <1>4, <1>5, <1>6, <1>7, <1>8, <1>9, <1>10 DEF StringsInv, Abstract!Clear

LEMMA StopRefines ==
  ASSUME LzwInv, StringsInv, NEW x \in Slots, ReadCode(x), NEW what \in {"ok", "out_of_range"},
         Return(what), UNCHANGED <<entries, save_code, prev_code>>,
         what = "ok" => x = end_code, what = "out_of_range" => x > end_code /\ x > save_code
  PROVE  StringsInv' /\ Abstract!Stop(x)
<1>1. /\ pc = "read" /\ pc' = "returned" /\ At' = "returned" /\ status' = what
      /\ UNCHANGED <<literal_width, entries, suffixes, prefixes, save_code, prev_code, text>>
  BY DEF ReadCode, Return, At
<1>2. EntriesMatch /\ EntriesMatch' /\ PrevString' = PrevString BY <1>1, SameStrings DEF StringsInv
<1>3. Dict = entries /\ Previous = PrevString /\ Pending = << >> /\ Verdict = "running" BY <1>1, AtRead
<1>4. Dict' = entries' /\ Previous' = PrevString' /\ Pending' = << >> BY <1>1, IdleAfter
<1>5. Verdict' = what BY <1>1 DEF Verdict
<1>6. what = "out_of_range" => Abstract!Outputs(x) = {}
  <2> SUFFICES ASSUME what = "out_of_range" PROVE Abstract!Outputs(x) = {} OBVIOUS
  <2>1. /\ save_code \in Nat /\ end_code \in Nat /\ clear_code \in Nat /\ end_code = clear_code + 1
        /\ end_code <= save_code /\ Last \in Nat
    BY Numbers
  <2>2. x \in Nat /\ x > save_code /\ ~(x < clear_code) BY <2>1 DEF Slots
  <2>3. Len(entries) \in Nat /\ (save_code # end_code => Len(entries) = save_code - 1 - end_code)
        /\ (save_code = end_code => Len(entries) = 0)
    BY <1>2, <2>1 DEF EntriesMatch
  <2>4. \A j \in 1..Len(entries) : x # end_code + j BY <2>1, <2>2, <2>3
  <2>5. save_code = end_code => PrevString = << >> BY <1>2, PrevStringIsSeq
  <2>6. save_code # end_code => x # end_code + Len(entries) + 1 BY <2>1, <2>2, <2>3
  <2> QED BY <1>3, <2>2, <2>4, <2>5, <2>6, AbstractCodes DEF Abstract!Outputs
<1>7. ChainMatches' BY <1>1 DEF ChainMatches
<1>8. text' \in Seq(Slots) BY <1>1 DEF StringsInv
<1>9. StringsInv' BY <1>1, <1>2, <1>7, <1>8 DEF StringsInv
<1>10. \/ x = Abstract!EndCode /\ Verdict' = "ok"
       \/ x > Abstract!EndCode /\ Abstract!Outputs(x) = {} /\ Verdict' = "out_of_range"
  BY <1>5, <1>6, AbstractCodes
<1> QED BY <1>1, <1>2, <1>3, <1>4, <1>9, <1>10 DEF Abstract!Stop

-----------------------------------------------------------------------------
(* A code is followed along its prefixes and written.                      *)

LEMMA WriteU8Refines ==
  ASSUME LzwInv, StringsInv, WriteU8
  PROVE  StringsInv' /\ (UNCHANGED Abstract!vars \/ \E n \in 1..Len(Pending) : Abstract!Deliver(n))
<1>1. pc = "write" /\ At = "write" /\ Busy /\ UNCHANGED <<literal_width, code, s, c, stack>>
  BY DEF WriteU8, At, Busy
<1>2. Verdict = "running" /\ status \notin {"ok", "out_of_range", "cyclical"} BY <1>1, Running
<1>3. CASE space = 0
  <2>1. /\ At' = At /\ status' = "short_write"
        /\ UNCHANGED <<save_code, prev_code, entries, suffixes, prefixes, text>>
    BY <1>1, <1>3 DEF WriteU8, Suspend, At, tables
  <2>2. Verdict' = "running" BY <2>1, RunningAfter
  <2> QED BY <1>1, <1>2, <2>1, <2>2, StutterRefines
<1>4. CASE space # 0
  <2>1. At' = "read" /\ status' = status /\ Save(code) /\ text' = Append(text, code)
    BY <1>4 DEF WriteU8, GoTo, At
  <2>2. /\ clear_code \in Nat /\ end_code = clear_code + 1 /\ end_code <= save_code /\ save_code \in Nat
        /\ code \in 0..Last /\ Last \in Nat
    BY Numbers
  <2>3. code < clear_code BY <1>1 DEF LzwInv, ChainsDescend, CodeDescends
  <2>4. code # save_code BY <2>2, <2>3
  <2>5. CodeString = <<code>> BY <2>3, <2>4 DEF CodeString, String
  <2>6. code \in Slots BY <2>2 DEF Slots
  <2>7. <<code>> \in Seq(Slots) /\ Len(<<code>>) = 1 /\ <<code>>[1] = code BY <2>6, OneElement
  <2>8. EntriesMatch' /\ PrevString' = CodeString /\ entries' = Dict
    BY <1>1, <2>1, <2>5, <2>7, SaveStrings DEF StringsInv
  <2>9. Pending = <<code>> /\ Previous = CodeString BY <1>1, <2>5 DEF Pending, Previous
  <2>10. Dict' = entries' /\ Previous' = PrevString' /\ Pending' = << >> BY <2>1, IdleAfter
  <2>11. status' \notin {"ok", "out_of_range", "cyclical"} BY <1>2, <2>1
  <2>12. Verdict' = "running" BY <2>11, RunningAfter
  <2>13. text \in Seq(Slots) BY DEF StringsInv
  <2>14. text' \in Seq(Slots) /\ text' = text \o <<code>> BY <2>1, <2>6, <2>13, AppendIsConcat, AppendProperties
  <2>15. SubSeq(<<code>>, 1, 1) = <<code>> /\ SubSeq(<<code>>, 2, 1) = << >>
    <3>1. SubSeq(<<code>>, 1, Len(<<code>>)) = <<code>> BY <2>7, SubSeqFull
    <3>2. 2 \in Int /\ 1 \in Int /\ 1 < 2 OBVIOUS
    <3>3. SubSeq(<<code>>, 2, 1) = << >> BY <3>2, SubSeqEmpty
    <3> QED BY <2>7, <3>1, <3>3
  <2>16. Abstract!Deliver(1)
    BY <1>1, <1>2, <2>7, <2>8, <2>9, <2>10, <2>12, <2>14, <2>15 DEF Abstract!Deliver
  <2>17. ChainMatches' BY <2>1 DEF ChainMatches
  <2>18. StringsInv' BY <2>8, <2>11, <2>14, <2>17 DEF StringsInv
  <2>19. 1 \in 1..Len(Pending) BY <2>7, <2>9
  <2> QED BY <2>16, <2>18, <2>19
<1> QED BY <1>3, <1>4

LEMMA ChainRefines ==
  ASSUME LzwInv, StringsInv, Chain
  PROVE  StringsInv' /\ UNCHANGED Abstract!vars
<1>1. /\ pc = "chain" /\ At = "chain" /\ c >= clear_code
      /\ stack' = [stack EXCEPT ![s] = suffixes[c]]
      /\ UNCHANGED <<literal_width, save_code, prev_code, code, entries, suffixes, prefixes, text>>
  BY DEF Chain, At, tables
<1>2. /\ clear_code \in Nat /\ end_code = clear_code + 1 /\ clear_code >= 2 /\ Last \in Nat
      /\ end_code <= Last /\ s \in 0..Last /\ c \in 0..Last /\ stack \in [0..Last -> 0..Last]
      /\ save_code \in Nat
  BY Numbers
<1>3. c \in Defined(save_code) /\ c <= s BY <1>1 DEF LzwInv, ChainsDescend, CodeDescends
<1>4. s # 0 BY <1>1, <1>2, <1>3
<1>5. s' = s - 1 /\ c' = prefixes[c] /\ At' = "chain" /\ status' = status BY <1>4 DEF Chain, GoTo, At
<1>6. /\ EntriesMatch' /\ PrevString' = PrevString
      /\ clear_code' = clear_code /\ end_code' = end_code
      /\ \A k : NewString(k) = String(k)
  BY <1>1, SameStrings DEF StringsInv
<1>7. CodeString' = CodeString BY <1>1, <1>6, PrimedStrings DEF CodeString
<1>8. Dict' = Dict /\ Previous' = Previous /\ Pending' = Pending
  BY <1>1, <1>5, <1>6, <1>7 DEF Dict, Busy, Previous, Pending
<1>9. status' \notin {"ok", "out_of_range", "cyclical"} BY <1>1, <1>5, Running
<1>10. Verdict' = Verdict BY <1>5 DEF Verdict
<1>11. /\ s <= Top
       /\ (IF code = save_code THEN PrevString ELSE String(code)) = String(c) \o Slice(stack, s, Top)
  BY <1>1 DEF StringsInv, ChainMatches, Slice
<1>12. Top \in 0..Last /\ Top' = Top BY <1>1, <1>2 DEF Top
<1>13. ~(c < clear_code) BY <1>1, <1>2
<1>14. /\ prefixes[c] \in Defined(save_code) /\ suffixes[c] \in Slots
       /\ String(c) = Append(String(prefixes[c]), suffixes[c])
  BY <1>3, <1>13, StringIsText DEF StringsInv
<1>15. String(prefixes[c]) \in Seq(Slots) BY <1>14, StringIsSeq DEF StringsInv
<1>16. Append(String(prefixes[c]), suffixes[c]) \o Slice(stack, s, Top) = String(prefixes[c]) \o Slice(stack', s', Top)
  <2> DEFINE a == String(prefixes[c])
             e == suffixes[c]
  <2>1. a \in Seq(Slots) /\ e \in Slots BY <1>14, <1>15
  <2>2. stack \in [0..Last -> Slots] /\ stack' = [stack EXCEPT ![s] = e] BY <1>1, <1>2 DEF Slots
  <2> HIDE DEF a, e
  <2>3. stack' \in [0..Last -> Slots] BY <2>1, <2>2
  <2>4. s \in 1..Top /\ s' \in 0..Top BY <1>2, <1>4, <1>5, <1>11, <1>12
  <2>5. Pushed(stack, stack', s', s, e)
    <3>1. stack'[s] = e BY <2>2, <1>2
    <3>2. \A k \in s + 1..Last : stack'[k] = stack[k] BY <2>2, <1>2
    <3> QED BY <1>5, <3>1, <3>2 DEF Pushed
  <2>6. Last \in Nat /\ Top \in 0..Last /\ stack \in [0..Last -> Slots] BY <1>2, <1>12, <2>2
  <2>7. Append(a, e) \o Slice(stack, s, Top) = a \o Slice(stack', s', Top)
    BY <2>1, <2>3, <2>4, <2>5, <2>6, Push, ZenonT(60)
  <2> QED BY <2>7 DEF a, e
<1>17. ChainMatches'
  <2>1. s' <= Top' BY <1>2, <1>5, <1>11, <1>12
  <2>2. NewString(c') = String(prefixes[c]) /\ NewString(code') = String(code)
        /\ (code' = save_code' <=> code = save_code)
    BY <1>1, <1>5, <1>6
  <2> QED BY <1>5, <1>6, <1>11, <1>12, <1>14, <1>16, <2>1, <2>2, ChainMatchesAfter
<1>18. text' \in Seq(Slots) BY <1>1 DEF StringsInv
<1> QED BY <1>1, <1>6, <1>8, <1>9, <1>10, <1>17, <1>18 DEF StringsInv, Abstract!vars

(* What a stack f holds from slot lo on.                                   *)
Spill(f, lo) == [k \in 1..Last + 1 - lo |-> f[lo + k - 1]]

LEMMA SpillIsSeq ==
  ASSUME Last \in Nat, NEW f \in [0..Last -> Slots], NEW lo \in 0..Last
  PROVE  /\ Spill(f, lo) \in Seq(Slots) /\ Len(Spill(f, lo)) = Last + 1 - lo
         /\ \A k \in 1..Last + 1 - lo : Spill(f, lo)[k] = f[lo + k - 1]
<1> DEFINE n == Last + 1 - lo
<1>1. n \in Nat /\ \A k \in 1..n : lo + k - 1 \in 0..Last OBVIOUS
<1>2. Spill(f, lo) \in [1..n -> Slots] BY <1>1 DEF Spill
<1>3. \A k \in 1..n : Spill(f, lo)[k] = f[lo + k - 1] BY <1>1 DEF Spill
<1> HIDE DEF n
<1>4. Spill(f, lo) \in Seq(Slots) /\ Len(Spill(f, lo)) = n BY <1>1, <1>2, FunctionIsSeq
<1> QED BY <1>3, <1>4 DEF n

(* A first byte and a slice of the stack.                                  *)
IsFirstAndSlice(q, e, f, lo, top) ==
  /\ q \in Seq(Slots) /\ Len(q) = top - lo + 1 /\ q[1] = e
  /\ \A k \in 2..top - lo + 1 : q[k] = f[lo + k - 1]

LEMMA FirstAndSlice ==
  ASSUME Last \in Nat, NEW f \in [0..Last -> Slots], NEW e \in Slots, NEW top \in 0..Last, NEW lo \in 0..top
  PROVE  IsFirstAndSlice(<<e>> \o Slice(f, lo, top), e, f, lo, top)
<1> DEFINE q == <<e>>
           u == Slice(f, lo, top)
<1>1. q \in Seq(Slots) /\ Len(q) = 1 /\ q[1] = e BY OneElement
<1>2. lo \in -1..top OBVIOUS
<1>3. u \in Seq(Slots) /\ Len(u) = top - lo /\ \A k \in 1..top - lo : u[k] = f[lo + k]
  <2>1. IsSlice(Slice(f, lo, top), Slots, f, lo, top) BY <1>2, SliceIsSeq, Zenon
  <2> QED BY <2>1, Zenon DEF IsSlice
<1> HIDE DEF q, u
<1>4. /\ q \o u \in Seq(Slots) /\ Len(q \o u) = Len(q) + Len(u)
      /\ \A i \in 1..Len(q) + Len(u) : (q \o u)[i] = IF i <= Len(q) THEN q[i] ELSE u[i - Len(q)]
  <2>1. q \in Seq(Slots) /\ u \in Seq(Slots) BY <1>1, <1>3
  <2> QED BY <2>1, ConcatProperties
<1>5. Len(q \o u) = top - lo + 1 BY <1>1, <1>3, <1>4
<1>6. (q \o u)[1] = e BY <1>1, <1>3, <1>4
<1>7. ASSUME NEW k \in 2..top - lo + 1 PROVE (q \o u)[k] = f[lo + k - 1]
  <2>1. k \in 1..Len(q) + Len(u) /\ ~(k <= Len(q)) /\ k - Len(q) = k - 1 /\ k - 1 \in 1..top - lo
    BY <1>1, <1>3
  <2>2. (q \o u)[k] = u[k - 1] BY <2>1, <1>4
  <2>3. u[k - 1] = f[lo + (k - 1)] BY <2>1, <1>3
  <2>4. lo + (k - 1) = lo + k - 1 OBVIOUS
  <2> QED BY <2>2, <2>3, <2>4
<1>8. IsFirstAndSlice(q \o u, e, f, lo, top) BY <1>4, <1>5, <1>6, <1>7 DEF IsFirstAndSlice
<1> QED BY <1>8 DEF q, u

(* The chain has ended: the whole string is on the stack.                  *)
LEMMA ChainEndRefines ==
  ASSUME LzwInv, StringsInv, ChainEnd
  PROVE  StringsInv' /\ UNCHANGED Abstract!vars
<1>1. /\ pc = "chain" /\ At = "chain" /\ At' = "copy" /\ c < clear_code
      /\ stack' = [k \in Slots |-> IF k = s \/ (k = Last /\ code = save_code) THEN c ELSE stack[k]]
      /\ UNCHANGED <<status, literal_width, save_code, prev_code, code, s, c, entries, suffixes, prefixes, text>>
  BY DEF ChainEnd, At, tables, GoTo
<1>2. Last \in Nat /\ s \in 0..Last /\ c \in 0..Last /\ stack \in [0..Last -> 0..Last] /\ Last >= 1
  BY Numbers
<1>3. /\ EntriesMatch' /\ PrevString' = PrevString
      /\ clear_code' = clear_code /\ end_code' = end_code
      /\ \A k : NewString(k) = String(k)
  BY <1>1, SameStrings DEF StringsInv
<1>4. CodeString' = CodeString BY <1>1, <1>3, PrimedStrings DEF CodeString
<1> DEFINE base == IF code = save_code THEN PrevString ELSE String(code)
<1>5. s <= Top /\ base = <<c>> \o Slice(stack, s, Top)
  BY <1>1 DEF StringsInv, ChainMatches, Slice, String
<1>6. Top \in 0..Last /\ s \in 0..Top BY <1>2, <1>5 DEF Top
<1>7. stack \in [0..Last -> Slots] /\ c \in Slots BY <1>2 DEF Slots
<1>8. stack' \in [0..Last -> Slots] BY <1>1, <1>7 DEF Slots
<1> HIDE DEF base
<1>9. /\ base \in Seq(Slots) /\ Len(base) = Top - s + 1 /\ base[1] = c
      /\ \A k \in 2..Top - s + 1 : base[k] = stack[s + k - 1]
  <2>1. Last \in Nat BY <1>2
  <2>2. IsFirstAndSlice(<<c>> \o Slice(stack, s, Top), c, stack, s, Top)
    BY <2>1, <1>6, <1>7, FirstAndSlice, Zenon
  <2>3. IsFirstAndSlice(base, c, stack, s, Top) BY <2>2, <1>5, Zenon
  <2> QED BY <2>3, Zenon DEF IsFirstAndSlice
<1> DEFINE w == Spill(stack', s)
<1>10. /\ w \in Seq(Slots) /\ Len(w) = Last + 1 - s
       /\ \A k \in 1..Last + 1 - s : w[k] = stack'[s + k - 1]
  BY <1>2, <1>8, SpillIsSeq
<1>11. OnStack' = w BY <1>1 DEF OnStack, Spill
<1> HIDE DEF w
<1>12. \A k \in 0..Last : stack'[k] = IF k = s \/ (k = Last /\ code = save_code) THEN c ELSE stack[k]
  BY <1>1 DEF Slots
<1>13. w[1] = c
  <2>1. 1 \in 1..Last + 1 - s /\ s + 1 - 1 = s BY <1>2
  <2>2. w[1] = stack'[s] BY <2>1, <1>10
  <2> QED BY <2>2, <1>2, <1>12
<1>14. w = CodeString /\ CodeString[1] = c
  <2>1. CASE code # save_code
    <3>1. CodeString = base /\ Top = Last BY <2>1 DEF CodeString, base, Top
    <3>2. Len(w) = Len(base) BY <3>1, <1>2, <1>9, <1>10
    <3>3. ASSUME NEW k \in 1..Len(w) PROVE w[k] = base[k]
      <4>1. k \in 1..Last + 1 - s BY <1>10
      <4>2. CASE k = 1 BY <4>2, <1>9, <1>13
      <4>3. CASE k # 1
        <5>1. k \in 2..Top - s + 1 /\ s + k - 1 \in 0..Last /\ s + k - 1 # s BY <4>1, <4>3, <3>1, <1>2
        <5>2. stack'[s + k - 1] = stack[s + k - 1] BY <5>1, <2>1, <1>12
        <5> QED BY <4>1, <5>1, <5>2, <1>9, <1>10
      <4> QED BY <4>2, <4>3
    <3>4. w = base BY <3>2, <3>3, <1>9, <1>10, SeqEqual
    <3> QED BY <3>1, <3>4, <1>9
  <2>2. CASE code = save_code
    <3> DEFINE z == Append(base, c)
    <3>1. base = PrevString /\ Top = Last - 1 BY <2>2 DEF base, Top
    <3>2. CodeString = z BY <2>2, <3>1, <1>9 DEF CodeString
    <3>3. /\ z \in Seq(Slots) /\ Len(z) = Len(base) + 1
          /\ \A i \in 1..Len(base) : z[i] = base[i]
          /\ z[Len(base) + 1] = c
      BY <1>7, <1>9, AppendProperties
    <3> HIDE DEF z
    <3>4. Len(base) = Last - s /\ Len(z) = Last + 1 - s /\ Len(base) >= 1
      BY <3>1, <3>3, <1>2, <1>6, <1>9
    <3>5. ASSUME NEW k \in 1..Len(w) PROVE w[k] = z[k]
      <4>1. k \in 1..Last + 1 - s BY <1>10
      <4>2. CASE k = 1
        <5>0. 1 \in 1..Len(base) BY <3>4, <1>2
        <5>1. z[1] = c BY <5>0, <3>3, <1>9
        <5> QED BY <4>2, <5>1, <1>13
      <4>3. CASE k = Last + 1 - s
        <5>1. s + k - 1 = Last /\ k = Len(base) + 1 /\ Last \in 0..Last BY <4>3, <3>4, <1>2
        <5>2. w[k] = c BY <4>1, <5>1, <2>2, <1>10, <1>12
        <5> QED BY <5>1, <5>2, <3>3
      <4>4. CASE k # 1 /\ k # Last + 1 - s
        <5>1. /\ k \in 2..Top - s + 1 /\ k \in 1..Len(base) /\ s + k - 1 \in 0..Last
              /\ s + k - 1 # s /\ s + k - 1 # Last
          BY <4>1, <4>4, <3>1, <3>4, <1>2
        <5>2. stack'[s + k - 1] = stack[s + k - 1] BY <5>1, <1>12
        <5>3. z[k] = stack[s + k - 1] BY <5>1, <3>3, <1>9
        <5> QED BY <4>1, <5>2, <5>3, <1>10
      <4> QED BY <4>2, <4>3, <4>4
    <3>6. w = z BY <3>3, <3>4, <3>5, <1>10, SeqEqual
    <3> QED BY <3>2, <3>6, <1>13
  <2> QED BY <2>1, <2>2
<1>15. Pending' = CodeString /\ Pending = CodeString BY <1>1, <1>11, <1>14 DEF Pending
<1>16. Dict' = Dict /\ Previous' = Previous
  BY <1>1, <1>3, <1>4 DEF Dict, Busy, Previous
<1>17. Verdict' = Verdict BY <1>1 DEF Verdict
<1>18. status' \notin {"ok", "out_of_range", "cyclical"} BY <1>1, Running
<1>19. ChainMatches' BY <1>1, <1>4, <1>14 DEF ChainMatches
<1>20. text' \in Seq(Slots) BY <1>1 DEF StringsInv
<1> QED BY <1>1, <1>3, <1>15, <1>16, <1>17, <1>18, <1>19, <1>20 DEF StringsInv, Abstract!vars

(* Copy: a part of the string, or the rest of it, is delivered.            *)
LEMMA CopyRefines ==
  ASSUME LzwInv, StringsInv, Copy
  PROVE  StringsInv' /\ (UNCHANGED Abstract!vars \/ \E n \in 1..Len(Pending) : Abstract!Deliver(n))
<1> DEFINE n == Copied
           w == Spill(stack, s)
           q == [k \in 1..n |-> stack[s + k - 1]]
<1>1. /\ pc = "copy" /\ At = "copy" /\ Busy /\ text' = text \o q
      /\ UNCHANGED <<literal_width, code, c, stack>>
  BY DEF Copy, At, Busy
<1>2. Verdict = "running" /\ status \notin {"ok", "out_of_range", "cyclical"} BY <1>1, Running
<1>3. Last \in Nat /\ s \in 0..Last /\ stack \in [0..Last -> Slots] BY Numbers DEF Slots
<1>4. space \in Nat BY DEF LzwInv, TypeOK
<1>5. n \in 0..Last + 1 - s BY <1>3, <1>4 DEF Copied
<1>6. /\ w \in Seq(Slots) /\ Len(w) = Last + 1 - s
      /\ \A k \in 1..Last + 1 - s : w[k] = stack[s + k - 1]
  BY <1>3, SpillIsSeq
<1>7. Pending = w /\ OnStack = w /\ Previous = CodeString
  BY <1>1 DEF Pending, OnStack, Spill, Previous
<1>8. text \in Seq(Slots) BY DEF StringsInv
<1>9. CASE n = Last + 1 - s
  <2>1. At' = "read" /\ status' = status /\ Save(c) BY <1>9 DEF Copy, GoTo, At
  <2>2. c = CodeString[1] BY <1>1 DEF StringsInv, ChainMatches
  <2>3. EntriesMatch' /\ PrevString' = CodeString /\ entries' = Dict
    BY <1>1, <2>1, <2>2, SaveStrings DEF StringsInv
  <2>4. Dict' = entries' /\ Previous' = PrevString' /\ Pending' = << >> BY <2>1, IdleAfter
  <2>5. status' \notin {"ok", "out_of_range", "cyclical"} BY <1>2, <2>1
  <2>6. Verdict' = "running" BY <2>5, RunningAfter
  <2>7. q = w BY <1>9 DEF Spill
  <2> HIDE DEF w, n, q
  <2>8. text' = text \o SubSeq(w, 1, Len(w)) /\ text' \in Seq(Slots)
    <3>1. SubSeq(w, 1, Len(w)) = w BY <1>6, SubSeqFull
    <3>2. w \in Seq(Slots) BY <1>6
    <3>3. text \o w \in Seq(Slots) BY <1>8, <3>2, ConcatProperties
    <3> QED BY <1>1, <2>7, <3>1, <3>3
  <2>9. Len(w) \in Int /\ Len(w) + 1 \in Int /\ Len(w) < Len(w) + 1 /\ Len(w) \in 1..Len(w)
    BY <1>3, <1>6
  <2>10. SubSeq(w, Len(w) + 1, Len(w)) = << >> BY <2>9, SubSeqEmpty
  <2>11. Abstract!Deliver(Len(w))
    BY <1>1, <1>2, <1>7, <2>3, <2>4, <2>6, <2>8, <2>10 DEF Abstract!Deliver
  <2>12. ChainMatches' BY <2>1 DEF ChainMatches
  <2>13. StringsInv' BY <2>3, <2>5, <2>8, <2>12 DEF StringsInv
  <2> QED BY <1>7, <2>9, <2>11, <2>13
<1>10. CASE n # Last + 1 - s
  <2>1. /\ At' = "copy" /\ status' = "short_write" /\ s' = Remainder
        /\ UNCHANGED <<entries, suffixes, prefixes, save_code, prev_code>>
    BY <1>1, <1>10 DEF Copy, Suspend, At, tables
  <2>2. s' = s + n /\ s' \in 0..Last
    <3>1. s + n \in 0..Last BY <1>3, <1>5, <1>10
    <3>2. \A y \in 0..Last : y % (Last + 1) = y BY <1>3
    <3>3. s' = (s + n) % (Last + 1) BY <2>1 DEF Remainder
    <3> HIDE DEF n
    <3>4. (s + n) % (Last + 1) = s + n BY <3>1, <3>2
    <3> QED BY <3>1, <3>3, <3>4
  <2>3. Verdict' = "running" /\ status' \notin {"ok", "out_of_range", "cyclical"} BY <2>1, RunningAfter
  <2>4. CASE n = 0
    <3>1. s' = s BY <1>3, <2>2, <2>4
    <3>2. q = << >> BY <2>4
    <3>3. text' = text BY <1>1, <1>8, <3>2, ConcatEmptySeq
    <3>4. Verdict' = Verdict BY <1>2, <2>3
    <3> QED BY <1>1, <2>1, <2>3, <3>1, <3>3, <3>4, StutterRefines
  <2>5. CASE n # 0
    <3> DEFINE v == Spill(stack, s')
    <3>1. /\ v \in Seq(Slots) /\ Len(v) = Last + 1 - s'
          /\ \A k \in 1..Last + 1 - s' : v[k] = stack[s' + k - 1]
      BY <1>3, <2>2, SpillIsSeq
    <3>2. Pending' = v BY <1>1, <2>1 DEF Pending, OnStack, Spill
    <3>3. q \in Seq(Slots) /\ Len(q) = n /\ \A k \in 1..n : q[k] = stack[s + k - 1]
      <4>1. n \in Nat /\ \A k \in 1..n : s + k - 1 \in 0..Last BY <1>3, <1>5
      <4>2. q \in [1..n -> Slots] BY <4>1, <1>3
      <4>3. \A k \in 1..n : q[k] = stack[s + k - 1] OBVIOUS
      <4> HIDE DEF n, q
      <4> QED BY <4>1, <4>2, <4>3, FunctionIsSeq
    <3> HIDE DEF v, w, n, q
    <3> DEFINE a == SubSeq(w, 1, n)
               b == SubSeq(w, n + 1, Len(w))
    <3>4. a \in Seq(Slots) /\ Len(a) = n /\ \A k \in 1..n : a[k] = w[k]
      <4>1. \A k \in 1..n : w[k] \in Slots
        <5>1. \A k \in 1..n : k \in 1..Len(w) BY <1>3, <1>5, <1>6
        <5> QED BY <5>1, <1>6, ElementOfSeq
      <4>2. 1 \in Int /\ n \in Int /\ n >= 1 BY <1>3, <1>5, <2>5
      <4>3. /\ a \in Seq(Slots) /\ Len(a) = (IF 1 <= n THEN n - 1 + 1 ELSE 0)
            /\ \A k \in 1..n - 1 + 1 : a[k] = w[1 + k - 1]
        BY <4>1, <4>2, SubSeqProperties
      <4>4. n - 1 + 1 = n /\ \A k \in 1..n : 1 + k - 1 = k BY <4>2
      <4> HIDE DEF a
      <4> QED BY <4>2, <4>3, <4>4
    <3>5. b \in Seq(Slots) /\ Len(b) = Len(w) - n /\ \A k \in 1..Len(w) - n : b[k] = w[n + k]
      <4> DEFINE lo == n + 1
                 hi == Len(w)
      <4>1. lo \in Int /\ hi \in Int /\ lo <= hi /\ hi - lo + 1 = hi - n BY <1>3, <1>5, <1>6, <1>10
      <4>2. \A k \in lo..hi : w[k] \in Slots
        <5>1. \A k \in lo..hi : k \in 1..Len(w) BY <1>3, <1>5, <1>6
        <5> QED BY <5>1, <1>6, ElementOfSeq
      <4> HIDE DEF lo, hi
      <4>3. /\ SubSeq(w, lo, hi) \in Seq(Slots) /\ Len(SubSeq(w, lo, hi)) = (IF lo <= hi THEN hi - lo + 1 ELSE 0)
            /\ \A k \in 1..hi - lo + 1 : SubSeq(w, lo, hi)[k] = w[lo + k - 1]
        BY <4>1, <4>2, SubSeqProperties
      <4>4. b = SubSeq(w, lo, hi) BY DEF lo, hi
      <4>5. \A k \in 1..hi - n : lo + k - 1 = n + k BY <1>3, <1>5, <4>1 DEF lo
      <4> HIDE DEF b
      <4>6. /\ b \in Seq(Slots) /\ Len(b) = hi - n /\ \A k \in 1..hi - n : b[k] = w[n + k]
        BY <4>1, <4>3, <4>4, <4>5
      <4> QED BY <4>6 DEF hi
    <3> HIDE DEF a, b
    <3>6. q = a
      <4>1. \A k \in 1..n : w[k] = stack[s + k - 1] BY <1>3, <1>5, <1>6
      <4>2. \A k \in 1..n : q[k] = a[k] BY <3>3, <3>4, <4>1
      <4> QED BY <3>3, <3>4, <4>2, SeqEqual
    <3>7. v = b
      <4>1. Len(v) = Len(b) BY <1>3, <1>5, <1>6, <2>2, <3>1, <3>5
      <4>2. ASSUME NEW k \in 1..Len(v) PROVE v[k] = b[k]
        <5>1. /\ k \in 1..Last + 1 - s' /\ k \in 1..Len(w) - n /\ n + k \in 1..Last + 1 - s
              /\ s' + k - 1 = s + (n + k) - 1
          <6>1. k \in 1..Last + 1 - s' BY <3>1
          <6>2. s \in Int /\ n \in Int /\ n >= 0 /\ Last \in Int /\ s' = s + n BY <1>3, <1>5, <2>2
          <6>3. k \in Int /\ k >= 1 /\ k <= Last + 1 - (s + n) BY <6>1, <6>2
          <6>4. Len(w) = Last + 1 - s BY <1>6
          <6> QED BY <6>1, <6>2, <6>3, <6>4
        <5>2. v[k] = stack[s' + k - 1] BY <5>1, <3>1
        <5>3. b[k] = w[n + k] BY <5>1, <3>5
        <5>4. w[n + k] = stack[s + (n + k) - 1] BY <5>1, <1>6
        <5> QED BY <5>1, <5>2, <5>3, <5>4
      <4> QED BY <3>1, <3>5, <4>1, <4>2, SeqEqual
    <3>8. /\ EntriesMatch' /\ PrevString' = PrevString
          /\ clear_code' = clear_code /\ end_code' = end_code
          /\ \A k : NewString(k) = String(k)
      BY <1>1, <2>1, SameStrings DEF StringsInv
    <3>9. CodeString' = CodeString BY <1>1, <2>1, <3>8, PrimedStrings DEF CodeString
    <3>10. Dict' = Dict /\ Previous' = Previous
      BY <1>1, <2>1, <3>8, <3>9 DEF Dict, Busy, Previous
    <3>11. text' \in Seq(Slots)
      <4>1. q \in Seq(Slots) BY <3>3
      <4> QED BY <1>1, <1>8, <4>1, ConcatProperties
    <3>12. Abstract!Deliver(n)
      BY <1>1, <1>2, <1>7, <2>3, <3>2, <3>6, <3>7, <3>10 DEF Abstract!Deliver, a, b
    <3>13. ChainMatches' BY <1>1, <2>1, <3>9 DEF StringsInv, ChainMatches
    <3>14. StringsInv' BY <2>3, <3>8, <3>11, <3>13 DEF StringsInv
    <3>15. n \in 1..Len(Pending) BY <1>3, <1>5, <1>6, <1>7, <2>5
    <3> QED BY <3>12, <3>14, <3>15
  <2> QED BY <2>4, <2>5
<1> QED BY <1>9, <1>10

-----------------------------------------------------------------------------
LEMMA StringsInit ==
  Init => StringsInv /\ Abstract!Init
<1> SUFFICES ASSUME Init PROVE StringsInv /\ Abstract!Init OBVIOUS
<1>1. /\ pc = "caller" /\ resume = "read" /\ status = "not_called" /\ save_code = end_code
      /\ literal_width \in LiteralWidths /\ entries = << >> /\ text = << >>
  BY DEF Init
<1>2. At = "read" BY <1>1 DEF At
<1>3. text \in Seq(Slots) BY <1>1, EmptySeq
<1>4. entries \in Seq(Seq(Slots)) /\ Len(entries) = 0 BY <1>1, EmptySeq
<1>5. EntriesMatch BY <1>1, <1>4 DEF EntriesMatch
<1>6. ChainMatches BY <1>2 DEF ChainMatches
<1>7. StringsInv BY <1>1, <1>3, <1>5, <1>6 DEF StringsInv
<1>8. Dict = << >> /\ Previous = << >> /\ Pending = << >> /\ Verdict = "running"
  BY <1>1, <1>2 DEF Dict, Busy, Previous, PrevString, Pending, Verdict
<1> QED BY <1>1, <1>7, <1>8 DEF Abstract!Init

LEMMA StringsNext ==
  ASSUME LzwInv, StringsInv, [Next]_vars
  PROVE  StringsInv' /\ [Abstract!Next]_(Abstract!vars)
<1>0. Abstract!LastCode = Last /\ Slots = 0..Last BY AbstractCodes DEF Slots
<1>1. CASE UNCHANGED vars
  <2>1. /\ At' = At /\ Verdict' = Verdict /\ UNCHANGED <<pc, status>>
        /\ UNCHANGED <<literal_width, save_code, prev_code, code, s, c, entries, suffixes, prefixes, stack, text>>
    BY <1>1 DEF vars, At, Verdict
  <2>2. status' \in {"ok", "out_of_range", "cyclical"} => pc' = "returned" BY <2>1 DEF StringsInv
  <2> QED BY <2>1, <2>2, StutterRefines
<1>2. CASE \E n \in 0..MaxSrc, m \in 0..MaxDst : Call(n, m) BY <1>2, CallRefines
<1>3. CASE ReadU8 BY <1>3, ReadU8Refines
<1>4. CASE Codes
  <2>1. ASSUME NEW x \in Slots, Literal(x) PROVE StringsInv' /\ Abstract!Next
    <3>1. StringsInv' /\ Abstract!Decode(x) BY <2>1, LiteralRefines
    <3> QED BY <1>0, <3>1 DEF Abstract!Next
  <2>2. ASSUME NEW x \in Slots, BackReference(x) PROVE StringsInv' /\ Abstract!Next
    <3>1. StringsInv' /\ Abstract!Decode(x) BY <2>2, BackReferenceRefines
    <3> QED BY <1>0, <3>1 DEF Abstract!Next
  <2>3. ASSUME NEW x \in Slots, OutOfRange(x) PROVE StringsInv' /\ Abstract!Next
    <3>1. /\ ReadCode(x) /\ Return("out_of_range") /\ UNCHANGED <<entries, save_code, prev_code>>
          /\ x > end_code /\ x > save_code
      BY <2>3 DEF OutOfRange
    <3>2. StringsInv' /\ Abstract!Stop(x) BY <3>1, StopRefines
    <3> QED BY <1>0, <3>2 DEF Abstract!Next
  <2>4. ASSUME Clear PROVE StringsInv' /\ Abstract!Next BY <2>4, ClearRefines DEF Abstract!Next
  <2>5. ASSUME End PROVE StringsInv' /\ Abstract!Next
    <3>1. end_code \in Slots BY Numbers DEF Slots
    <3>2. ReadCode(end_code) /\ Return("ok") /\ UNCHANGED <<entries, save_code, prev_code>>
      BY <2>5 DEF End
    <3>3. StringsInv' /\ Abstract!Stop(end_code) BY <3>1, <3>2, StopRefines
    <3> QED BY <1>0, <3>1, <3>3 DEF Abstract!Next
  <2> QED BY <1>4, <2>1, <2>2, <2>3, <2>4, <2>5 DEF Codes
<1>5. CASE WriteU8 BY <1>5, WriteU8Refines DEF Abstract!Next
<1>6. CASE Chain BY <1>6, ChainRefines
<1>7. CASE ChainEnd BY <1>7, ChainEndRefines
<1>8. CASE Copy BY <1>8, CopyRefines DEF Abstract!Next
<1>9. CASE Returned BY <1>9, <1>1 DEF Returned
<1> QED BY <1>1, <1>2, <1>3, <1>4, <1>5, <1>6, <1>7, <1>8, <1>9 DEF Next

(* lzw_decoder.decode outputs what the codes stand for: for every literal  *)
(* width, every size of the tables and every stream, however the source    *)
(* and the destination are cut into buffers, and whatever the tables and   *)
(* the stack still hold of the codes before a clear code.                  *)
THEOREM Refinement == Spec => ImplementsLzw
<1>1. Init => LzwInv /\ StringsInv /\ Abstract!Init BY InitInv, StringsInit
<1>2. LzwInv /\ StringsInv /\ [Next]_vars => LzwInv' /\ StringsInv' /\ [Abstract!Next]_(Abstract!vars)
  BY NextStep, StringsNext
<1> QED BY <1>1, <1>2, PTL DEF Spec, ImplementsLzw, Abstract!Spec
=============================================================================
