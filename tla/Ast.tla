-------------------------------- MODULE Ast --------------------------------
(***************************************************************************)
(* The syntax trees of lang/ast: expressions and types as tagged tuples.   *)
(*                                                                         *)
(*   <<"num", v>>  <<"bool", 0 or 1>>  <<"id", name>>                      *)
(*   <<"neg", r>>  <<"not", r>>                     unary operators        *)
(*   <<op, l, r>>                                   op in BinaryOps        *)
(*   <<"as", l, type>>   <<"assoc", op, args>>                             *)
(*   <<"index", l, r>>   <<"slice", l, m, r>>       m, r may be Nil        *)
(*   <<"dot", l, name>>  <<"call", l, method, args, effect>>               *)
(*                                                                         *)
(* A call is lhs.method(args) with its effect: "", "!" or "?". A name is a *)
(* string; positions in the source file are left out.                      *)
(***************************************************************************)
EXTENDS Integers, Sequences, SequencesExt

\* A missing sub-expression or value.
Nil == <<>>

CompareOps == {"!=", "<", "<=", "==", ">=", ">"}
LogicOps == {"and", "or"}
ShiftOps == {"<<", ">>"}
BitOps == {"&", "|", "^"}
BinaryOps == CompareOps \cup LogicOps \cup ShiftOps \cup BitOps \cup {"+", "-", "*", "/", "%", "~+"}

Bit(b) == IF b THEN 1 ELSE 0

\* The bits of a natural number, as the bitwise operators see them.
RECURSIVE Bitwise2(_, _, _)
Bitwise2(op, l, r) ==
    IF l = 0 /\ r = 0 THEN 0
    ELSE LET p == l % 2  q == r % 2
             b == CASE op = "&" -> Bit(p = 1 /\ q = 1) [] op = "|" -> Bit(p = 1 \/ q = 1) [] op = "^" -> Bit(p # q)
         IN  b + 2 * Bitwise2(op, l \div 2, r \div 2)

\* evalConstValueBinaryOp: the value of l op r over the integers, with the
\* Euclidean division of big.Int. A division by zero, a shift out of range and a
\* ~+ of constants have no value.
evalConstValueBinaryOp(op, l, r) ==
    CASE op = "+" -> <<l + r>>
      [] op = "-" -> <<l - r>>
      [] op = "*" -> <<l * r>>
      [] op = "/" /\ r # 0 -> <<IF r > 0 THEN l \div r ELSE -(l \div (-r))>>
      [] op = "%" /\ r # 0 -> <<l % (IF r > 0 THEN r ELSE -r)>>
      [] op \in ShiftOps /\ r \in 0..65535 -> <<IF op = "<<" THEN l * 2^r ELSE l \div 2^r>>
      [] op \in BitOps /\ l >= 0 /\ r >= 0 -> <<Bitwise2(op, l, r)>>
      [] op = "!=" -> <<Bit(l # r)>>
      [] op = "<"  -> <<Bit(l < r)>>
      [] op = "<=" -> <<Bit(l <= r)>>
      [] op = "==" -> <<Bit(l = r)>>
      [] op = ">=" -> <<Bit(l >= r)>>
      [] op = ">"  -> <<Bit(l > r)>>
      [] op = "and" -> <<Bit(l # 0 /\ r # 0)>>
      [] op = "or"  -> <<Bit(l # 0 \/ r # 0)>>
      [] OTHER -> Nil

\* The sub-expressions of a node (its lhs, mhs, rhs and list0; the rhs of
\* "as" is a type).
Kids(n) ==
    CASE n[1] \in BinaryOps \cup {"index"} -> <<n[2], n[3]>>
      [] n[1] \in {"neg", "not", "as", "dot"} -> <<n[2]>>
      [] n[1] = "slice" -> SelectSeq(<<n[2], n[3], n[4]>>, LAMBDA k : k # Nil)
      [] n[1] = "assoc" -> n[3]
      [] n[1] = "call" -> <<n[2]>> \o n[4]
      [] OTHER -> <<>>

\* ConstValue: <<v>> or Nil. Only literals, unary and binary operators of
\* constants are folded; an associative operator never is.
RECURSIVE ConstValue(_)
ConstValue(n) ==
    CASE n[1] \in {"num", "bool"} -> <<n[2]>>
      [] n[1] \in {"neg", "not"} ->
            LET r == ConstValue(n[2])
            IN  IF r = Nil THEN Nil ELSE <<IF n[1] = "neg" THEN -r[1] ELSE Bit(r[1] = 0)>>
      [] n[1] \in BinaryOps ->
            LET l == ConstValue(n[2])  r == ConstValue(n[3])
            IN  IF l = Nil \/ r = Nil THEN Nil ELSE evalConstValueBinaryOp(n[1], l[1], r[1])
      [] OTHER -> Nil

Num(v) == <<"num", v>>

\* What Eq compares: a constant is its value, anything else its shape.
RECURSIVE Canon(_)
Canon(n) ==
    IF ConstValue(n) # Nil THEN Num(ConstValue(n)[1])
    ELSE CASE n[1] \in BinaryOps \cup {"index"} -> <<n[1], Canon(n[2]), Canon(n[3])>>
           [] n[1] \in {"neg", "not"} -> <<n[1], Canon(n[2])>>
           [] n[1] = "as" -> <<"as", Canon(n[2]), n[3]>>
           [] n[1] = "dot" -> <<"dot", Canon(n[2]), n[3]>>
           [] n[1] = "assoc" -> <<"assoc", n[2], [i \in DOMAIN n[3] |-> Canon(n[3][i])]>>
           [] n[1] = "call" -> <<"call", Canon(n[2]), n[3], [i \in DOMAIN n[4] |-> Canon(n[4][i])], n[5]>>
           [] OTHER -> n

Eq(n, o) == Canon(n) = Canon(o)

RECURSIVE Mentions(_, _)
Mentions(n, o) == Eq(n, o) \/ \E i \in DOMAIN Kids(n) : Mentions(Kids(n)[i], o)

\* The flags NewExpr collects from the sub-expressions.
CallSuspendible(n) == n[1] = "call" /\ n[5] = "?"
CallImpure(n) == n[1] = "call" /\ n[5] \in {"!", "?"}

RECURSIVE Suspendible(_)
Suspendible(n) == CallSuspendible(n) \/ \E i \in DOMAIN Kids(n) : Suspendible(Kids(n)[i])

RECURSIVE Pure(_)
Pure(n) == ~CallImpure(n) /\ \A i \in DOMAIN Kids(n) : Pure(Kids(n)[i])

----------------------------------------------------------------------------
(* Types: <<"int", base, min, max>> with min and max values or Nil (the    *)
(* refinement), <<"array", length, inner>>, <<"slice", inner>>,            *)
(* <<"ptr", inner>>, <<"func", receiver, name>> and the names below.       *)

Ideal == <<"ideal">>
Bool == <<"boolean">>
Status == <<"status">>
Unit == <<"unit">>
Generic == <<"generic">>
IntType(base) == <<"int", base, Nil, Nil>>
U8 == IntType("u8")
U32 == IntType("u32")
U64 == IntType("u64")

IsNumType(t) == t[1] = "int"
IsNumTypeOrIdeal(t) == t[1] = "int" \/ t = Ideal
IsUnsignedInteger(t) == t[1] = "int" /\ t[2] \in {"u8", "u16", "u32", "u64"}
IsRefined(t) == t[1] = "int" /\ (t[3] # Nil \/ t[4] # Nil)
Unrefined(t) == IF t[1] = "int" THEN IntType(t[2]) ELSE t

Inner(t) == CASE t[1] = "array" -> t[3] [] t[1] \in {"slice", "ptr"} -> t[2]

RECURSIVE Innermost(_)
Innermost(t) == IF t[1] \in {"array", "slice", "ptr"} THEN Innermost(Inner(t)) ELSE t

RECURSIVE Pointee(_)
Pointee(t) == IF t[1] = "ptr" THEN Pointee(t[2]) ELSE t

RECURSIVE HasPointers(_)
HasPointers(t) == \/ t[1] \in {"ptr", "slice", "reader1", "writer1"}
                  \/ t[1] = "array" /\ HasPointers(t[3])

RECURSIVE StripRefinements(_)
StripRefinements(t) ==
    CASE t[1] = "array" -> <<"array", t[2], StripRefinements(t[3])>>
      [] t[1] \in {"slice", "ptr"} -> <<t[1], StripRefinements(t[2])>>
      [] OTHER -> Unrefined(t)
EqIgnoringRefinements(t, u) == StripRefinements(t) = StripRefinements(u)
=============================================================================
