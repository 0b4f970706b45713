------------------------------- MODULE Bounds -------------------------------
(***************************************************************************)
(* The bounds checker of lang/check: bounds.go, assert.go, optimize.go and *)
(* the reasons of data.go. It walks a function body once, with a sequence  *)
(* of facts, proves that every value stays in the bounds of its type, that *)
(* every index is in range and that every assertion holds, and marks the   *)
(* calls that need no check at run time.                                   *)
(*                                                                         *)
(* The bounds of an expression are <<min, max>>, Nil for a type without    *)
(* bounds, or Err. A statement's result is a record: ok, the facts after   *)
(* it, and the statement with its calls marked by a sixth component.       *)
(***************************************************************************)
EXTENDS TypeCheck, FiniteSetsExt

CONSTANT NumTypeBounds      \* name of an integer type -> <<min, max>>

ASSUME BoundsAssumption ==
    \A t \in DOMAIN NumTypeBounds : NumTypeBounds[t][1] <= 0 /\ 0 <= NumTypeBounds[t][2]

MaxIntBits == 64

\* bcheckTypeExpr: the bounds of a type, narrowed by its refinement.
bcheckTypeExpr(t) ==
    IF t = Bool THEN <<0, 1>>
    ELSE IF ~IsNumType(t) THEN Nil
    ELSE LET b == NumTypeBounds[t[2]]
         IN  <<IF t[3] # Nil THEN Max({b[1], t[3][1]}) ELSE b[1], IF t[4] # Nil THEN Min({b[2], t[4][1]}) ELSE b[2]>>

\* typeBounds refuses a refinement that goes beyond the type it refines.
typeBounds(t) ==
    IsNumType(t) => LET b == NumTypeBounds[t[2]]
                    IN  (t[3] # Nil => t[3][1] >= b[1]) /\ (t[4] # Nil => t[4][1] <= b[2])

\* bcheckField: a field starts as its default value, which must be in bounds;
\* only a field of numeric innermost type may have one.
bcheckField(t, default) ==
    LET inn == Innermost(t)  b == bcheckTypeExpr(inn)
        dv == IF default = Nil THEN 0 ELSE default[1]
    IN  IF b = Nil THEN default = Nil ELSE typeBounds(inn) /\ b[1] <= dv /\ dv <= b[2]

\* bitMask, and the number of bits of a natural number.
bitMask(nBits) == 2^nBits - 1
BitLen(v) == CHOOSE k \in 0..MaxIntBits : v < 2^k /\ (k = 0 \/ v >= 2^(k - 1))

InverseOp == ("!=" :> "==") @@ ("<" :> ">=") @@ ("<=" :> ">") @@ ("==" :> "!=") @@ (">=" :> "<") @@ (">" :> "<=")
           @@ ("and" :> "or") @@ ("or" :> "and")
ReverseOp == ("!=" :> "!=") @@ ("<" :> ">") @@ ("<=" :> ">=") @@ ("==" :> "==") @@ (">=" :> "<=") @@ (">" :> "<")

\* invert: the negation of a condition. A constant condition, or one with a
\* constant part, cannot be inverted.
RECURSIVE invert(_)
invert(n) ==
    CASE n[1] = "not" -> n[2]
      [] n[1] \in CompareOps -> <<InverseOp[n[1]], n[2], n[3]>>
      [] n[1] \in LogicOps -> <<InverseOp[n[1]], invert(n[2]), invert(n[3])>>
      [] n[1] = "assoc" /\ n[2] \in LogicOps -> <<"assoc", InverseOp[n[2]], [i \in DOMAIN n[3] |-> invert(n[3][i])]>>
      [] OTHER -> <<"not", n>>

RECURSIVE Invertible(_)
Invertible(n) == /\ ConstValue(n) = Nil
                 /\ n[1] \in LogicOps \/ (n[1] = "assoc" /\ n[2] \in LogicOps)
                    => \A i \in DOMAIN Kids(n) : Invertible(Kids(n)[i])

----------------------------------------------------------------------------
(* The facts. *)

IsBinaryOp(n) == n[1] \in BinaryOps

\* otherHandSide: <<op, y>> when the comparison n says "x op y", else Nil.
otherHandSide(n, x) ==
    IF n[1] \notin CompareOps THEN Nil
    ELSE IF Eq(x, n[2]) THEN <<n[1], n[3]>>
    ELSE IF Eq(x, n[3]) THEN <<ReverseOp[n[1]], n[2]>> ELSE Nil

RECURSIVE appendFact(_, _)
appendFact(F, fact) ==
    IF \E i \in DOMAIN F : Eq(F[i], fact) THEN F
    ELSE CASE fact[1] \in {"num", "bool", "id"} ->
                LET equals(x) == otherHandSide(x, fact) # Nil /\ otherHandSide(x, fact)[1] = "=="
                IN  Append(FoldLeft(LAMBDA acc, x : IF equals(x) THEN appendFact(acc, otherHandSide(x, fact)[2]) ELSE acc,
                                    F, F), fact)
           [] fact[1] = "and" -> appendFact(appendFact(F, fact[2]), fact[3])
           [] fact[1] = "assoc" /\ fact[2] = "and" -> FoldLeft(appendFact, F, fact[3])
           [] OTHER -> Append(F, fact)

\* refine: the facts that compare n with a constant narrow its bounds, one
\* after the other; a fact that empties them is an error.
refine(F, n, b) ==
    LET narrow(acc, x) ==
            LET o == otherHandSide(x, n)
                c == IF o = Nil THEN Nil ELSE ConstValue(o[2])
                z == CASE c = Nil \/ acc = Err -> acc
                       [] o[1] = "!=" -> IF acc[1] = c[1] THEN <<acc[1] + 1, acc[2]>>
                                         ELSE IF acc[2] = c[1] THEN <<acc[1], acc[2] - 1>> ELSE acc
                       [] o[1] = "<"  -> <<acc[1], Min({acc[2], c[1] - 1})>>
                       [] o[1] = "<=" -> <<acc[1], Min({acc[2], c[1]})>>
                       [] o[1] = "==" -> <<c[1], c[1]>>
                       [] o[1] = ">=" -> <<Max({acc[1], c[1]}), acc[2]>>
                       [] o[1] = ">"  -> <<Max({acc[1], c[1] + 1}), acc[2]>>
            IN  IF z # Err /\ z # acc /\ z[1] > z[2] THEN Err ELSE z
    IN  IF b = Nil \/ b = Err THEN b ELSE FoldLeft(narrow, b, F)

\* simplify: constants are folded, and (a + b) - b is a.
RECURSIVE simplify(_)
simplify(n) ==
    CASE ~IsBinaryOp(n) -> n
      [] ConstValue(n[2]) # Nil /\ ConstValue(n[3]) # Nil -> Num(ConstValue(n)[1])
      [] n[1] = "-" -> CASE Eq(n[2], n[3]) -> Num(0)
                         [] n[2][1] = "+" /\ Eq(n[2][2], n[3]) -> n[2][3]
                         [] n[2][1] = "+" /\ Eq(n[2][3], n[3]) -> n[2][2]
                         [] OTHER -> n
      [] n[1] \in CompareOps -> <<n[1], simplify(n[2]), simplify(n[3])>>
      [] OTHER -> n

opImpliesOp(op0, op1) == \/ op0 = op1
                         \/ op0 = "<" /\ op1 \in {"!=", "<="}
                         \/ op0 = ">" /\ op1 \in {"!=", ">="}

proveBinaryOpConstValues(op, l, r) ==
    CASE op = "!=" -> l[2] < r[1] \/ l[1] > r[2]
      [] op = "<"  -> l[2] < r[1]
      [] op = "<=" -> l[2] <= r[1]
      [] op = "==" -> l[1] = r[2] /\ l[2] = r[1]
      [] op = ">=" -> l[1] >= r[2]
      [] op = ">"  -> l[1] > r[2]
      [] OTHER -> FALSE

----------------------------------------------------------------------------
(* Expressions. *)

\* bcheckExprBinaryOp1, given the bounds of the operands.
bcheckExprBinaryOp1(G, F, op, lhs, l, rhs, r) ==
    LET known == {F[i][1] : i \in {j \in DOMAIN F : IsBinaryOp(F[j]) /\ Eq(lhs, F[j][2]) /\ Eq(rhs, F[j][3])}}
        typ == IF MType(G, lhs) = Ideal THEN MType(G, rhs) ELSE MType(G, lhs)
    IN  CASE l = Err \/ r = Err -> Err
          [] op = "+" -> <<l[1] + r[1], l[2] + r[2]>>
          [] op = "-" -> <<Max({l[1] - r[2]} \cup {IF k = ">" THEN 1 ELSE 0 : k \in known \cap {">=", ">"}}),
                           Min({l[2] - r[1]} \cup {IF k = "<" THEN -1 ELSE 0 : k \in known \cap {"<", "<="}})>>
          [] op = "*" -> IF l[1] < 0 \/ r[1] < 0 THEN Err ELSE <<l[1] * r[1], l[2] * r[2]>>
          [] op = "<<" -> IF l[1] < 0 \/ r[1] < 0 \/ r[2] > 65535 THEN Err ELSE <<l[1] * 2^r[1], l[2] * 2^r[2]>>
          [] op = ">>" -> IF l[1] < 0 \/ r[1] < 0 THEN Err
                          ELSE IF r[1] >= MaxIntBits THEN <<0, 0>>
                          ELSE <<IF r[2] >= MaxIntBits THEN 0 ELSE l[1] \div 2^r[2], l[2] \div 2^r[1]>>
          [] op \in BitOps -> IF l[1] < 0 \/ r[1] < 0 \/ Max({l[2], r[2]}) > NumTypeBounds["u64"][2] THEN Err
                              ELSE <<0, bitMask(BitLen(IF op = "&" THEN Min({l[2], r[2]}) ELSE Max({l[2], r[2]})))>>
          [] op = "%" -> IF l[1] < 0 \/ r[1] <= 0 THEN Err ELSE <<0, r[2] - 1>>
          [] op \in CompareOps \cup LogicOps -> <<0, 1>>
          [] op = "~+" -> NumTypeBounds[typ[2]]
          [] OTHER -> Err

LengthOf(G, s) == IF MType(G, s)[1] = "array" THEN Num(MType(G, s)[2]) ELSE <<"call", s, "length", <<>>, "">>

(* Variant: only the maximum is compared. *)
WithinMax(b, t) == b = Nil \/ t = Nil \/ b[2] <= t[2]

Within(b, t) == b = Nil \/ t = Nil \/ (t[1] <= b[1] /\ b[2] <= t[2])

\* The I/O methods whose arguments are checked but not compared with the
\* parameters, and the methods without bounds.
IOMethods == {"read_u8", "read_u16be", "unread_u8", "skip32", "since_mark", "mark", "is_marked",
              "copy_from_history32", "write_u8"}
NoBoundsMethods == {"is_error", "is_ok", "is_suspension", "suffix"}

RECURSIVE bcheckExpr(_, _, _), proveBinaryOp(_, _, _, _, _), bcheckArgs(_, _, _), bcheckAssignable(_, _, _, _)

\* The bounds of every expression of a sequence can be found.
bcheckArgs(G, F, args) == \A i \in DOMAIN args : bcheckExpr(G, F, args[i]) # Err

\* bcheckAssignment2 for "=": rhs fits a left hand side of type lTyp.
bcheckAssignable(G, F, lTyp, rhs) ==
    LET r == IF ConstValue(rhs) # Nil THEN <<ConstValue(rhs)[1], ConstValue(rhs)[1]>> ELSE bcheckExpr(G, F, rhs)
    IN  r # Err /\ Within(r, bcheckTypeExpr(lTyp))

\* bcheckExprOther for a call: each kind of method has its own rule.
bcheckExprCall(G, F, n) ==
    LET m == n[3]  args == n[4]
        f == resolveFunc(Pointee(MType(G, n[2])), m)[1]
        out == bcheckTypeExpr(MType(G, n))
    IN  CASE bcheckExpr(G, F, n[2]) = Err -> Err
          [] m \in IOMethods -> IF bcheckArgs(G, F, args) THEN out ELSE Err
          [] m \in {"low_bits", "high_bits"} ->
                LET a == bcheckExpr(G, F, args[1])
                IN  IF a = Err THEN Err ELSE IF a[2] > MaxIntBits THEN Err ELSE <<0, bitMask(a[2])>>
          [] m \in NoBoundsMethods -> Nil
          [] m = "set_literal_width" ->
                LET a == bcheckExpr(G, F, args[1])
                IN  IF a = Err THEN Err ELSE IF a[1] < 2 \/ a[2] > 8 THEN Err ELSE Nil
          [] m \in {"copy_from_slice", "decode", "update"} -> IF bcheckArgs(G, F, args) THEN Nil ELSE Err
          [] m \in {"length", "available"} -> out
          [] OTHER -> IF \A i \in DOMAIN args : bcheckAssignable(G, F, f.in[i], args[i]) THEN out ELSE Err

\* bcheckExprOther for an index and for a slice.
(* Variant: an index may equal the length. *)
bcheckIndexAtEnd(G, F, n) ==
    IF /\ bcheckExpr(G, F, n[2]) # Err /\ bcheckExpr(G, F, n[3]) # Err
       /\ proveBinaryOp(G, F, "<=", Num(0), n[3])
       /\ proveBinaryOp(G, F, "<=", n[3], LengthOf(G, n[2]))
    THEN bcheckTypeExpr(MType(G, n)) ELSE Err

bcheckIndex(G, F, n) ==
    IF /\ bcheckExpr(G, F, n[2]) # Err /\ bcheckExpr(G, F, n[3]) # Err
       /\ proveBinaryOp(G, F, "<=", Num(0), n[3])
       /\ proveBinaryOp(G, F, "<", n[3], LengthOf(G, n[2]))
    THEN bcheckTypeExpr(MType(G, n)) ELSE Err

bcheckSlice(G, F, n) ==
    LET m == IF n[3] = Nil THEN Num(0) ELSE n[3]
        r == IF n[4] = Nil THEN LengthOf(G, n[2]) ELSE n[4]
    IN  IF \/ n[3] = Nil /\ n[4] = Nil
           \/ /\ n[3] # Nil => proveBinaryOp(G, F, "<=", Num(0), m)
              /\ proveBinaryOp(G, F, "<=", m, r)
              /\ n[4] # Nil => proveBinaryOp(G, F, "<=", r, LengthOf(G, n[2]))
        THEN Nil ELSE Err

bcheckExprUnaryOp(op, r) == IF r = Err THEN Err ELSE IF op = "neg" THEN <<-r[2], -r[1]>> ELSE <<0, 1>>

\* Each further argument is combined with the bounds so far; the left hand side
\* is the arguments before it.
bcheckExprAssociativeOp(G, F, op, args) ==
    FoldLeftDomain(LAMBDA acc, i : IF i = 1 THEN bcheckExpr(G, F, args[1])
                                   ELSE bcheckExprBinaryOp1(G, F, op, <<"assoc", op, SubSeq(args, 1, i - 1)>>, acc,
                                                            args[i], bcheckExpr(G, F, args[i])),
                   Nil, args)

bcheckExpr1(G, F, n) ==
    CASE ConstValue(n) # Nil -> <<ConstValue(n)[1], ConstValue(n)[1]>>
      [] n[1] = "id" -> bcheckTypeExpr(MType(G, n))
      [] n[1] \in {"neg", "not"} -> bcheckExprUnaryOp(n[1], bcheckExpr(G, F, n[2]))
      [] n[1] = "as" -> bcheckExpr(G, F, n[2])
      [] n[1] \in BinaryOps -> bcheckExprBinaryOp1(G, F, n[1], n[2], bcheckExpr(G, F, n[2]), n[3], bcheckExpr(G, F, n[3]))
      [] n[1] = "assoc" -> bcheckExprAssociativeOp(G, F, n[2], n[3])
      [] n[1] = "dot" -> IF n[2] # <<"id", "in">> /\ bcheckExpr(G, F, n[2]) = Err THEN Err ELSE bcheckTypeExpr(MType(G, n))
      [] n[1] = "call" -> bcheckExprCall(G, F, n)
      [] n[1] = "index" -> bcheckIndex(G, F, n)
      [] n[1] = "slice" -> bcheckSlice(G, F, n)

bcheckExpr(G, F, n) ==
    LET b == refine(F, n, bcheckExpr1(G, F, n))
    IN  IF b # Err /\ Within(b, bcheckTypeExpr(MType(G, n))) THEN b ELSE Err

\* proveBinaryOp: by the bounds, when one side is a constant, or by the first
\* fact about lhs that decides it.
proveBinaryOp(G, F, op, lhs, rhs) ==
    LET lcv == ConstValue(lhs)  rcv == ConstValue(rhs)
        l == bcheckExpr(G, F, lhs)  r == bcheckExpr(G, F, rhs)
        implies(x) == opImpliesOp(x[1], op) /\ Eq(x[3], rhs)
        decides(x) == x[1] = "==" /\ rcv # Nil /\ ConstValue(x[3]) # Nil
        about == {i \in DOMAIN F : IsBinaryOp(F[i]) /\ Eq(F[i][2], lhs) /\ (implies(F[i]) \/ decides(F[i]))}
    IN  CASE lcv # Nil /\ r = Err -> FALSE
          [] lcv # Nil /\ proveBinaryOpConstValues(op, l, r) -> TRUE
          [] rcv # Nil /\ l = Err -> FALSE
          [] rcv # Nil /\ proveBinaryOpConstValues(op, l, r) -> TRUE
          [] about = {} -> FALSE
          [] OTHER -> LET x == F[Min(about)]
                      IN  implies(x) \/ evalConstValueBinaryOp(op, ConstValue(x[3])[1], rcv[1]) = <<1>>

----------------------------------------------------------------------------
(* The reasons of data.go: an assertion of the shape of the claim follows  *)
(* from the requirements, with the letters that the claim does not bind    *)
(* given as arguments of the assertion.                                    *)

V(x) == <<"id", x>>
StrictReasons ==
    ("a < b: b > a" :> <<<<"<", V("a"), V("b")>>, <<<<">", V("b"), V("a")>>>>>>) @@
    ("a < b: a < c; c < b" :> <<<<"<", V("a"), V("b")>>, <<<<"<", V("a"), V("c")>>, <<"<", V("c"), V("b")>>>>>>) @@
    ("a < b: a < c; c == b" :> <<<<"<", V("a"), V("b")>>, <<<<"<", V("a"), V("c")>>, <<"==", V("c"), V("b")>>>>>>) @@
    ("a < b: a == c; c < b" :> <<<<"<", V("a"), V("b")>>, <<<<"==", V("a"), V("c")>>, <<"<", V("c"), V("b")>>>>>>) @@
    ("a < b: a < c; c <= b" :> <<<<"<", V("a"), V("b")>>, <<<<"<", V("a"), V("c")>>, <<"<=", V("c"), V("b")>>>>>>) @@
    ("a < b: a <= c; c < b" :> <<<<"<", V("a"), V("b")>>, <<<<"<=", V("a"), V("c")>>, <<"<", V("c"), V("b")>>>>>>)
WeakReasons ==
    ("a <= b: b >= a" :> <<<<"<=", V("a"), V("b")>>, <<<<">=", V("b"), V("a")>>>>>>) @@
    ("a <= b: a <= c; c <= b" :> <<<<"<=", V("a"), V("b")>>, <<<<"<=", V("a"), V("c")>>, <<"<=", V("c"), V("b")>>>>>>) @@
    ("a <= b: a <= c; c == b" :> <<<<"<=", V("a"), V("b")>>, <<<<"<=", V("a"), V("c")>>, <<"==", V("c"), V("b")>>>>>>) @@
    ("a <= b: a == c; c <= b" :> <<<<"<=", V("a"), V("b")>>, <<<<"==", V("a"), V("c")>>, <<"<=", V("c"), V("b")>>>>>>)
SumReasons ==
    ("a < (b + c): a < c; 0 <= b" :>
        <<<<"<", V("a"), <<"+", V("b"), V("c")>>>>, <<<<"<", V("a"), V("c")>>, <<"<=", Num(0), V("b")>>>>>>) @@
    ("a < (b + c): a < (b0 + c0); b0 <= b; c0 <= c" :>
        <<<<"<", V("a"), <<"+", V("b"), V("c")>>>>,
          <<<<"<", V("a"), <<"+", V("b0"), V("c0")>>>>, <<"<=", V("b0"), V("b")>>, <<"<=", V("c0"), V("c")>>>>>>) @@
    ("(a + b) <= c: a <= (c - b)" :>
        <<<<"<=", <<"+", V("a"), V("b")>>, V("c")>>, <<<<"<=", V("a"), <<"-", V("c"), V("b")>>>>>>>>)
Reasons == StrictReasons @@ WeakReasons @@ SumReasons

\* The code gen.go generates for a claim: take n apart along the pattern.
RECURSIVE Matches(_, _), Bind(_, _), Subst(_, _)
Matches(pat, n) == pat[1] = "id" \/ (n[1] = pat[1] /\ Matches(pat[2], n[2]) /\ Matches(pat[3], n[3]))
Bind(pat, n) == IF pat[1] = "id" THEN pat[2] :> n ELSE Bind(pat[2], n[2]) @@ Bind(pat[3], n[3])
Subst(pat, b) == CASE pat[1] = "id" -> b[pat[2]]
                   [] pat[1] = "num" -> pat
                   [] OTHER -> <<pat[1], Subst(pat[2], b), Subst(pat[3], b)>>

RECURSIVE Letters(_)
Letters(pat) == CASE pat[1] = "id" -> {pat[2]} [] pat[1] = "num" -> {} [] OTHER -> Letters(pat[2]) \cup Letters(pat[3])

proveReason(G, F, reason, cond, args) ==
    LET claim == Reasons[reason][1]  reqs == Reasons[reason][2]
        given == FoldLeft(LAMBDA acc, a : acc @@ (a[1] :> a[2]), <<>>, args)
        b == Bind(claim, cond) @@ given
    IN  /\ reason \in DOMAIN Reasons
        /\ Matches(claim, cond)
        /\ \A i \in DOMAIN reqs : /\ Letters(reqs[i]) \subseteq DOMAIN b
                                  /\ LET q == Subst(reqs[i], b) IN proveBinaryOp(G, F, q[1], q[2], q[3])

----------------------------------------------------------------------------
(* Calls that need no check at run time (optimize.go). *)

ioMethodAdvances == [m \in {"read_u8", "write_u8"} |-> 1] @@ [m \in {"read_u16be"} |-> 2]

IsCall(n, m) == n[1] = "call" /\ n[3] = m
Mark(n, how) == <<"call", n[2], n[3], n[4], n[5], how>>

\* A fact says that the buffer b is marked.
Marked(F, b) == \E i \in DOMAIN F : IsCall(F[i], "is_marked") /\ Eq(F[i][2], b)

\* optimizeCopyFromHistory32: the buffer is marked, 0 < distance,
\* (distance as u64) <= since_mark().length() and (length as u64) <= available().
optimizeCopyFromHistory32(F, b, d, l) ==
    LET asU64(e, x) == x[1] = "as" /\ Eq(x[2], e) /\ x[3] = U64
    IN  /\ Marked(F, b)
        /\ \E i \in DOMAIN F : F[i][1] = ">" /\ Eq(F[i][2], d) /\ ConstValue(F[i][3]) = <<0>>
        /\ \E i \in DOMAIN F : /\ F[i][1] = "<=" /\ asU64(d, F[i][2])
                               /\ IsCall(F[i][3], "length") /\ IsCall(F[i][3][2], "since_mark") /\ Eq(F[i][3][2][2], b)
        /\ \E i \in DOMAIN F : F[i][1] = "<=" /\ asU64(l, F[i][2]) /\ IsCall(F[i][3], "available") /\ Eq(F[i][3][2], b)

optimizeNonSuspendible(F, n) ==
    IF \/ IsCall(n, "since_mark") /\ Marked(F, n[2])
       \/ IsCall(n, "copy_from_history32") /\ optimizeCopyFromHistory32(F, n[2], n[4][1], n[4][2])
    THEN Mark(n, "optimized") ELSE n

\* optimizeIOMethodAdvance: what the fact x says of the bytes available to
\* recv, as a lower bound, or Nil.
AvailableAtLeast(x, recv) ==
    IF x[1] \in {">=", ">"} /\ ConstValue(x[3]) # Nil /\ IsCall(x[2], "available") /\ Eq(x[2][2], recv)
    THEN <<ConstValue(x[3])[1] + Bit(x[1] = ">")>> ELSE Nil

(* Variant: the facts still count the bytes that the call consumes. *)
optimizeIOMethodKeep(F, n, advance) ==
    [facts |-> F,
     e |-> IF \E i \in DOMAIN F : AvailableAtLeast(F[i], n[2]) # Nil /\ AvailableAtLeast(F[i], n[2])[1] >= advance
           THEN Mark(n, "proven") ELSE n]

optimizeIOMethodAdvance(F, n, advance) ==
    LET least(x) == AvailableAtLeast(x, n[2])
        kept == SelectSeq(F, LAMBDA x : least(x) = Nil \/ least(x)[1] >= advance)
    IN  [facts |-> [i \in DOMAIN kept |-> IF least(kept[i]) = Nil THEN kept[i]
                                          ELSE <<">=", kept[i][2], Num(least(kept[i])[1] - advance)>>],
         e |-> IF \E i \in DOMAIN F : least(F[i]) # Nil /\ least(F[i])[1] >= advance THEN Mark(n, "proven") ELSE n]

RECURSIVE optimizeSuspendible(_, _)
optimizeSuspendible(F, n) ==
    CASE CallSuspendible(n) ->
            IF n[3] = "unread_u8" THEN [facts |-> F, e |-> Mark(n, "proven")]
            ELSE IF n[3] \in DOMAIN ioMethodAdvances THEN optimizeIOMethodAdvance(F, n, ioMethodAdvances[n[3]])
            ELSE [facts |-> F, e |-> n]
      [] n[1] = "as" -> LET r == optimizeSuspendible(F, n[2]) IN [facts |-> r.facts, e |-> <<"as", r.e, n[3]>>]
      [] IsBinaryOp(n) -> LET l == optimizeSuspendible(F, n[2])
                              r == optimizeSuspendible(l.facts, n[3])
                          IN  [facts |-> r.facts, e |-> <<n[1], l.e, r.e>>]
      [] OTHER -> [facts |-> F, e |-> n]

----------------------------------------------------------------------------
(* Statements. *)

Done(F, s) == [ok |-> TRUE, facts |-> F, s |-> s]
Fail == [ok |-> FALSE, facts |-> <<>>, s |-> <<"ret", "return">>]

\* facts.update with a function that drops the facts that mention one of es.
Drop(F, es) == SelectSeq(F, LAMBDA x : \A e \in es : ~Mentions(x, e))

bcheckAssert(G, F, cond, reason, args) ==
    IF \E i \in DOMAIN F : Eq(F[i], cond) THEN Done(F, Nil)
    ELSE IF CASE ConstValue(cond) # Nil -> ConstValue(cond) = <<1>>
              [] reason # "" -> proveReason(G, F, reason, cond, args)
              [] IsBinaryOp(cond) -> proveBinaryOp(G, F, cond[1], cond[2], cond[3])
              [] OTHER -> FALSE
         THEN Done(appendFact(F, simplify(cond)), Nil) ELSE Fail

\* All the asserts of a loop except those of one kind.
bcheckAsserts(G, F, asserts, skip) ==
    FoldLeft(LAMBDA acc, o : IF o[1] = skip \/ ~acc.ok THEN acc ELSE bcheckAssert(G, acc.facts, o[2], o[3], o[4]),
             Done(F, Nil), asserts)
Assume(asserts, skip) == FoldLeft(LAMBDA acc, o : IF o[1] = skip THEN acc ELSE appendFact(acc, o[2]), <<>>, asserts)

BinaryForm == ("+=" :> "+") @@ ("-=" :> "-") @@ ("*=" :> "*") @@ ("&=" :> "&") @@ ("|=" :> "|") @@ ("^=" :> "^")
              @@ ("<<=" :> "<<") @@ (">>=" :> ">>") @@ ("%=" :> "%") @@ ("~+=" :> "~+")

\* bcheckAssignment1 and bcheckAssignment2: the value fits the left hand side.
bcheckAssignment2(G, F, lhs, op, rhs) ==
    LET lTyp == MType(G, lhs)
        b == bcheckExprBinaryOp1(G, F, BinaryForm[op], lhs, bcheckExpr(G, F, lhs), rhs, bcheckExpr(G, F, rhs))
    IN  \/ lTyp[1] \in {"ptr", "array"}
        \/ /\ bcheckExpr(G, F, lhs) # Err
           /\ IF op = "=" THEN bcheckAssignable(G, F, lTyp, rhs) ELSE b # Err /\ Within(b, bcheckTypeExpr(lTyp))

\* What an assignment does to a fact x: <<x'>> or Nil.
UpdateFact(x, lhs, op, rhs) ==
    CASE op = "=" -> IF Mentions(x, lhs) THEN Nil ELSE <<x>>
      [] ~IsBinaryOp(x) \/ ~Eq(x[2], lhs) -> IF Mentions(x, lhs) THEN Nil ELSE <<x>>
      [] Mentions(x[3], lhs) -> Nil
      [] op \in {"+=", "-="} -> <<<<x[1], x[2], simplify(<<BinaryForm[op], x[3], rhs>>)>>>>
      [] OTHER -> Nil

bcheckAssignment(G, F, lhs, op, rhs) ==
    LET updated == FoldLeft(LAMBDA acc, x : acc \o UpdateFact(x, lhs, op, rhs), <<>>, F)
        known == IF op = "=" /\ Pure(lhs) /\ Pure(rhs) /\ IsNumType(MType(G, lhs))
                 THEN appendFact(updated, <<"==", lhs, rhs>>) ELSE updated
        opt == IF Suspendible(rhs) THEN optimizeSuspendible(known, rhs)
               ELSE [facts |-> known, e |-> optimizeNonSuspendible(F, rhs)]
    IN  IF bcheckAssignment2(G, F, lhs, op, rhs) THEN Done(opt.facts, <<"assign", op, lhs, opt.e>>) ELSE Fail

\* bcheckVar: "var x T" has an implicit "= 0".
bcheckVar(G, F, name, typ, value) ==
    IF ~typeBounds(Innermost(typ)) THEN Fail
    ELSE bcheckAssignment(G, F, V(name), "=", IF value = Nil THEN Num(0) ELSE value)

\* terminates: the last statement leaves the block.
RECURSIVE terminates(_)
terminates(body) ==
    body # <<>> /\ LET n == Last(body)
                   IN  \/ n[1] = "if" /\ n[3] # <<>> /\ terminates(n[3]) /\ \A i \in DOMAIN n[2] : terminates(n[2][i][2])
                       \/ n[1] = "jump"
                       \/ n[1] = "ret" /\ n[2] = "return"

(* Variant: the facts of the first branch survive. *)
unifyFirst(branches) == IF branches = <<>> THEN <<>> ELSE branches[1]

\* unify: a fact survives when it occurs as often, over all the branches, as
\* there are branches.
unify(branches) ==
    LET all == FlattenSeq(branches)
        count(x) == Cardinality({i \in DOMAIN all : all[i] = x})
    IN  IF Len(branches) <= 1 THEN all ELSE SelectSeq(branches[1], LAMBDA x : count(x) = Len(branches))

RECURSIVE bcheckStatement(_, _, _, _), bcheckBlock(_, _, _, _), bcheckArms(_, _, _, _, _)

\* bcheckBlock: statements after a jump or a return are not checked. A yield
\* gives the caller the chance to change what in, out and this name. loops
\* holds the asserts of the enclosing loops.
bcheckBlock(G, F, block, loops) ==
    LET step(acc, s) ==
            LET r == bcheckStatement(G, acc.facts, s, loops)
                facts == IF s = <<"ret", "yield">> THEN Drop(r.facts, {V("in"), V("out"), V("this")}) ELSE r.facts
            IN  IF acc.end \/ ~acc.ok THEN [acc EXCEPT !.s = Append(@, s)]
                ELSE [ok |-> r.ok, facts |-> facts, s |-> Append(acc.s, r.s),
                      end |-> s[1] = "jump" \/ s = <<"ret", "return">>]
    IN  FoldLeft(step, [ok |-> TRUE, facts |-> F, s |-> <<>>, end |-> FALSE], block)

\* bcheckIf: each arm assumes its condition and the inverses of the earlier
\* ones. branches holds the facts of the arms that do not terminate.
bcheckArms(G, F, arms, else, loops) ==
    LET cond == arms[1][1]
        t == bcheckBlock(G, appendFact(F, cond), arms[1][2], loops)
        rest == appendFact(F, invert(cond))
        more == CASE Len(arms) > 1 -> bcheckArms(G, rest, Tail(arms), else, loops)
                  [] else # <<>> -> LET e == bcheckBlock(G, rest, else, loops)
                                    IN  [ok |-> e.ok, branches |-> IF terminates(else) THEN <<>> ELSE <<e.facts>>,
                                         arms |-> <<>>, else |-> e.s]
                  [] OTHER -> [ok |-> TRUE, branches |-> <<rest>>, arms |-> <<>>, else |-> <<>>]
    IN  IF bcheckExpr(G, F, cond) = Err \/ ~Invertible(cond)
        THEN [ok |-> FALSE, branches |-> <<>>, arms |-> <<>>, else |-> <<>>]
        ELSE [ok |-> t.ok /\ more.ok,
              branches |-> (IF terminates(arms[1][2]) THEN <<>> ELSE <<t.facts>>) \o more.branches,
              arms |-> <<<<cond, t.s>>>> \o more.arms, else |-> more.else]

\* bcheckWhile: pre and inv on entry and on every continue, post on exit; only
\* inv and post are known after the loop.
bcheckWhile(G, F, n, loops) ==
    LET cond == n[3]  asserts == n[4]  cv == ConstValue(cond)
        entry == bcheckAsserts(G, F, asserts, "post")
        exit == FoldLeft(LAMBDA acc, o : IF o[1] # "post" \/ ~acc.ok THEN acc ELSE bcheckAssert(G, acc.facts, o[2], o[3], o[4]),
                         Done(appendFact(Assume(asserts, "post"), invert(cond)), Nil), asserts)
        start == IF cv = Nil THEN appendFact(Assume(asserts, "post"), cond) ELSE Assume(asserts, "post")
        body == bcheckBlock(G, start, n[5], Append(loops, <<n[2], asserts>>))
        again == terminates(n[5]) \/ bcheckAsserts(G, body.facts, asserts, "post").ok
    IN  IF /\ entry.ok /\ bcheckExpr(G, entry.facts, cond) # Err
           /\ cv = <<1>> \/ (Invertible(cond) /\ exit.ok)
           /\ cv = <<0>> \/ (body.ok /\ again)
        THEN Done(Assume(asserts, "pre"), <<"while", n[2], cond, asserts, IF cv = <<0>> THEN n[5] ELSE body.s>>) ELSE Fail

bcheckStatement(G, F, n, loops) ==
    CASE n[1] = "assert" -> [bcheckAssert(G, F, n[2], n[3], n[4]) EXCEPT !.s = n]
      [] n[1] = "assign" -> bcheckAssignment(G, F, n[3], n[2], n[4])
      [] n[1] = "var" -> bcheckVar(G, F, n[2], n[3], n[4])
      [] n[1] = "expr" -> LET opt == IF Suspendible(n[2]) THEN optimizeSuspendible(F, n[2])
                                     ELSE [facts |-> F, e |-> optimizeNonSuspendible(F, n[2])]
                          IN  IF bcheckExpr(G, F, n[2]) = Err THEN Fail ELSE Done(opt.facts, <<"expr", opt.e>>)
      [] n[1] = "if" -> LET r == bcheckArms(G, F, n[2], n[3], loops)
                        IN  IF r.ok THEN Done(unify(r.branches), <<"if", r.arms, r.else>>) ELSE Fail
      [] n[1] = "while" -> bcheckWhile(G, F, n, loops)
      [] n[1] = "jump" -> LET w == IF n[3] = "" THEN Last(loops) ELSE Last(SelectSeq(loops, LAMBDA l : l[1] = n[3]))
                          IN  [bcheckAsserts(G, F, w[2], IF n[2] = "break" THEN "pre" ELSE "post")
                                  EXCEPT !.s = n, !.facts = <<>>]
      [] n[1] = "ret" -> Done(F, n)
=============================================================================
