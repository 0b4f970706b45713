----------------------------- MODULE TypeCheck -----------------------------
(***************************************************************************)
(* The type checker of lang/check/type.go. MType(G, n) is the type that    *)
(* tcheckExpr gives the expression n under the local variables G, or Err   *)
(* where tcheckExpr returns an error; the statements of a body are checked *)
(* after the variables of every nested block have been hoisted.            *)
(*                                                                         *)
(* Statements are tagged tuples:                                           *)
(*   <<"var", name, type, value or Nil>>    <<"assign", op, lhs, rhs>>     *)
(*   <<"expr", e>>     <<"assert", cond, reason, args>>                    *)
(*   <<"if", arms, else>>            arms a sequence of <<cond, body>>     *)
(*   <<"while", label, cond, asserts, body>>                               *)
(*   <<"jump", "break" or "continue", label or "">>                        *)
(*   <<"ret", "return" or "yield">>                                        *)
(* An assert of a loop is <<"pre", "inv" or "post", cond, reason, args>>,  *)
(* with args a sequence of <<name, expression>>.                           *)
(*                                                                         *)
(* Structs maps a struct's name to the types of its fields, and Funcs a    *)
(* receiver and a name to a signature, for the package's own functions.    *)
(***************************************************************************)
EXTENDS Ast, TLC

CONSTANTS Structs, Funcs

Err == <<"error">>

Sig(ins, out, eff) == [in |-> ins, out |-> out, eff |-> eff]

\* builtin.Funcs and builtin.SliceFuncs: the methods of the built-in types.
BuiltIns(recv, m) ==
    CASE recv[1] = "int" /\ m \in {"low_bits", "high_bits"} -> <<Sig(<<U32>>, Unrefined(recv), "")>>
      [] recv = Status /\ m \in {"is_error", "is_ok", "is_suspension"} -> <<Sig(<<>>, Bool, "")>>
      [] recv[1] = "reader1" /\ m = "read_u8" -> <<Sig(<<>>, U8, "?")>>
      [] recv[1] = "reader1" /\ m = "read_u16be" -> <<Sig(<<>>, IntType("u16"), "?")>>
      [] recv[1] = "reader1" /\ m \in {"unread_u8", "skip32"} -> <<Sig(IF m = "skip32" THEN <<U32>> ELSE <<>>, Unit, "?")>>
      [] recv[1] = "writer1" /\ m = "write_u8" -> <<Sig(<<U8>>, Unit, "?")>>
      [] recv[1] = "writer1" /\ m = "copy_from_history32" -> <<Sig(<<U32, U32>>, U32, "")>>
      [] recv[1] \in {"reader1", "writer1"} /\ m = "available" -> <<Sig(<<>>, U64, "")>>
      [] recv[1] \in {"reader1", "writer1"} /\ m = "is_marked" -> <<Sig(<<>>, Bool, "")>>
      [] recv[1] \in {"reader1", "writer1"} /\ m = "mark" -> <<Sig(<<>>, Unit, "")>>
      [] recv[1] \in {"reader1", "writer1"} /\ m = "since_mark" -> <<Sig(<<>>, <<"slice", U8>>, "")>>
      [] recv[1] = "slice" /\ m = "length" -> <<Sig(<<>>, U64, "")>>
      [] recv[1] = "slice" /\ m \in {"prefix", "suffix"} -> <<Sig(<<U64>>, Generic, "")>>
      [] recv[1] = "slice" /\ m = "copy_from_slice" -> <<Sig(<<Generic>>, U64, "")>>
      [] OTHER -> Nil

\* resolveFunc: a slice has only the generic methods, any other receiver the
\* built-in ones and then the package's own.
resolveFunc(recv, m) ==
    IF BuiltIns(recv, m) # Nil THEN BuiltIns(recv, m)
    ELSE IF recv[1] = "struct" /\ <<recv[2], m>> \in DOMAIN Funcs THEN <<Funcs[<<recv[2], m>>]>>
    ELSE Nil

\* tcheckEq: whether a value of type rTyp may be assigned to lTyp.
tcheckEq(lTyp, rTyp) == (rTyp = Ideal /\ IsNumType(lTyp)) \/ EqIgnoringRefinements(lTyp, rTyp)

\* tcheckExprBinaryOp, without "as".
tcheckExprBinaryOp(op, lTyp, rTyp) ==
    LET operands == CASE op \in {"!=", "=="} -> TRUE
                      [] op \in LogicOps -> lTyp = Bool /\ rTyp = Bool
                      [] OTHER -> IsNumTypeOrIdeal(lTyp) /\ IsNumTypeOrIdeal(rTyp)
        compatible == IF op \in ShiftOps THEN ~(lTyp = Ideal /\ rTyp # Ideal)
                      ELSE EqIgnoringRefinements(lTyp, rTyp) \/ lTyp = Ideal \/ rTyp = Ideal
        typ == IF lTyp # Ideal THEN Unrefined(lTyp) ELSE Unrefined(rTyp)
    IN  IF lTyp = Err \/ rTyp = Err \/ ~operands \/ ~compatible \/ (op = "~+" /\ ~IsUnsignedInteger(typ)) THEN Err
        ELSE IF op \in CompareOps THEN Bool ELSE typ

\* tcheckExprAssociativeOp, on the types of the arguments. Of ideal numbers
\* alone it has the type but not the value of a constant, which the last walk
\* of checkFuncBody refuses.
tcheckExprAssociativeOp(op, typs) ==
    LET sized == {i \in DOMAIN typs : typs[i] # Ideal}
    IN  IF op \in LogicOps THEN IF \A i \in DOMAIN typs : typs[i] = Bool THEN Bool ELSE Err
        ELSE IF \E i, j \in sized : ~IsNumType(typs[i]) \/ ~EqIgnoringRefinements(typs[i], typs[j]) THEN Err
        ELSE IF sized = {} THEN Err ELSE Unrefined(typs[CHOOSE i \in sized : \A j \in sized : i <= j])

\* tcheckExprCall: effect and arguments must match the signature. A generic
\* slice method takes and returns the type of its receiver.
tcheckExprCall(recv, m, argTyps, eff) ==
    LET f == resolveFunc(recv, m)
        actual(typ) == IF typ = Generic THEN recv ELSE typ
    IN  IF f = Nil \/ recv = Err THEN Err
        ELSE IF f[1].eff # eff \/ Len(f[1].in) # Len(argTyps) THEN Err
        ELSE IF \E i \in DOMAIN argTyps : ~tcheckEq(actual(f[1].in[i]), argTyps[i]) THEN Err
        ELSE actual(f[1].out)

tcheckExprUnaryOp(op, typ) ==
    CASE op = "neg" /\ IsNumTypeOrIdeal(typ) -> Unrefined(typ)
      [] op = "not" /\ typ = Bool -> Bool
      [] OTHER -> Err

\* tcheckDot: a field of a struct, or of the struct a pointer points to.
tcheckDot(typ, f) ==
    IF Pointee(typ)[1] # "struct" THEN Err
    ELSE IF Pointee(typ)[2] \notin DOMAIN Structs THEN Err
    ELSE IF f \notin DOMAIN Structs[Pointee(typ)[2]] THEN Err
    ELSE Structs[Pointee(typ)[2]][f]

\* tcheckExprOther for an index (s[i]) and for a slice (s[i:j]).
tcheckIndex(sTyp, iTyp) == IF sTyp[1] \in {"array", "slice"} /\ IsNumTypeOrIdeal(iTyp) THEN Inner(sTyp) ELSE Err
tcheckSlice(sTyp, bounds) ==
    IF sTyp[1] \in {"array", "slice"} /\ \A b \in bounds : IsNumTypeOrIdeal(b) THEN <<"slice", Inner(sTyp)>> ELSE Err

\* tcheckExpr, with the rest of tcheckExprOther.
RECURSIVE MType(_, _)
MType(G, n) ==
    LET T(k) == MType(G, n[k])
    IN  CASE n[1] = "num" -> Ideal
          [] n[1] = "bool" -> Bool
          [] n[1] = "id" -> IF n[2] \in DOMAIN G THEN G[n[2]] ELSE Err
          [] n[1] \in {"neg", "not"} -> tcheckExprUnaryOp(n[1], T(2))
          [] n[1] = "as" -> IF IsNumTypeOrIdeal(T(2)) /\ IsNumType(n[3]) THEN n[3] ELSE Err
          [] n[1] = "index" -> tcheckIndex(T(2), T(3))
          [] n[1] = "slice" -> tcheckSlice(T(2), {T(k) : k \in {i \in {3, 4} : n[i] # Nil}})
          [] n[1] = "dot" -> tcheckDot(T(2), n[3])
          [] n[1] = "call" -> tcheckExprCall(Pointee(T(2)), n[3], [i \in DOMAIN n[4] |-> MType(G, n[4][i])], n[5])
          [] n[1] = "assoc" -> tcheckExprAssociativeOp(n[2], [i \in DOMAIN n[3] |-> MType(G, n[3][i])])
          [] n[1] \in BinaryOps ->
                IF ConstValue(n[2]) # Nil /\ ConstValue(n[3]) # Nil /\ ConstValue(n) = Nil THEN Err
                ELSE tcheckExprBinaryOp(n[1], T(2), T(3))

\* tcheckTypeExpr: a refinement is constant by its form here, and a name must
\* be a built-in type or a struct.
RECURSIVE tcheckTypeExpr(_)
tcheckTypeExpr(t) ==
    CASE t[1] \in {"array", "slice", "ptr"} -> tcheckTypeExpr(Inner(t))
      [] t[1] = "struct" -> t[2] \in DOMAIN Structs
      [] OTHER -> t[1] \in {"int", "boolean", "status", "reader1", "writer1"}

----------------------------------------------------------------------------
(* Statements. *)

\* The blocks nested directly in a statement.
Blocks(s) ==
    CASE s[1] = "if" -> [i \in DOMAIN s[2] |-> s[2][i][2]] \o <<s[3]>>
      [] s[1] = "while" -> <<s[5]>>
      [] OTHER -> <<>>

\* tcheckVars: every variable of the body, whatever block declares it, in the
\* order of their declarations. Duplicates are an error.
RECURSIVE Vars(_)
Vars(block) ==
    FoldLeft(LAMBDA acc, s : acc \o IF s[1] = "var" THEN <<s>>
                                    ELSE FoldLeft(LAMBDA vs, b : vs \o Vars(b), <<>>, Blocks(s)),
             <<>>, block)

tcheckVars(vs) == /\ \A i, j \in DOMAIN vs : i # j => vs[i][2] # vs[j][2]
                  /\ \A i \in DOMAIN vs : tcheckTypeExpr(vs[i][3])

\* The local variables in scope: the hoisted ones, in, out and this.
LocalVars(body, implicit) == FoldLeft(LAMBDA acc, s : acc @@ (s[2] :> s[3]), implicit, Vars(body))

tcheckAssert(G, cond, args) == /\ MType(G, cond) = Bool
                               /\ \A i \in DOMAIN args : MType(G, args[i][2]) # Err

tcheckAssign(G, op, lhs, rhs) ==
    LET lTyp == MType(G, lhs)  rTyp == MType(G, rhs)
    IN  /\ lTyp # Err /\ rTyp # Err
        /\ \/ op = "=" /\ tcheckEq(lTyp, rTyp)
           \/ op # "=" /\ IsNumType(lTyp) /\ \/ op \in {"<<=", ">>="} /\ IsNumTypeOrIdeal(rTyp)
                                             \/ op \notin {"<<=", ">>="} /\ (rTyp = Ideal \/ EqIgnoringRefinements(lTyp, rTyp))
                          /\ (op = "~+=" => IsUnsignedInteger(lTyp))

\* tcheckStatement and tcheckLoop; targets holds the labels of the enclosing
\* loops, innermost last.
RECURSIVE tcheckStatement(_, _, _)
tcheckStatement(G, targets, s) ==
    LET Body(block, tgts) == \A i \in DOMAIN block : tcheckStatement(G, tgts, block[i])
    IN  CASE s[1] = "assert" -> tcheckAssert(G, s[2], s[4])
          [] s[1] = "assign" -> tcheckAssign(G, s[2], s[3], s[4])
          [] s[1] = "expr" -> MType(G, s[2]) # Err
          [] s[1] = "var" -> s[4] = Nil \/ (MType(G, s[4]) # Err /\ tcheckEq(s[3], MType(G, s[4])))
          [] s[1] = "if" -> /\ \A i \in DOMAIN s[2] : MType(G, s[2][i][1]) = Bool /\ Body(s[2][i][2], targets)
                            /\ Body(s[3], targets)
          [] s[1] = "while" -> /\ MType(G, s[3]) = Bool
                               /\ \A i \in DOMAIN s[4] : tcheckAssert(G, s[4][i][2], s[4][i][4])
                               /\ Body(s[5], Append(targets, s[2]))
          [] s[1] = "jump" -> IF s[3] # "" THEN s[3] \in Range(targets) ELSE targets # <<>>
          [] s[1] = "ret" -> TRUE

\* checkFuncBody, up to the bounds check.
tcheckBody(body, implicit) ==
    /\ tcheckVars(Vars(body))
    /\ \A i \in DOMAIN body : tcheckStatement(LocalVars(body, implicit), <<>>, body[i])
=============================================================================
