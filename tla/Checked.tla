------------------------------ MODULE Checked ------------------------------
(***************************************************************************)
(* A function body goes through the checker (checkFuncBody: types, then    *)
(* bounds), and an accepted one is run as the generated C runs it: without *)
(* any check that the checker has proved away. The state machine runs the  *)
(* body on every argument, every input byte and every way in which the     *)
(* caller may hand over its buffers and change them while the function is  *)
(* suspended.                                                              *)
(*                                                                         *)
(* mem holds the variables, arguments and fields, each under the           *)
(* expression that names it. todo is the rest of the body: a loop leaves   *)
(* <<"loop", while>> behind its body. wrong collects what the checker      *)
(* should have excluded.                                                   *)
(***************************************************************************)
EXTENDS Bounds

CONSTANTS Programs,      \* the function bodies
          Compiled,      \* what the checker makes of each of them
          Implicit,      \* types of in, out and this
          Inputs,        \* the initial contents of mem, a set of functions
          Src,           \* the numbers of bytes the caller may offer for reading
          Dst            \* the output buffers: room, bytes since the mark, marked

VARIABLES prog, phase, types, todo, mem, src, dst, wrong
vars == <<prog, phase, types, todo, mem, src, dst, wrong>>

In(f) == <<"dot", V("in"), f>>
This(f) == <<"dot", V("this"), f>>

RECURSIVE Eval(_)
Eval(n) ==
    CASE n[1] \in {"num", "bool"} -> n[2]
      [] n \in DOMAIN mem -> mem[n]
      [] n[1] = "neg" -> -Eval(n[2])
      [] n[1] = "not" -> 1 - Eval(n[2])
      [] n[1] = "as" -> Eval(n[2])
      [] n[1] = "assoc" -> FoldLeft(LAMBDA acc, a : evalConstValueBinaryOp(n[2], acc, Eval(a))[1],
                                    IF n[2] = "and" THEN 1 ELSE 0, n[3])
      [] n[1] = "index" -> Eval(n[2])[Eval(n[3]) + 1]
      [] IsCall(n, "available") -> IF n[2] = In("src") THEN src ELSE dst.room
      [] IsCall(n, "is_marked") -> Bit(dst.marked)
      [] IsCall(n, "since_mark") -> [i \in 1..dst.since |-> 0]
      [] IsCall(n, "length") -> Len(Eval(n[2]))
      [] IsCall(n, "low_bits") -> Eval(n[2]) % 2^Eval(n[4][1])
      [] n[1] = "~+" -> (Eval(n[2]) + Eval(n[3])) % (bcheckTypeExpr(MType(types, n))[2] + 1)
      [] OTHER -> evalConstValueBinaryOp(n[1], Eval(n[2]), Eval(n[3]))[1]

\* Whether v is a value of the type t.
Fits(v, t) == bcheckTypeExpr(t) = Nil \/ v \in bcheckTypeExpr(t)[1]..bcheckTypeExpr(t)[2]

\* What goes wrong when n is computed: an index out of range or a value that
\* does not fit its type.
RECURSIVE Faults(_)
Faults(n) ==
    LET below == UNION {Faults(Kids(n)[i]) : i \in DOMAIN Kids(n)}
    IN  IF below # {} \/ Suspendible(n) THEN below
        ELSE CASE n[1] = "index" -> IF Eval(n[3]) \in 0..(Len(Eval(n[2])) - 1) THEN {} ELSE {"index"}
               [] n[1] \in {"id", "dot", "slice"} \/ IsCall(n, "since_mark") \/ IsCall(n, "copy_from_history32") -> {}
               [] OTHER -> IF Fits(Eval(n), MType(types, n)) THEN {} ELSE {"overflow"}

Store(lhs, v) == mem' = IF lhs[1] = "index" THEN [mem EXCEPT ![lhs[2]][Eval(lhs[3]) + 1] = v] ELSE (lhs :> v) @@ mem

Fault(f) == wrong' = wrong \cup f

----------------------------------------------------------------------------

Init == /\ prog \in Programs
        /\ phase = "source" /\ types = <<>> /\ todo = <<>> /\ wrong = {}
        /\ mem = <<>> /\ src = 0 /\ dst = [room |-> 0, since |-> 0, marked |-> FALSE]

\* checkFuncBody: the marked body is what is compiled.
checkFuncBody(body) == IF tcheckBody(body, Implicit) THEN bcheckBlock(LocalVars(body, Implicit), <<>>, body, <<>>) ELSE Fail

\* The checker is a function of the body, so its results are constants.
ASSUME CompiledAssumption == Compiled = [body \in Programs |-> checkFuncBody(body)]

Check ==
    LET r == Compiled[prog]
    IN  /\ phase = "source"
        /\ IF r.ok THEN /\ phase' = "running" /\ types' = LocalVars(prog, Implicit)
                        /\ todo' = r.s /\ mem' \in Inputs
           ELSE phase' = "rejected" /\ UNCHANGED <<types, todo, mem>>
        /\ UNCHANGED <<prog, src, dst, wrong>>

Running(kind) == phase = "running" /\ todo # <<>> /\ Head(todo)[1] = kind
Continue(rest) == todo' = rest /\ UNCHANGED <<prog, phase, types>>
S == Head(todo)

\* The call in n that reads, and n with the byte it read in its place.
RECURSIVE ReadCall(_), Filled(_, _)
ReadCall(n) == CASE CallSuspendible(n) -> n
                 [] n[1] \in BinaryOps -> IF Suspendible(n[2]) THEN ReadCall(n[2]) ELSE ReadCall(n[3])
                 [] OTHER -> ReadCall(n[2])
Filled(n, v) == CASE ~Suspendible(n) -> n
                  [] CallSuspendible(n) -> Num(v)
                  [] n[1] = "as" -> <<"as", Filled(n[2], v), n[3]>>
                  [] OTHER -> <<n[1], Filled(n[2], v), Filled(n[3], v)>>

\* lhs op rhs.
Update(lhs, op, rhs) ==
    LET n == IF op = "=" THEN rhs ELSE <<BinaryForm[op], lhs, rhs>>
        f == Faults(n) \cup Faults(lhs)
    IN  IF f # {} THEN Fault(f) /\ UNCHANGED mem
        ELSE /\ Fault(IF Fits(Eval(n), MType(types, lhs)) THEN {} ELSE {"overflow"})
             /\ Store(lhs, Eval(n))

\* An assignment without I/O.
Assign ==
    /\ Running("assign") /\ ~Suspendible(S[4]) /\ ~IsCall(S[4], "copy_from_history32")
    /\ Update(S[3], S[2], S[4])
    /\ Continue(Tail(todo)) /\ UNCHANGED <<src, dst>>

\* A call that was proven not to suspend goes ahead without looking, any other
\* only when there is enough.
MayGo(call, have) == Len(call) = 6 \/ have >= ioMethodAdvances[call[3]]
Unchecked(call, have) == IF have < ioMethodAdvances[call[3]] THEN {"unchecked"} ELSE {}

\* x = in.src.read_u8?() and the like.
Read ==
    LET call == ReadCall(S[4])
    IN  /\ Running("assign") /\ Suspendible(S[4]) /\ MayGo(call, src)
        /\ src' = Max({src - ioMethodAdvances[call[3]], 0})
        /\ IF Unchecked(call, src) # {} THEN Fault(Unchecked(call, src)) /\ UNCHANGED mem
           ELSE \E v \in 0..bcheckTypeExpr(MType(types, call))[2] : Update(S[3], S[2], Filled(S[4], v))
        /\ Continue(Tail(todo)) /\ UNCHANGED dst

\* n = in.dst.copy_from_history32(distance:d, length:l). Not optimized, it
\* copies nothing where it cannot.
Copy ==
    LET d == Eval(S[4][4][1])  l == Eval(S[4][4][2])
        sound == dst.marked /\ d > 0 /\ d <= dst.since
        n == IF Len(S[4]) = 6 THEN l ELSE IF sound THEN Min({l, dst.room}) ELSE 0
    IN  /\ Running("assign") /\ IsCall(S[4], "copy_from_history32")
        /\ Fault(IF Len(S[4]) = 6 /\ ~(sound /\ l <= dst.room) THEN {"unchecked"} ELSE {})
        /\ dst' = [dst EXCEPT !.room = Max({@ - n, 0}), !.since = @ + n]
        /\ Store(S[3], n)
        /\ Continue(Tail(todo)) /\ UNCHANGED src

\* A call for its effect: in.dst.mark(), in.dst.write_u8?(x:e).
MarkStmt ==
    /\ Running("expr") /\ S[2][3] = "mark"
    /\ dst' = [dst EXCEPT !.since = 0, !.marked = TRUE]
    /\ Continue(Tail(todo)) /\ UNCHANGED <<mem, src, wrong>>

Write ==
    /\ Running("expr") /\ S[2][3] = "write_u8" /\ MayGo(S[2], dst.room)
    /\ Fault(Unchecked(S[2], dst.room) \cup Faults(S[2][4][1]))
    /\ dst' = [dst EXCEPT !.room = Max({@ - 1, 0}), !.since = @ + 1]
    /\ Continue(Tail(todo)) /\ UNCHANGED <<mem, src>>

AssertStmt ==
    /\ Running("assert")
    /\ Fault(IF Eval(S[2]) = 1 THEN {} ELSE {"assert"})
    /\ Continue(Tail(todo)) /\ UNCHANGED <<mem, src, dst>>

If ==
    LET taken == {i \in DOMAIN S[2] : Eval(S[2][i][1]) = 1}
    IN  /\ Running("if")
        /\ Fault(UNION {Faults(S[2][i][1]) : i \in IF taken = {} THEN DOMAIN S[2] ELSE 1..Min(taken)})
        /\ Continue((IF taken = {} THEN S[3] ELSE S[2][Min(taken)][2]) \o Tail(todo))
        /\ UNCHANGED <<mem, src, dst>>

\* The pre and inv conditions are claimed at every evaluation of the loop's
\* condition, inv and post where the loop is left.
Claims(asserts, skip) == IF \A i \in DOMAIN asserts : asserts[i][1] = skip \/ Eval(asserts[i][2]) = 1 THEN {} ELSE {"assert"}

While ==
    LET w == IF S[1] = "loop" THEN S[2] ELSE S
        again == Eval(w[3]) = 1
    IN  /\ Running("while") \/ Running("loop")
        /\ Fault(Faults(w[3]) \cup Claims(w[4], "post") \cup IF again THEN {} ELSE Claims(w[4], "pre"))
        /\ Continue((IF again THEN w[5] \o <<<<"loop", w>>>> ELSE <<>>) \o Tail(todo))
        /\ UNCHANGED <<mem, src, dst>>

\* Jump to the end of the body of the innermost loop, or of the one named.
Jump ==
    LET i == Min({j \in DOMAIN todo : todo[j][1] = "loop" /\ (S[3] = "" \/ todo[j][2][2] = S[3])})
    IN  /\ Running("jump")
        /\ Fault(IF S[2] = "break" THEN Claims(todo[i][2][4], "pre") ELSE {})
        /\ Continue(SubSeq(todo, IF S[2] = "break" THEN i + 1 ELSE i, Len(todo)))
        /\ UNCHANGED <<mem, src, dst>>

Return ==
    /\ Running("ret") /\ S[2] = "return"
    /\ Continue(<<>>) /\ UNCHANGED <<mem, src, dst, wrong>>

\* The function is suspended by a yield, or waits for input or for room. The
\* caller owns the buffers and may call other methods of the receiver, which
\* assign to its field f. A yield is over when it is resumed, a read or a write
\* is tried again.
Waiting == \/ Running("ret") /\ S[2] = "yield"
           \/ Running("assign") /\ Suspendible(S[4]) /\ ~MayGo(ReadCall(S[4]), src)
           \/ Running("expr") /\ S[2][3] = "write_u8" /\ ~MayGo(S[2], dst.room)
Resume(f) ==
    /\ Waiting
    /\ src' \in Src /\ dst' \in Dst
    /\ \E v \in 0..1 : Store(This(f), v)
    /\ Continue(IF S[1] = "ret" THEN Tail(todo) ELSE todo) /\ UNCHANGED wrong

Next == Check \/ Assign \/ Read \/ Copy \/ MarkStmt \/ Write \/ AssertStmt \/ If \/ While \/ Jump \/ Return \/ Resume("f")

Spec == Init /\ [][Next]_vars

----------------------------------------------------------------------------

\* Every assertion the checker accepts (assert statements, and the pre, inv and
\* post conditions of loops) is true whenever it is reached, whatever path, loop
\* iteration or resumption led there: bcheckAssert only ever proves what holds.
AssertsHold == "assert" \notin wrong

\* No value computed or assigned leaves the bounds of its type: what
\* bcheckExpr derives from types and facts encloses what the code computes.
NoOverflow == "overflow" \notin wrong

\* The generated code indexes arrays and slices without a test; bcheckExprOther
\* has proved every index in range.
IndexInBounds == "index" \notin wrong

\* A read or write marked as proven not to suspend finds its bytes, and a copy
\* from the history marked as bounds check optimized finds the distance and
\* the room: the facts optimize.go relies on still hold when the call runs.
FastCallsAreSafe == "unchecked" \notin wrong
=============================================================================
