----------------------------- MODULE Coroutine -----------------------------
(***************************************************************************)
(* The C code that wuffs-c generates for a suspendible method, and a       *)
(* caller that feeds it piecemeal.                                         *)
(*                                                                         *)
(* Compile(body) is the code generator: it turns the statements of a body  *)
(* (see TypeCheck) into a sequence of instructions, with a suspension      *)
(* point in front of what may suspend. The state machine runs the          *)
(* generated code: decode is the public method, helper a private one that  *)
(* decode calls. A call of a method enters at the suspension point that    *)
(* the receiver remembers, restores its local variables, runs, and leaves  *)
(* through ok, suspend or exit. Everything that is not stored in the       *)
(* receiver is lost: a fresh call finds junk in its variables.             *)
(*                                                                         *)
(* Bytes are absolute positions of the input and the output; a caller who  *)
(* moves the rest of the input to the front of its buffer is not told      *)
(* apart from one who does not. scratch is the uint64_t that collects the  *)
(* bytes of a read_uXX, byte 0 the least significant, or what is left to   *)
(* skip, which is kept in byte 0 alone.                                    *)
(***************************************************************************)
EXTENDS Ast, FiniteSetsExt, TLC

CONSTANTS Programs,      \* records of the bodies of decode and helper
          Streams,       \* for each of them, the set of its inputs
          More,          \* how many bytes of input the caller may add at a time
          Room,          \* how much room the caller may offer for output
          Junk,          \* what an uninitialized variable may hold
          MaxRuns,       \* bound: how often decode is called anew
          MaxInits       \* bound: how often the receiver is initialized

V(x) == <<"id", x>>
This(f) == <<"dot", V("this"), f>>

\* Statuses: errors are negative, suspensions positive.
Ok == 0
ShortRead == 1
ShortWrite == 2
UnexpectedEof == -1
BadArgument == -2
InitializerNotCalled == -3
BadWuffsVersion == -4
CannotReturnASuspension == -5
InvalidIOOperation == -6

----------------------------------------------------------------------------
(* The code generator.                                                     *)

\* The suspendible calls of n, in the order writeCallSuspendibles visits them.
RECURSIVE Calls(_)
Calls(n) == IF CallSuspendible(n) THEN <<n>> ELSE FoldLeft(LAMBDA acc, k : acc \o Calls(k), <<>>, Kids(n))

\* writeExpr with replaceCallSuspendibles: the k-th call is read from the k-th
\* temporary variable.
RECURSIVE WithTemps(_, _)
WithTemps(n, k) ==
    CASE CallSuspendible(n) -> <<"temp", k>>
      [] ~Suspendible(n) -> n
      [] n[1] \in BinaryOps -> <<n[1], WithTemps(n[2], k), WithTemps(n[3], k + Len(Calls(n[2])))>>
      [] n[1] = "as" -> <<"as", WithTemps(n[2], k), n[3]>>

ReadSizes == ("read_u16be" :> 2) @@ ("read_u16le" :> 2) @@ ("read_u32be" :> 4) @@ ("read_u32le" :> 4)
BigEndian == {"read_u16be", "read_u32be"}

\* writeReadUXX: load all the bytes if they are there, else gather them one by
\* one, from a suspension point of its own.
writeReadUXX(m, k) == <<<<"load", m, k>>, <<"point">>, <<"gather", m, k>>>>

\* The code of the call n, whose result goes to the temporary variable k. A call
\* that was proven not to suspend has a sixth component.
writeCallSuspendibles(n, k) ==
    CASE n[3] = "read_u8" -> <<<<"read_u8", k, Len(n) = 6>>>>
      [] n[3] = "unread_u8" -> <<<<"unread_u8">>>>
      [] n[3] \in DOMAIN ReadSizes -> writeReadUXX(n[3], k)
      [] n[3] = "skip32" -> <<<<"scratch", n[4][1]>>, <<"point">>, <<"skip">>>>
      [] n[3] = "write_u8" -> <<<<"write_u8", n[4][1], Len(n) = 6>>>>
      [] n[3] = "helper" -> <<<<"call">>>>
      [] n[3] = "try helper" -> <<<<"try", k>>>>

mightActuallySuspend(n) == \E i \in DOMAIN Calls(n) : Len(Calls(n)[i]) = 5

writeSuspendibles(n) ==
    LET cs == Calls(n)
    IN  (IF mightActuallySuspend(n) THEN <<<<"point">>>> ELSE <<>>)
        \o FoldLeft(LAMBDA code, k : code \o writeCallSuspendibles(cs[k], k), <<>>, [i \in DOMAIN cs |-> i])

\* Jumps are relative. A break or continue stays symbolic until its loop is
\* complete.
Resolve(code, label) ==
    LET n == Len(code)
    IN  [i \in 1..n |-> CASE code[i][1] = "continue" /\ code[i][2] \in {"", label} -> <<"jump", -i>>
                          [] code[i][1] = "break" /\ code[i][2] \in {"", label} -> <<"jump", n + 2 - i>>
                          [] OTHER -> code[i]]

RECURSIVE writeStatement(_), writeBlock(_), writeIf(_, _)
writeBlock(b) == FoldLeft(LAMBDA code, s : code \o writeStatement(s), <<>>, b)

writeIf(arms, else) ==
    IF arms = <<>> THEN writeBlock(else)
    ELSE LET cond == arms[1][1]
             body == writeBlock(arms[1][2])
             rest == writeIf(Tail(arms), else)
         IN  writeSuspendibles(cond) \o <<<<"unless", WithTemps(cond, 1), Len(body) + 2>>>>
             \o body \o <<<<"jump", Len(rest) + 1>>>> \o rest

writeStatement(s) ==
    CASE s[1] = "assert" -> <<>>
      [] s[1] = "var" -> IF s[4] = Nil THEN <<<<"set", "=", V(s[2]), Num(0)>>>>
                         ELSE writeSuspendibles(s[4]) \o <<<<"set", "=", V(s[2]), WithTemps(s[4], 1)>>>>
      [] s[1] = "assign" -> writeSuspendibles(s[4]) \o <<<<"set", s[2], s[3], WithTemps(s[4], 1)>>>>
      [] s[1] = "expr" -> writeSuspendibles(s[2])
      [] s[1] = "if" -> writeIf(s[2], s[3])
      [] s[1] = "while" -> LET body == writeBlock(s[5])
                           IN  <<<<"unless", s[3], Len(body) + 2>>>> \o Resolve(body, s[2]) \o <<<<"jump", -(Len(body) + 1)>>>>
      [] s[1] = "jump" -> <<<<s[2], s[3]>>>>
      [] s[1] = "ret" -> <<<<s[2], s[3]>>>>

\* gatherFuncImpl: the body, and the fall through to ok at its end.
Compile(body) == writeBlock(body) \o <<<<"return", Num(Ok)>>>>

Code == [p \in Programs |-> [f \in DOMAIN p |-> Compile(p[f])]]

\* writeCoroSuspPoint numbers the suspension points from 1 in the order in which
\* they are written; a yield is one too. PointNumber is the number of the one at
\* pc, PointAt where number n is.
IsPoint(instr) == instr[1] \in {"point", "yield"}
PointNumber(code, pc) == Cardinality({i \in 1..pc : IsPoint(code[i])})
(* Variant: the case label comes before the code that suspends. *)
PointAtBefore(code, n) == (CHOOSE pc \in DOMAIN code : IsPoint(code[pc]) /\ PointNumber(code, pc) = n) - 1
PointAt(code, n) == CHOOSE pc \in DOMAIN code : IsPoint(code[pc]) /\ PointNumber(code, pc) = n

\* visitVars: the variables of a body, those of nested blocks included.
RECURSIVE Vars(_)
Vars(block) ==
    UNION {LET s == block[i]
           IN  CASE s[1] = "var" -> {<<s[2], s[3]>>}
                 [] s[1] = "if" -> Vars(s[3]) \cup UNION {Vars(s[2][j][2]) : j \in DOMAIN s[2]}
                 [] s[1] = "while" -> Vars(s[5])
                 [] OTHER -> {} : i \in DOMAIN block}
Locals == [p \in Programs |-> [f \in DOMAIN p |-> Vars(p[f])]]

----------------------------------------------------------------------------
(* Values.                                                                 *)

BinaryForm == ("+=" :> "+") @@ ("-=" :> "-") @@ ("*=" :> "*")

\* The value of n where env gives the variables, fields and temporaries.
RECURSIVE Val(_, _)
Val(n, env) ==
    CASE n \in DOMAIN env -> env[n]
      [] n[1] \in {"num", "bool"} -> n[2]
      [] n[1] = "not" -> 1 - Val(n[2], env)
      [] n[1] = "as" -> Val(n[2], env)
      [] n[1] = "call" -> LET z == Val(n[2], env)
                          IN  Bit(n[3] = IF z < 0 THEN "is_error" ELSE IF z = 0 THEN "is_ok" ELSE "is_suspension")
      [] OTHER -> evalConstValueBinaryOp(n[1], Val(n[2], env), Val(n[3], env))[1]

\* The number that the bytes of s from i to j stand for, i the most significant.
RECURSIVE Number(_, _, _)
Number(s, i, j) == IF i = j THEN s[i] ELSE Number(s, i, IF i < j THEN j - 1 ELSE j + 1) * 256 + s[j]

Load(m, s, at) == LET n == ReadSizes[m] IN IF m \in BigEndian THEN Number(s, at + 1, at + n) ELSE Number(s, at + n, at + 1)

----------------------------------------------------------------------------
(* What a body means: Run executes it on the whole input, with room for    *)
(* everything it writes and without a suspension. A run st has the next    *)
(* input byte, the output, the variables and fields, the value of the last *)
(* suspendible call, and how it goes on: "on", "break", "continue" (to a   *)
(* label) or "done" (with a status).                                       *)

Stop(st, status) == [st EXCEPT !.how = "done", !.status = status]

RECURSIVE Do(_, _, _, _), RunCalls(_, _, _, _), RunStmt(_, _, _, _), RunBlock(_, _, _, _), RunWhile(_, _, _, _)

\* One suspendible call. The input ends for good where the stream does.
Do(p, stream, n, st) ==
    LET take == IF n[3] = "read_u8" THEN 1 ELSE IF n[3] = "skip32" THEN Val(n[4][1], st.env) ELSE ReadSizes[n[3]]
        inner == RunBlock(p, stream, p.helper, [st EXCEPT !.how = "on"])
        back == [inner EXCEPT !.how = "on", !.env = [e \in DOMAIN st.env |-> IF e[1] = "dot" THEN inner.env[e] ELSE st.env[e]]]
        status == IF inner.how = "done" THEN inner.status ELSE Ok
    IN  CASE n[3] = "write_u8" -> [st EXCEPT !.out = Append(@, Val(n[4][1], st.env))]
          [] n[3] = "unread_u8" -> [st EXCEPT !.pos = @ - 1]
          [] n[3] = "helper" -> IF status = Ok THEN back ELSE Stop(back, status)
          [] n[3] = "try helper" -> [back EXCEPT !.val = Append(@, status)]
          [] st.pos + take > Len(stream) -> Stop([st EXCEPT !.pos = Len(stream)], UnexpectedEof)
          [] n[3] = "skip32" -> [st EXCEPT !.pos = @ + take]
          [] n[3] = "read_u8" -> [st EXCEPT !.pos = @ + 1, !.val = Append(@, stream[st.pos + 1])]
          [] OTHER -> [st EXCEPT !.pos = @ + take, !.val = Append(@, Load(n[3], stream, st.pos))]

\* The suspendible calls of an expression, and then its value.
RunCalls(p, stream, n, st) ==
    FoldLeft(LAMBDA acc, c : IF acc.how = "on" THEN Do(p, stream, c, acc) ELSE acc, [st EXCEPT !.val = <<>>], Calls(n))
ValueIn(n, st) == Val(WithTemps(n, 1), [t \in {<<"temp", k>> : k \in DOMAIN st.val} |-> st.val[t[2]]] @@ st.env)

RunBlock(p, stream, b, st) ==
    FoldLeft(LAMBDA acc, s : IF acc.how = "on" THEN RunStmt(p, stream, s, acc) ELSE acc, st, b)

RunWhile(p, stream, w, st) ==
    IF Val(w[3], st.env) = 0 THEN st
    ELSE LET r == RunBlock(p, stream, w[5], st)
             mine == r.status \in {"", w[2]}
         IN  CASE r.how = "on" \/ (r.how = "continue" /\ mine) -> RunWhile(p, stream, w, [r EXCEPT !.how = "on"])
               [] r.how = "break" /\ mine -> [r EXCEPT !.how = "on"]
               [] OTHER -> r

Put(st, lhs, v) == [st EXCEPT !.env = (lhs :> v) @@ @]

RunStmt(p, stream, s, st) ==
    LET n == CASE s[1] \in {"var", "assign"} -> s[4] [] s[1] = "expr" -> s[2] [] OTHER -> Nil
        r == IF n = Nil THEN st ELSE RunCalls(p, stream, n, st)
        arm == RunCalls(p, stream, s[2][1][1], st)
    IN  CASE r.how # "on" \/ s[1] \in {"assert", "expr"} -> r
          [] s[1] = "var" -> Put(r, V(s[2]), IF n = Nil THEN 0 ELSE ValueIn(n, r))
          [] s[1] = "assign" -> Put(r, s[3], IF s[2] = "=" THEN ValueIn(n, r)
                                             ELSE evalConstValueBinaryOp(BinaryForm[s[2]], r.env[s[3]], ValueIn(n, r))[1])
          [] s[1] = "if" /\ s[2] = <<>> -> RunBlock(p, stream, s[3], st)
          [] s[1] = "if" /\ s[2] # <<>> -> IF arm.how # "on" THEN arm
                                          ELSE IF ValueIn(s[2][1][1], arm) = 1 THEN RunBlock(p, stream, s[2][1][2], arm)
                                          ELSE RunStmt(p, stream, <<"if", Tail(s[2]), s[3]>>, arm)
          [] s[1] = "while" -> RunWhile(p, stream, s, st)
          [] s[1] = "jump" -> [st EXCEPT !.how = s[2], !.status = s[3]]
          [] s[1] = "ret" -> LET z == Val(s[3], st.env)
                             IN  IF s[2] = "yield" THEN (IF z > 0 THEN st ELSE Stop(st, z))
                                 ELSE Stop(st, IF z > 0 THEN CannotReturnASuspension ELSE z)

Run(p, stream, pos, out, fields) ==
    LET r == RunBlock(p, stream, p.decode, [pos |-> pos, out |-> out, env |-> fields, val |-> <<>>, how |-> "on", status |-> Ok])
    IN  [pos |-> r.pos, out |-> r.out, status |-> IF r.how = "done" THEN r.status ELSE Ok,
         fields |-> [e \in DOMAIN fields |-> r.env[e]]]

----------------------------------------------------------------------------
(* The generated code at work.                                             *)

VARIABLES prog, stream,
          self,      \* the receiver: status, magic, its fields, and per method its
                     \* suspension point, saved variables and scratch
          frames,    \* the C stack, innermost call first
          src,       \* the caller's input buffer: ri, wi and closed
          dst,       \* its output buffer: what is in memory, wi and the room left
          last,      \* what the last call returned
          want,      \* what the run that is under way should come to
          runs, inits
vars == <<prog, stream, self, frames, src, dst, last, want, runs, inits>>

Fields == {This("f"), This("g")}
NoScratch == [i \in 0..7 |-> 0]
Idle(fn) == [point |-> 0, vars |-> [v \in Locals[prog][fn] |-> 0], scratch |-> NoScratch]
Zeroed == [f \in Fields |-> 0]

Init ==
    /\ prog \in Programs /\ stream \in Streams[prog]
    /\ self = [status |-> Ok, magic |-> FALSE, fields |-> Zeroed, co |-> [fn \in DOMAIN prog |-> Idle(fn)]]
    /\ frames = <<>> /\ src = [ri |-> 0, wi |-> 0, closed |-> FALSE] /\ dst = [mem |-> <<>>, wi |-> 0, room |-> 0]
    /\ last = Ok /\ want = <<>> /\ runs = 0 /\ inits = 0

\* writeInitializerImpl. With another version only the status is touched.
Initialize(version) ==
    /\ frames = <<>> /\ inits < MaxInits
    /\ self' = IF version = "other" THEN [self EXCEPT !.status = BadWuffsVersion]
               ELSE [status |-> Ok, magic |-> TRUE, fields |-> Zeroed, co |-> [fn \in DOMAIN prog |-> Idle(fn)]]
    /\ inits' = inits + 1 /\ last' = Ok /\ want' = <<>>
    /\ UNCHANGED <<prog, stream, frames, src, dst, runs>>

\* The prologue: the derived pointers into the buffers, then resume.
Enter(fn, junk, ri, wi, rend, wend) ==
    LET co == self.co[fn]
    IN  [fn |-> fn, point |-> co.point, status |-> Ok, ret |-> <<>>, temp |-> <<>>, junk |-> junk,
         pc |-> IF co.point = 0 THEN 1 ELSE PointAt(Code[prog][fn], co.point) + 1,
         vars |-> [v \in Locals[prog][fn] |->
                      IF co.point # 0 THEN (IF HasPointers(v[2]) THEN 0 ELSE co.vars[v])
                      ELSE IF v[2] = Bool THEN 0 ELSE junk],
         rptr |-> ri, rstart |-> ri, rend |-> rend, wptr |-> wi, wend |-> wend]

\* The caller puts more input into the buffer, says whether that was all, takes
\* the output away and calls decode. in.n is an argument with an upper bound.
Call(wi, closed, room, badArg) ==
    LET status == IF ~self.magic THEN InitializerNotCalled ELSE self.status
        fresh == self.co.decode.point = 0
        src1 == [src EXCEPT !.wi = wi, !.closed = closed]
    IN  /\ frames = <<>>
        /\ (closed => wi = Len(stream)) /\ (src.closed => closed)
        /\ src' = src1 /\ dst' = [dst EXCEPT !.room = room]
        /\ IF status < 0 \/ badArg
           THEN /\ self' = [self EXCEPT !.status = IF status < 0 THEN status ELSE BadArgument]
                /\ last' = self'.status
                /\ want' = IF status < 0 THEN want ELSE <<>>
                /\ UNCHANGED <<frames, runs>>
           ELSE /\ fresh => runs < MaxRuns
                /\ \E j \in Junk : frames' = <<Enter("decode", j, src.ri, dst.wi, wi, dst.wi + room)>>
                /\ want' = IF fresh THEN Run(prog, stream, src.ri, dst.mem, self.fields) ELSE want
                /\ runs' = IF fresh THEN runs + 1 ELSE runs
                /\ UNCHANGED <<self, last>>
        /\ UNCHANGED <<prog, stream, inits>>

F == Head(frames)
Instr == Code[prog][F.fn][F.pc]
At(op) == frames # <<>> /\ F.ret = <<>> /\ Instr[1] = op
Env == [v \in {V(l[1]) : l \in Locals[prog][F.fn]} |-> F.vars[CHOOSE l \in Locals[prog][F.fn] : l[1] = v[2]]]
       @@ self.fields @@ F.temp @@ [t \in {<<"temp", k>> : k \in 1..2} |-> F.junk]

Top(f) == frames' = <<f>> \o Tail(frames)
Goto(f, d) == Top([f EXCEPT !.pc = @ + d])
Caller == UNCHANGED <<prog, stream, want, runs, inits>>

\* The ways out: "ok" forgets the suspension point, "suspend" saves it and the
\* variables, "exit" does neither. All of them store the derived pointers, and a
\* public method its status.
(* Variant: only numbers are saved. *)
SaveNumbers(f, co) == [co EXCEPT !.point = f.point,
                                 !.vars = [v \in DOMAIN f.vars |-> IF v[2][1] # "int" THEN @[v] ELSE f.vars[v]]]
SaveVars(f, co) == [co EXCEPT !.point = f.point,
                              !.vars = [v \in DOMAIN f.vars |-> IF HasPointers(v[2]) THEN @[v] ELSE f.vars[v]]]
(* Variant: a status that goes out through exit is not stored. *)
LeaveUnrecorded(me, f, how, status) ==
    LET co == me.co[f.fn]
        kept == CASE how = "ok" -> [co EXCEPT !.point = 0] [] how = "suspend" -> SaveVars(f, co) [] how = "exit" -> co
        me1 == [me EXCEPT !.co[f.fn] = kept]
    IN  /\ src' = [src EXCEPT !.ri = f.rptr]
        /\ dst' = [dst EXCEPT !.wi = f.wptr]
        /\ IF f.fn = "decode"
           THEN /\ self' = IF how = "exit" THEN me1 ELSE [me1 EXCEPT !.status = status]
                /\ frames' = <<>> /\ last' = status
           ELSE self' = me1 /\ frames' = <<[frames[2] EXCEPT !.ret = <<status>>]>> /\ UNCHANGED last
        /\ Caller
Leave(me, f, how, status) ==
    LET co == me.co[f.fn]
        kept == CASE how = "ok" -> [co EXCEPT !.point = 0] [] how = "suspend" -> SaveVars(f, co) [] how = "exit" -> co
        me1 == [me EXCEPT !.co[f.fn] = kept]
    IN  /\ src' = [src EXCEPT !.ri = f.rptr]
        /\ dst' = [dst EXCEPT !.wi = f.wptr]
        /\ IF f.fn = "decode" THEN self' = [me1 EXCEPT !.status = status] /\ frames' = <<>> /\ last' = status
           ELSE self' = me1 /\ frames' = <<[frames[2] EXCEPT !.ret = <<status>>]>> /\ UNCHANGED last
        /\ Caller

\* short_read_src.
ShortReadSrc(me, f) == IF src.closed THEN Leave(me, f, "exit", UnexpectedEof) ELSE Leave(me, f, "suspend", ShortRead)

\* A suspension point that is reached, rather than resumed from.
Point ==
    /\ At("point")
    /\ Goto([F EXCEPT !.point = PointNumber(Code[prog][F.fn], F.pc)], 1)
    /\ Caller /\ UNCHANGED <<self, src, dst, last>>

Set ==
    LET lhs == Instr[3]
        v == Val(IF Instr[2] = "=" THEN Instr[4] ELSE <<BinaryForm[Instr[2]], lhs, Instr[4]>>, Env)
    IN  /\ At("set")
        /\ IF lhs[1] = "dot" THEN self' = [self EXCEPT !.fields[lhs] = v] /\ Goto(F, 1)
           ELSE /\ Goto([F EXCEPT !.vars = [l \in DOMAIN @ |-> IF l[1] = lhs[2] THEN v ELSE @[l]]], 1)
                /\ UNCHANGED self
        /\ Caller /\ UNCHANGED <<src, dst, last>>

Branch ==
    /\ At("jump") \/ At("unless")
    /\ Goto(F, IF Instr[1] = "jump" THEN Instr[2] ELSE IF Val(Instr[2], Env) = 0 THEN Instr[3] ELSE 1)
    /\ Caller /\ UNCHANGED <<self, src, dst, last>>

WithTemp(f, k, v) == [f EXCEPT !.temp = (<<"temp", k>> :> v) @@ @]

ReadU8 ==
    /\ At("read_u8")
    /\ IF ~Instr[3] /\ F.rptr = F.rend THEN ShortReadSrc(self, F)
       ELSE /\ Goto(WithTemp([F EXCEPT !.rptr = @ + 1], Instr[2], stream[F.rptr + 1]), 1)
            /\ Caller /\ UNCHANGED <<self, src, dst, last>>

UnreadU8 ==
    /\ At("unread_u8")
    /\ IF F.rptr = F.rstart THEN Leave(self, F, "exit", InvalidIOOperation)
       ELSE Goto([F EXCEPT !.rptr = @ - 1], 1) /\ Caller /\ UNCHANGED <<self, src, dst, last>>

SetScratch(s) == self' = [self EXCEPT !.co[F.fn].scratch = s]

LoadUXX ==
    LET n == ReadSizes[Instr[2]]
    IN  /\ At("load")
        /\ IF F.rend - F.rptr >= n
           THEN Goto(WithTemp([F EXCEPT !.rptr = @ + n], Instr[3], Load(Instr[2], stream, F.rptr)), 3) /\ UNCHANGED self
           ELSE SetScratch(NoScratch) /\ Goto(F, 1)
        /\ Caller /\ UNCHANGED <<src, dst, last>>

\* One turn of the loop that gathers the bytes. The number of bits that are there
\* is kept in the byte at the other end: in byte 0 for big endian, where the bytes
\* come in from the top, in byte 7 for little endian.
GatherUXX ==
    LET be == Instr[2] \in BigEndian
        n == ReadSizes[Instr[2]]
        s == self.co[F.fn].scratch
        bits == s[IF be THEN 0 ELSE 7]
        at == IF be THEN 7 - bits \div 8 ELSE bits \div 8
        s1 == [[s EXCEPT ![IF be THEN 0 ELSE 7] = 0] EXCEPT ![at] = Bitwise2("|", @, stream[F.rptr + 1])]
        f1 == [F EXCEPT !.rptr = @ + 1]
    IN  /\ At("gather")
        /\ IF F.rptr = F.rend THEN ShortReadSrc(self, F)
           ELSE /\ IF bits = 8 * n - 8
                   THEN SetScratch(s1) /\ Goto(WithTemp(f1, Instr[3], IF be THEN Number(s1, 7, 8 - n) ELSE Number(s1, n - 1, 0)), 1)
                   ELSE SetScratch([s1 EXCEPT ![IF be THEN 0 ELSE 7] = Bitwise2("|", @, bits + 8)]) /\ Goto(f1, 0)
                /\ Caller /\ UNCHANGED <<src, dst, last>>

StoreScratch ==
    /\ At("scratch")
    /\ SetScratch([NoScratch EXCEPT ![0] = Val(Instr[2], Env)]) /\ Goto(F, 1)
    /\ Caller /\ UNCHANGED <<src, dst, last>>

\* On a short read everything there is is skipped and the rest stays in scratch.
Skip ==
    LET n == self.co[F.fn].scratch[0]
        have == F.rend - F.rptr
    IN  /\ At("skip")
        /\ IF n > have THEN ShortReadSrc([self EXCEPT !.co[F.fn].scratch[0] = n - have], [F EXCEPT !.rptr = F.rend])
           ELSE Goto([F EXCEPT !.rptr = @ + n], 1) /\ Caller /\ UNCHANGED <<self, src, dst, last>>

(* Variant: a byte is written without a look at the room. *)
WriteU8Unchecked ==
    /\ At("write_u8")
    /\ dst' = [dst EXCEPT !.mem = Append(SubSeq(@, 1, F.wptr), Val(Instr[2], Env))]
    /\ Goto([F EXCEPT !.wptr = @ + 1], 1)
    /\ Caller /\ UNCHANGED <<self, src, last>>
WriteU8 ==
    /\ At("write_u8")
    /\ IF ~Instr[3] /\ F.wptr = F.wend THEN Leave(self, F, "suspend", ShortWrite)
       ELSE /\ dst' = [dst EXCEPT !.mem = Append(SubSeq(@, 1, F.wptr), Val(Instr[2], Env))]
            /\ Goto([F EXCEPT !.wptr = @ + 1], 1)
            /\ Caller /\ UNCHANGED <<self, src, last>>

\* A call of the helper: the derived pointers are saved before it and loaded
\* after it.
CallHelper ==
    /\ At("call") \/ At("try")
    /\ src' = [src EXCEPT !.ri = F.rptr] /\ dst' = [dst EXCEPT !.wi = F.wptr]
    /\ \E j \in Junk : frames' = <<Enter("helper", j, F.rptr, F.wptr, F.rend, F.wend)>> \o frames
    /\ Caller /\ UNCHANGED <<self, last>>

(* Variant: the write pointer is not loaded again. *)
LoadReaderOnly(f) == [f EXCEPT !.rptr = src.ri, !.ret = <<>>]
LoadDerivedVars(f) == [f EXCEPT !.rptr = src.ri, !.wptr = dst.wi, !.ret = <<>>]
Returned ==
    LET f1 == LoadDerivedVars(F)
    IN  /\ frames # <<>> /\ F.ret # <<>>
        /\ IF Instr[1] = "try" THEN Goto(WithTemp(f1, Instr[2], F.ret[1]), 1) /\ Caller /\ UNCHANGED <<self, src, dst, last>>
           ELSE IF F.ret[1] # Ok THEN Leave(self, f1, "suspend", F.ret[1])
           ELSE Goto(f1, 1) /\ Caller /\ UNCHANGED <<self, src, dst, last>>

\* yield and return. A yield is a suspension point of its own; an error goes out
\* through exit, and a suspension cannot be returned.
Yield ==
    LET z == Val(Instr[2], Env)
    IN  /\ At("yield")
        /\ CASE z < 0 -> Leave(self, F, "exit", z)
             [] z = Ok -> Leave(self, F, "ok", z)
             [] OTHER -> Leave(self, [F EXCEPT !.point = PointNumber(Code[prog][F.fn], F.pc)], "suspend", z)

Return ==
    LET z == Val(Instr[2], Env)
    IN  /\ At("return")
        /\ CASE z < 0 -> Leave(self, F, "exit", z)
             [] z = Ok -> Leave(self, F, "ok", z)
             [] OTHER -> Leave(self, F, "exit", CannotReturnASuspension)

Step == \/ Point \/ Set \/ Branch \/ ReadU8 \/ UnreadU8 \/ LoadUXX \/ GatherUXX \/ StoreScratch \/ Skip
        \/ WriteU8 \/ CallHelper \/ Returned \/ Yield \/ Return

Next == \/ \E version \in {"same", "other"} : Initialize(version)
        \/ \E n \in More, closed, badArg \in BOOLEAN, room \in Room : Call(Min({src.wi + n, Len(stream)}), closed, room, badArg)
        \/ Step

\* The generated code runs on until the call returns, and the caller goes on
\* calling after a suspension: sooner or later with all of the input and with room.
KeepCalling == self.co.decode.point # 0 /\ \E room \in Room \ {0} : Call(Len(stream), TRUE, room, FALSE)
Spec == Init /\ [][Next]_vars /\ WF_vars(Step) /\ SF_vars(KeepCalling)

----------------------------------------------------------------------------

Written == SubSeq(dst.mem, 1, dst.wi)
Underway == frames = <<>> /\ want # <<>>

TypeOK ==
    /\ self.status \in -9..9 /\ last \in -9..9 /\ self.magic \in BOOLEAN /\ Len(frames) \in 0..2
    /\ \A fn \in DOMAIN prog : self.co[fn].point \in 0..Cardinality({i \in DOMAIN Code[prog][fn] : IsPoint(Code[prog][fn][i])})
    /\ \A i \in DOMAIN frames : frames[i].pc \in DOMAIN Code[prog][frames[i].fn]
    /\ \A i \in DOMAIN frames : frames[i].rptr \in frames[i].rstart..frames[i].rend /\ frames[i].wptr <= frames[i].wend
    /\ src.ri \in 0..src.wi /\ src.wi \in 0..Len(stream)

\* However the caller cuts the input and the room for output into pieces, and
\* whatever the C variables hold when a method is entered, a run of decode that
\* ends comes to what the uninterrupted run comes to: the same status, output,
\* input position and fields. What the generated code saves in the receiver is
\* all that the rest of the body needs.
ChunkingIsInvisible ==
    Underway /\ last <= 0 => [pos |-> src.ri, out |-> Written, status |-> last, fields |-> self.fields] = want

\* What has been written and read whenever decode is suspended is on the way to
\* what the uninterrupted run writes and reads: nothing is written twice, and
\* nothing is taken from the input that the body does not ask for.
SuspendedMidway ==
    Underway /\ last > 0 => IsPrefix(Written, want.out) /\ src.ri <= want.pos

\* Once decode has returned an error, every later call returns the same error and
\* touches neither the buffers nor the receiver's fields, until the receiver is
\* initialized again.
ErrorsAreFinal ==
    [][last < 0 /\ inits' = inits =>
          last' = last /\ frames' = <<>> /\ dst'.mem = dst.mem /\ src'.ri = src.ri /\ self'.fields = self.fields]_vars

\* A run that was begun ends, if the caller goes on calling: no suspension is for
\* nothing, and resuming from it makes progress.
Completes == want # <<>> ~> (Underway /\ last <= 0) \/ want = <<>>
=============================================================================
