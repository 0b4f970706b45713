----------------------------- MODULE CheckedMC -----------------------------
(***************************************************************************)
(* Families of function bodies for Checked. Integer types keep their order *)
(* but are narrow, so that every boundary is met. Each body declares       *)
(*   var x u8 = in.p    var y u8[..2] = in.q    var z u8 = this.f          *)
(* and goes on with one of the shapes below, filled in every possible way; *)
(* most fillings are rejected by the checker.                              *)
(***************************************************************************)
EXTENDS Checked

MCNumTypeBounds == ("u8" :> <<0, 3>>) @@ ("u16" :> <<0, 15>>) @@ ("u32" :> <<0, 31>>) @@ ("u64" :> <<0, 255>>)

MCStructs == [in |-> [p |-> U8, q |-> <<"int", "u8", Nil, <<2>>>>, s |-> <<"slice", U8>>,
                      src |-> <<"reader1">>, dst |-> <<"writer1">>],
              decoder |-> [f |-> U8, a |-> <<"array", 3, U8>>]]
MCFuncs == (<<"decoder", "peek">> :> Sig(<<<<"int", "u8", Nil, <<1>>>>>>, U8, ""))
MCImplicit == [in |-> <<"struct", "in">>, this |-> <<"ptr", <<"struct", "decoder">>>>]

MCInputs == {(In("p") :> p) @@ (In("q") :> q) @@ (In("s") :> IF f = 0 THEN <<>> ELSE <<3, 1>>)
             @@ (This("f") :> f) @@ (This("a") :> <<0, 1, 3>>) : p \in 0..3, q \in 0..2, f \in 0..1}

x == V("x")
y == V("y")
z == V("z")
Prelude == <<<<"var", "x", U8, In("p")>>, <<"var", "y", <<"int", "u8", Nil, <<2>>>>, In("q")>>, <<"var", "z", U8, This("f")>>>>

Set(l, r) == <<"assign", "=", l, r>>
Op(op, l, r) == <<"assign", op, l, r>>
Claim(c) == <<"assert", c, "", <<>>>>
When(c, then, else) == <<"if", <<<<c, then>>>>, else>>
At(s, i) == <<"index", s, i>>
Length(s) == <<"call", s, "length", <<>>, "">>

And(c, d) == <<"and", c, d>>
Is(op, l, r) == <<op, l, r>>

\* Two statements under a condition.
Conds == {Is(op, x, y) : op \in {"<", "!=", ">"}}
         \cup {Is("==", x, Num(2)), <<"not", Is("<", x, y)>>,
               And(Is("<", x, Num(3)), Is(">=", y, x)),
               <<"assoc", "and", <<Is(">", x, y), Is("<=", x, Num(2)), Is("<", Num(0), y)>>>>}

Updates == {Op("+=", x, Num(1)), Op("-=", x, Num(1)), Op("-=", x, y), Op("+=", y, Num(1)), Op("~+=", x, y), Op("&=", x, Num(1)),
            Set(x, y), Set(x, Is("+", y, Num(1))), Set(x, Is("-", y, Num(1))), Set(z, Is("-", x, y)),
            Set(x, Is("%", z, Num(2))), Set(y, Is("<<", z, Num(1))), Set(y, <<"as", Is(">>", x, Num(1)), U8>>),
            Set(y, Is("|", z, Num(2))), Set(y, <<"call", x, "low_bits", <<Num(1)>>, "">>),
            Set(At(This("a"), x), y), Set(z, <<"assoc", "+", <<y, Num(1), Num(0)>>>>), Set(x, <<"neg", y>>),
            Set(z, Is("*", y, Num(2))), Set(z, Is("^", x, y))}

Uses == {Set(y, x), Set(z, At(This("a"), x)), Op("+=", x, Num(1)), Set(z, Is("-", y, x)), Set(z, <<"call", V("this"), "peek", <<y>>, "">>),
         Claim(Is("<=", x, y)), Claim(Is("<", x, Num(2))), Claim(Is("!=", x, y)), Claim(Is("==", y, x)), Claim(Is(">", x, Num(0)))}

Straight == {<<When(c, <<s, t>>, <<>>)>> : c \in Conds, s \in Updates, t \in Uses}

\* Chains of branches, some of which leave the function, and what is known
\* after them.
Arms == {<<Set(y, Num(1))>>, <<Set(x, Num(1))>>, <<Op("-=", x, Num(1))>>, <<<<"ret", "return">>>>}
Chains == {<<<<"if", <<<<c, s>>, <<d, t>>>>, u>>, v>> :
              c \in {Is("<", x, y), Is("==", x, Num(0))}, d \in {Is(">", x, Num(1)), Is("==", x, y)},
              s \in Arms, t \in Arms, u \in {<<>>, <<Set(x, y)>>, <<<<"ret", "return">>>>},
              v \in {Op("-=", x, Num(1)), Claim(Is("==", y, Num(1))), Set(z, At(This("a"), x)), Claim(Is("<=", x, y))}}

\* Loops with conditions to keep and to leave with, and jumps.
Via(c, r, args) == <<"assert", c, r, args>>
Loop(c, asserts, body) == <<"while", "l", c, asserts, body>>
Keep(k, c) == <<k, c, "", <<>>>>
True == <<"bool", 1>>
Count == <<Via(Is("<", x, Num(2)), "a < b: a < c; c <= b", <<<<"c", y>>>>), Op("+=", x, Num(1))>>
Break == <<"jump", "break", "">>
Loops == {<<When(c0, <<Loop(c, as, body), t>>, <<>>)>> :
             c0 \in {Is("<", x, y), Is("<", x, Num(2))},
             c \in {Is("<", x, y), Is("!=", x, Num(3)), True},
             as \in {<<>>, <<Keep("inv", Is("<=", x, Num(2)))>>, <<Keep("pre", Is("<", x, Num(3))), Keep("post", Is(">=", x, y))>>,
                     <<Keep("pre", Is("<", x, y)), Keep("inv", Is("<", x, Num(3)))>>},
             body \in {Count, <<Op("+=", x, Num(1))>>, <<When(Is(">=", x, Num(2)), <<Break>>, <<>>), Op("+=", x, Num(1))>>,
                       <<When(Is(">=", x, y), <<Break>>, <<>>)>> \o Count \o <<<<"jump", "continue", "l">>>>,
                       <<<<"while", "m", True, <<>>, <<<<"jump", "break", "l">>>>>>, Break>>,
                       <<Set(x, Num(0))>>},
             t \in {Set(z, At(This("a"), x)), Claim(Is("<=", x, y)), Claim(Is(">=", x, y)), Claim(Is("!=", x, Num(3)))}}

\* Claims made for a reason, from facts of every shape.
Reasoned ==
    {<<When(And(Is(o, x, z), Is(p, z, y)), <<Via(Is(c, x, y), r, <<<<"c", z>>>>)>>, <<>>)>> :
        o \in {"<", "<=", "=="}, p \in {"<", "<=", "==", ">"}, c \in {"<", "<="}, r \in DOMAIN Reasons}
    \cup {<<When(Is(o, y, x), <<Via(Is(c, x, y), r, <<>>)>>, <<>>)>> :
        o \in {">", ">=", "<="}, c \in {"<", "<="}, r \in {"a < b: b > a", "a <= b: b >= a"}}
    \cup {<<When(And(Is("<", x, Is("+", z, Num(1))), Is("<=", z, y)), <<Via(Is("<", x, Is("+", b, c)), r, <<<<"b0", z>>, <<"c0", Num(1)>>>>)>>, <<>>)>> :
        b \in {y, z}, c \in {Num(0), Num(1), Num(2), y},
        r \in {"a < (b + c): a < (b0 + c0); b0 <= b; c0 <= c", "a < (b + c): a < c; 0 <= b"}}
    \cup {<<When(Is("<=", x, Is("-", Num(c), y)), <<Via(Is("<=", Is("+", x, y), Num(d)), "(a + b) <= c: a <= (c - b)", <<>>)>>, <<>>)>> :
        c \in 2..3, d \in 2..3}

\* Reading and writing under what is known of the buffers. A body begins with
\* a yield, from which the caller may resume it with any buffers.
Yield == <<"ret", "yield">>
Available(b) == <<"call", In(b), "available", <<>>, "">>
ReadU8 == <<"call", In("src"), "read_u8", <<>>, "?">>
ReadU16 == <<"call", In("src"), "read_u16be", <<>>, "?">>
WriteU8(e) == <<"expr", <<"call", In("dst"), "write_u8", <<e>>, "?">>>>
Reads == {Set(x, ReadU8), Set(z, Is("&", <<"as", ReadU16, U8>>, Num(1))), Set(V("n"), Is("<<", <<"as", ReadU8, U32>>, y))}
Buffered ==
    {<<Yield, <<"var", "n", U32, Nil>>, When(Is(o, Available("src"), Num(k)), <<s, t>>, <<>>)>> :
        o \in {">=", ">"}, k \in 0..3, s \in Reads, t \in Reads}
    \cup {<<Yield, When(Is(">", Available("dst"), Num(k)), <<WriteU8(x), WriteU8(y)>>, <<>>)>> : k \in 0..1}
    \cup {<<Yield, When(c, <<Yield, t>>, <<>>)>> : c \in {Is("==", This("f"), Num(1)), Is("<", x, y), Is(">=", Available("src"), Num(1))},
             t \in {Claim(Is("==", This("f"), Num(1))), Claim(Is("<=", x, y)), Set(x, ReadU8)}}

\* Copying from the history, under some or all of the facts that it needs.
Wide(e) == <<"as", e, U32>>
SinceMark == Length(<<"call", In("dst"), "since_mark", <<>>, "">>)
CopyFacts == {<<"call", In("dst"), "is_marked", <<>>, "">>, Is(">", Wide(y), Num(0)),
              Is("<=", <<"as", Wide(y), U64>>, SinceMark), Is("<=", <<"as", Wide(z), U64>>, Available("dst"))}
History == {<<<<"var", "n", U32, Nil>>, Yield>> \o m \o
            <<<<"if", <<<<<<"assoc", "and", SetToSeq(fs)>>, <<Set(V("n"), <<"call", In("dst"), "copy_from_history32", <<Wide(y), Wide(z)>>, "">>)>>>>>>, <<>>>>>> :
               fs \in {g \in SUBSET CopyFacts : Cardinality(g) >= 3},
               m \in {<<>>, <<<<"expr", <<"call", In("dst"), "mark", <<>>, "">>>>, WriteU8(x)>>}}

\* Indexes into a slice whose length is only known at run time.
Slices == {<<When(Is(o, <<"as", y, U64>>, Length(In("s"))), <<Set(z, At(In("s"), i))>>, <<>>)>> :
             o \in {"<", "<=", "!="}, i \in {y, <<"as", y, U64>>, Is("-", <<"as", y, U64>>, Num(1))}}

MCPrograms == {Prelude \o p : p \in Straight \cup Chains \cup Loops \cup Reasoned \cup Buffered \cup History \cup Slices}

MCSrc == 0..3
MCDst == {[room |-> r, since |-> n, marked |-> n > 0 \/ r > 1] : r \in 0..2, n \in {0, 2}}

\* What a suspended read leaves in the facts.
Stale == {Prelude \o <<When(Is("==", This("f"), Num(1)), <<Set(x, ReadU8), Claim(Is("==", This("f"), Num(1)))>>, <<>>)>>}

\* An assignment whose right hand side mentions the left; two facts that an
\* update makes equal, in one of two branches; one element under two names.
SelfReference == {Prelude \o <<When(Is("<", x, Num(3)), <<Set(x, Is("+", x, Num(1))), Claim(Is("==", x, Is("+", x, Num(1))))>>, <<>>)>>}
Duplicate == {Prelude \o <<When(<<"assoc", "and", <<Is(">=", x, y), Is("<=", x, Is("+", y, Num(1))), Is("<=", x, Is("+", Num(1), y))>>>>,
                                <<Op("-=", x, y)>>, <<>>),
                           Claim(Is("<=", x, Num(1)))>>}
Alias == {Prelude \o <<When(Is("<", x, Num(3)), <<When(Is("==", At(This("a"), x), Num(0)),
                          <<Set(At(This("a"), y), Num(1)), Claim(Is("==", At(This("a"), x), Num(0)))>>, <<>>)>>, <<>>)>>}

\* The checker accepts each of them, although the claim is false: the first
\* always, the second if the branch is not taken and x > 1, the third if x = y.
ASSUME UnsoundFormsAreAccepted ==
  \A body \in SelfReference \cup Duplicate \cup Alias : checkFuncBody(body).ok

\* The checker's result for each of the programs of a configuration, computed
\* once.
Results == [body \in Programs |-> checkFuncBody(body)]
MCCompiled == LET all == Results IN all
=============================================================================
