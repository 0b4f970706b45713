---------------------------- MODULE CoroutineMC ----------------------------
(***************************************************************************)
(* Bodies for Coroutine. Straight-line bodies are a read and any two of   *)
(* the steps below, between the declarations of the variables and a     *)
(* statement that writes what they hold; the others have the shapes of the *)
(* decoders under std: loops, a helper with loops of its own, a helper     *)
(* that is tried and whose suspension is yielded.                          *)
(***************************************************************************)
EXTENDS Coroutine

X == V("x")
Y == V("y")
B == V("b")
Read(m) == <<"call", <<"dot", V("in"), "src">>, m, <<>>, "?">>
Write(e) == <<"expr", <<"call", <<"dot", V("in"), "dst">>, "write_u8", <<e>>, "?">>>>
SkipBytes(e) == <<"expr", <<"call", <<"dot", V("in"), "src">>, "skip32", <<e>>, "?">>>>
Unread == <<"expr", Read("unread_u8")>>
Helper == <<"expr", <<"call", V("this"), "helper", <<>>, "?">>>>
TryHelper == <<"call", V("this"), "try helper", <<>>, "?">>
Let(l, e) == <<"assign", "=", l, e>>
Var(n, t) == <<"var", n, t, Nil>>
Is(m, e) == <<"call", e, m, <<>>, "">>
If(c, b) == <<"if", <<<<c, b>>>>, <<>>>>
While(l, c, b) == <<"while", l, c, <<>>, b>>
Ret(z) == <<"ret", "return", z>>
YieldIt(z) == <<"ret", "yield", z>>
True == <<"bool", 1>>
Suspension == 3
Bad == -9

Declared == <<Var("x", U8), Var("y", U32), Var("b", Bool)>>

Steps == {Let(Y, Read("read_u16le")), SkipBytes(X), Let(B, <<"==", X, Num(1)>>), Write(X),
          YieldIt(Num(Suspension))}
NoHelper == <<>>
Straight == {[decode |-> Declared \o s \o <<Let(This("f"), X), Let(This("g"), Y), Write(X), If(B, <<Write(Num(4))>>)>>, helper |-> NoHelper] :
                s \in {<<Let(X, Read("read_u8")), b, c>> : b, c \in Steps}}

\* Copy as many bytes as the first one says, skipping zeros, up to a 2.
Loop == <<Var("n", U8), Let(V("n"), Read("read_u8")),
          While("outer", True,
            <<While("", <<">", V("n"), Num(0)>>,
                <<Var("x", U8), <<"assign", "-=", V("n"), Num(1)>>, Let(X, Read("read_u8")),
                  If(<<"==", X, Num(0)>>, <<<<"jump", "continue", "">>>>),
                  If(<<"==", X, Num(2)>>, <<<<"jump", "break", "outer">>>>),
                  Write(X)>>),
              <<"jump", "break", "">>>>),
          <<"if", <<<<<<"==", Read("read_u8"), Num(1)>>, <<Write(Num(7))>>>>, <<<<"==", Read("read_u8"), Num(2)>>, <<Write(Num(8))>>>>>>, <<Write(Num(9))>>>>>>

\* A helper that keeps a variable of its own over its suspensions, and fails on a
\* zero.
Count == <<Var("x", U8), Var("k", U8), Let(X, Read("read_u8")),
           If(<<"==", X, Num(0)>>, <<Ret(Num(Bad))>>),
           While("", <<">", X, Num(0)>>, <<<<"assign", "-=", X, Num(1)>>, <<"assign", "+=", V("k"), Read("read_u8")>>, Write(V("k"))>>),
           <<"assign", "+=", This("f"), V("k")>>>>
Twice == <<Var("x", U8), Let(X, Read("read_u8")), Helper, Write(X), Helper, Write(This("f"))>>
Tried == <<Var("z", Status), Var("x", U8),
           While("", True,
             <<Let(V("z"), TryHelper),
               If(Is("is_ok", V("z")), <<<<"jump", "break", "">>>>),
               If(Is("is_error", V("z")), <<Ret(V("z"))>>),
               YieldIt(V("z"))>>),
           Let(X, Read("read_u8")), Write(X), Ret(V("z"))>>

\* The other reads, a peek, a slice that is made anew after a suspension, and a
\* suspension that may not be returned.
Wide == <<Var("y", U32), Var("x", U8), Var("s", <<"slice", U8>>), Let(X, Read("read_u8")), Unread, Let(Y, Read("read_u32be")),
          Let(V("s"), Num(3)), Let(This("f"), <<"+", Y, V("s")>>), Write(X), Let(This("g"), Read("read_u16le")),
          If(<<"==", X, Num(2)>>, <<Ret(Num(Suspension))>>), YieldIt(Num(Ok))>>
Little == <<Var("y", U32), Let(Y, Read("read_u32le")), Let(This("f"), Y), Let(This("g"), Read("read_u16be"))>>

MCPrograms == Straight \cup {[decode |-> Loop, helper |-> NoHelper], [decode |-> Twice, helper |-> Count], [decode |-> Tried, helper |-> Count],
                             [decode |-> Wide, helper |-> NoHelper], [decode |-> Little, helper |-> NoHelper]}
MCStreams == [p \in MCPrograms |-> IF p \in Straight THEN {<<1, 2, 1, 0, 1>>}
                                    ELSE {<<1, 2, 1, 0, 1>>, <<2, 1, 0>>, <<1, 1, 2, 1, 2, 1, 1>>}]
=============================================================================
