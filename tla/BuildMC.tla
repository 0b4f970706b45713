------------------------------ MODULE BuildMC ------------------------------
(***************************************************************************)
(* A tree like std/: package a uses b, as zlib uses deflate; b has a      *)
(* package of its own below it, and c uses both a and b.                  *)
(***************************************************************************)
EXTENDS Build

std == <<"std">>
a == <<"std", "a">>
b == <<"std", "b">>
bx == <<"std", "b", "x">>
c3 == <<"std", "c">>

MCDirs == {std, a, b, bx, c3}
MCSubdirs == [d \in MCDirs |-> CASE d = std -> <<a, b, c3>>
                                 [] d = b -> <<bx>>
                                 [] OTHER -> <<>>]

(* Declarations.                                                          *)
Id(n) == <<"packageid", <<n, 1, 1, 38>>>>
Num == <<"num", 0, 7>>
T(pkg, name) == <<"name", <<pkg, name>>>>
Field(name, typ) == <<name, typ, Nil>>
Struct(name, fields) == <<"struct", name, fields, TRUE>>
Func(recv, name, calls) == <<"func", recv, name, <<>>, <<>>, calls, TRUE>>
Private(n) == [n EXCEPT ![Len(n)] = FALSE]
Bad(name) == <<"status", name, "error", TRUE>>
Pause(name) == <<"status", name, "suspension", TRUE>>

(* Package b and the one below it, in several versions.                   *)
B1 == <<<<Id(14), Bad("bad b"), Struct("s", <<Field("n", Num)>>), Func("s", "go", <<>>)>>>>
B2 == <<<<Pause("wait b"), Func("s", "go", <<<<"more">>>>)>>,
        <<Id(14), Bad("bad b"), Struct("s", <<Field("n", Num)>>), Private(Func("s", "more", <<>>))>>>>
BConst == <<Append(B1[1], <<"const", "k", Num, <<"int", 7>>, TRUE>>)>>
BCycle == <<Append(B1[1], <<"use", a>>)>>
X1 == <<<<Id(36), Bad("bad x")>>>>
X2 == <<<<Id(36), Pause("wait x"), Bad("bad x")>>>>

(* Package a: a good version, and what may be added to it.                *)
Base == << Id(13), <<"use", b>>,
           Struct("outer", <<Field("g", <<"array", T("", "inner")>>), Field("f", T("b", "s"))>>),
           Struct("inner", <<<<"n", Num, <<"int", 3>>>>>>),
           <<"func", "outer", "run", <<Field("p", <<"ptr", T("", "inner")>>)>>, <<>>,
             <<<<"f", "go">>>>, TRUE>>,
           Bad("bad a") >>

Additions ==
  { Private(<<"const", "k", <<"array", Num>>, <<"list", <<<<"int", 0>>, <<"int", 7>>>>>>, TRUE>>),
    Func("inner", "late", <<<<"later">>>>), Func("", "free", <<>>), Pause("wait a"),
    Struct("big", <<Field("o", <<"array", <<"array", T("", "outer")>>>>)>>),
    Private(<<"const", "k", <<"array", Num>>, <<"list", <<<<"int", 8>>>>>>, TRUE>>),
    Private(<<"const", "k", <<"array", Num>>, <<"int", 1>>, TRUE>>),
    Id(13), <<"use", b>>, <<"use", <<"ext", "b">>>>, <<"use", <<"std", "none">>>>,
    Bad("bad a"), Struct("inner", <<>>), Func("outer", "run", <<>>),
    Func("outer", "g", <<>>), Func("nobody", "run", <<>>),
    Func("inner", "up", <<<<"n", "go">>>>), Func("outer", "up", <<<<"g", "go">>>>),
    Func("outer", "up", <<<<"f", "none">>>>), Func("", "up", <<<<"run">>>>),
    Struct("self", <<Field("s", <<"array", T("", "self")>>)>>),
    Struct("ref", <<Field("p", <<"ptr", T("", "inner")>>)>>),
    Struct("twice", <<Field("n", Num), Field("n", Num)>>),
    Struct("dflt", <<<<"n", Num, <<"int", 8>>>>>>),
    Struct("dflt", <<<<"n", <<"array", Num>>, <<"int", 1>>>>>>),
    Struct("dflt", <<<<"n", T("", "inner"), <<"int", 1>>>>>>),
    Struct("zero", <<Field("n", <<"num", 1, 7>>)>>),
    Struct("wide", <<Field("n", <<"num", 0, 256>>)>>),
    Struct("lost", <<Field("n", T("b", "inner"))>>),
    Struct("state", <<Field("z", T("", "status"))>>),
    Struct("io", <<Field("r", <<"array", T("", "reader1")>>)>>),
    <<"func", "inner", "feed", <<Field("r", T("", "reader1"))>>, <<>>, <<>>, TRUE>> }

Rotated(s, n) == SubSeq(s, n + 1, Len(s)) \o SubSeq(s, 1, n)
Backwards(s) == [i \in DOMAIN s |-> s[Len(s) + 1 - i]]
Orders(s) == UNION {{Rotated(s, n), Rotated(Backwards(s), n)} : n \in 0..Len(s) - 1}
Split(s) == {<<s>>, <<SubSeq(s, 1, 3), SubSeq(s, 4, Len(s))>>}

Later == Func("inner", "later", <<>>)
Packages == {Base, Tail(Base), [Base EXCEPT ![1] = <<"packageid", <<1, 1, 1, 1>>>>],
             [Base EXCEPT ![1] = <<"packageid", <<13, 0, 1, 1>>>>],
             [Base EXCEPT ![1] = <<"packageid", <<13, 1, 1>>>>],
             [Base EXCEPT ![4] = Struct("inner", <<Field("o", T("", "outer"))>>)]}
            \cup {Append(Append(Base, Later), n) : n \in Additions}
Ordered == UNION {UNION {Split(o) : o \in Orders(s)} : s \in Packages}

C3 == <<<<Id(15), <<"use", b>>, <<"use", a>>, Bad("bad c"),
          Struct("top", <<Field("f", T("a", "outer")), Field("g", T("b", "s"))>>)>>>>

Tree(fa, fb, fx) == (std :> <<>>) @@ (a :> fa) @@ (b :> fb) @@ (bx :> fx) @@ (c3 :> C3)

Few == {Tree(<<Base>>, B1, X1), Tree(<<Base>>, B2, X2), Tree(<<Base>>, BConst, X1),
        Tree(<<Base>>, BCycle, X1), Tree(<<Append(Base, Pause("wait a"))>>, B1, X2)}

MCHistories == {<<Tree(f, B1, X1)>> : f \in Ordered} \cup (Few \X Few)

Cmd(kind, args, skipgen, skipgendeps) ==
  [kind |-> kind, args |-> args, skipgen |-> skipgen, skipgendeps |-> skipgendeps]
MCCommands == { Cmd("gen", <<<<a, FALSE>>>>, FALSE, FALSE),
                Cmd("gen", <<<<std, TRUE>>>>, FALSE, TRUE),
                Cmd("genlib", <<<<std, TRUE>>>>, FALSE, FALSE),
                Cmd("test", <<<<a, FALSE>>, <<b, TRUE>>, <<<<"ext">>, FALSE>>>>, FALSE, FALSE),
                Cmd("test", <<<<c3, FALSE>>, <<<<"ext">>, FALSE>>>>, TRUE, FALSE),
                Cmd("test", <<<<b, TRUE>>>>, FALSE, FALSE) }
=============================================================================
