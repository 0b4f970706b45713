------------------------------ MODULE Package ------------------------------
(***************************************************************************)
(* One package of Wuffs source: what the checker makes of its top level   *)
(* declarations (lang/check/check.go), what wuffs-c generates for it      *)
(* (cgen.go), and what "wuffs gen" publishes of it for the packages that  *)
(* use it (gen.go).                                                       *)
(*                                                                        *)
(* A package is a sequence of files, a file a sequence of declarations:   *)
(*   <<"packageid", digits>>          digits: values of base38's table    *)
(*   <<"use", path>>                  path: a sequence of directory names *)
(*   <<"status", name, keyword, pub>>                                     *)
(*   <<"const", name, type, value, pub>>                                  *)
(*   <<"struct", name, fields, pub>>  field: <<name, type, default>>      *)
(*   <<"func", receiver, name, ins, outs, calls, pub>>                    *)
(* A type is <<"num", lo, hi>>, a refined u8, <<"name", qid>>,            *)
(* <<"array", type>> or <<"ptr", type>>; a constant <<"int", n>> or       *)
(* <<"list", elements>>; a call <<m>> stands for this.m() and <<f, m>>    *)
(* for this.f.m().  The rest of a body is the business of Checked.        *)
(***************************************************************************)
EXTENDS Integers, Sequences, FiniteSets, SequencesExt

Nil == <<"nil">>
Own == ""                       (* the package of an unqualified name      *)

(***************************************************************************)
(* Package base38.  0 stands for a byte that is not in the table; Encode  *)
(* then fails, which its caller treats like the value 0.                  *)
(***************************************************************************)
Encode(s) == IF Len(s) = 4 /\ \A i \in 1..4 : s[i] # 0
             THEN FoldLeft(LAMBDA u, x : 38 * u + x - 1, 0, s)
             ELSE 0

(***************************************************************************)
(* Types.                                                                  *)
(***************************************************************************)
RECURSIVE Innermost(_)
Innermost(typ) == IF typ[1] \in {"array", "ptr"} THEN Innermost(typ[2]) ELSE typ

RECURSIVE Pointee(_)
Pointee(typ) == IF typ[1] = "ptr" THEN Pointee(typ[2]) ELSE typ

(* The built-in types that are not numeric, and those with pointers.      *)
IOTypes == {"reader1", "writer1"}
BuiltInTypes == {"bool", "status", "image_config"} \cup IOTypes

RECURSIVE HasPointers(_)
HasPointers(typ) == \/ typ[1] = "ptr"
                    \/ typ[1] = "name" /\ typ[2][2] \in IOTypes
                    \/ typ[1] = "array" /\ HasPointers(typ[2])

(* A built-in type is known by its name, whatever the package before it.  *)
TypeExists(typ, structs) ==
  LET t == Innermost(typ) IN t[1] = "num" \/ t[2][2] \in BuiltInTypes \/ t[2] \in structs

(* The refinement, within u8, and the default within the refinement.      *)
bcheckField(f) ==
  LET t == Innermost(f[2])
      dv == IF f[3] = Nil THEN 0 ELSE f[3][2]
  IN IF t[1] = "num"
     THEN 0 <= t[2] /\ t[3] <= 255 /\ t[2] <= dv /\ dv <= t[3]
     ELSE f[3] = Nil

(***************************************************************************)
(* TopologicalSortStructs: a depth first search that marks the structs it *)
(* is inside of "temporary" and the finished ones "permanent".            *)
(***************************************************************************)
Qid(n) == <<Own, n[2]>>

(* Variant: only a field that is itself a struct counts.                  *)
RefersDirectly(f, o) == f[2] = <<"name", Qid(o)>>

Refers(f, o) == Innermost(f[2]) = <<"name", Qid(o)>>

RECURSIVE tssVisit(_, _, _)
tssVisit(st, n, ns) ==
  IF ~st.ok \/ n \in st.permanent THEN st
  ELSE IF n \in st.temporary THEN [st EXCEPT !.ok = FALSE]
  ELSE LET inner == FoldLeft(
             LAMBDA s, f : LET os == SelectSeq(ns, LAMBDA o : Refers(f, o))
                           IN IF os = <<>> THEN s ELSE tssVisit(s, Last(os), ns),
             [st EXCEPT !.temporary = @ \cup {n}], n[3])
       IN IF ~inner.ok THEN inner
          ELSE [inner EXCEPT !.permanent = @ \cup {n}, !.dst = Append(@, n)]

TopologicalSortStructs(ns) ==
  FoldLeft(LAMBDA st, n : tssVisit(st, n, ns),
           [ok |-> TRUE, dst |-> <<>>, temporary |-> {}, permanent |-> {}], ns)

(***************************************************************************)
(* The checker's tables, and the check of one declaration in one phase.   *)
(***************************************************************************)
NewChecker == [ok |-> TRUE, packageID |-> 0, consts |-> {}, statuses |-> {},
               structs |-> {}, funcs |-> {}, useBaseNames |-> {},
               unsortedStructs |-> <<>>]

Fail(c) == [c EXCEPT !.ok = FALSE]
Require(c, condition) == IF condition THEN c ELSE Fail(c)
Insert(c, table, key) == IF key \in c[table] THEN Fail(c)
                         ELSE [c EXCEPT ![table] = @ \cup {key}]

checkPackageID(c, n) ==
  IF c.packageID # 0 THEN Fail(c)
  ELSE Require([c EXCEPT !.packageID = Encode(n[2])], Encode(n[2]) # 0)

(* Every name the used package publishes is entered under its base name.  *)
checkUse(c, n, published) ==
  LET base == Last(n[2])
      Enter(d, o) == CASE o[1] = "status" -> Insert(d, "statuses", <<base, o[2]>>)
                       [] o[1] = "struct" -> Insert(d, "structs", <<base, o[2]>>)
                       [] o[1] = "func"   -> Insert(d, "funcs", <<base, o[2], o[3]>>)
                       [] OTHER -> d
  IN IF base \in c.useBaseNames \/ n[2] \notin DOMAIN published
        \/ published[n[2]][1] # "wuffs"
     THEN Fail(c)
     ELSE [FoldLeft(Enter, c, published[n[2]][2])
             EXCEPT !.useBaseNames = @ \cup {base}]

RECURSIVE checkConstElement(_, _)
checkConstElement(v, typ) ==
  IF typ[1] = "array"
  THEN v[1] = "list" /\ \A i \in DOMAIN v[2] : checkConstElement(v[2][i], typ[2])
  ELSE v[1] = "int" /\ typ[2] <= v[2] /\ v[2] <= typ[3]

checkConst(c, n) ==
  LET t == Innermost(n[3]) IN
  Require(Insert(c, "consts", Qid(n)),
          /\ ~HasPointers(n[3]) /\ t[1] = "num"
          /\ 0 <= t[2] /\ t[3] <= 255 /\ checkConstElement(n[4], n[3]))

checkStructDecl(c, n) ==
  [Insert(c, "structs", Qid(n)) EXCEPT !.unsortedStructs = Append(@, n)]

checkStructCycles(c) ==
  Require(c, TopologicalSortStructs(c.unsortedStructs).ok)

checkFields(c, fields, banPtrTypes) ==
  \A i \in DOMAIN fields :
    /\ \A j \in 1..i-1 : fields[j][1] # fields[i][1]
    /\ TypeExists(fields[i][2], c.structs)
    /\ ~(banPtrTypes /\ HasPointers(fields[i][2]))
    /\ fields[i][3] # Nil => fields[i][2][1] \notin {"array", "ptr"}
    /\ bcheckField(fields[i])

checkFuncSignature(c, n) ==
  Require(Insert(c, "funcs", <<Own, n[2], n[3]>>),
          /\ checkFields(c, n[4], FALSE) /\ checkFields(c, n[5], FALSE)
          /\ n[2] # "" => Qid(n) \in c.structs)

(* tcheckDot: a name after a dot is a method if there is one, else a      *)
(* field of the struct; only a struct, or a pointer to one, has either.   *)
checkFuncBody(c, n) ==
  LET this == SelectSeq(c.unsortedStructs, LAMBDA s : s[2] = n[2])
      fields == {this[1][3][i] : i \in DOMAIN this[1][3]}
      Resolves(call) ==
        IF Len(call) = 1 THEN <<Own, n[2], call[1]>> \in c.funcs
        ELSE /\ <<Own, n[2], call[1]>> \notin c.funcs
             /\ \E f \in fields :
                  /\ f[1] = call[1] /\ Pointee(f[2])[1] = "name"
                  /\ Append(Pointee(f[2])[2], call[2]) \in c.funcs
  IN Require(c, n[6] = <<>> \/ (n[2] # "" /\ \A i \in DOMAIN n[6] : Resolves(n[6][i])))

checkFieldMethodCollisions(c, n) ==
  Require(c, \A i \in DOMAIN n[3] : <<Own, n[2], n[3][i][1]>> \notin c.funcs)

(* Variant: collisions are looked for as soon as the fields are known.    *)
phasesEarly == <<"packageid", "exists", "use", "status", "const", "struct",
                 "cycles", "fields", "collisions", "signature", "body">>

(* The phases, each over every file before the next: a declaration may    *)
(* come before the ones it refers to, in its file or in a later one.      *)
phases == <<"packageid", "exists", "use", "status", "const", "struct",
            "cycles", "fields", "signature", "body", "collisions">>

KindOf(phase) == CASE phase = "fields" -> "struct"
                   [] phase = "collisions" -> "struct"
                   [] phase \in {"signature", "body"} -> "func"
                   [] OTHER -> phase

CheckNode(c, phase, n, published) ==
  IF ~c.ok \/ n[1] # KindOf(phase) THEN c
  ELSE CASE phase = "packageid" -> checkPackageID(c, n)
         [] phase = "use" -> checkUse(c, n, published)
         [] phase = "status" -> Insert(c, "statuses", Qid(n))
         [] phase = "const" -> checkConst(c, n)
         [] phase = "struct" -> checkStructDecl(c, n)
         [] phase = "fields" -> Require(c, checkFields(c, n[3], TRUE))
         [] phase = "signature" -> checkFuncSignature(c, n)
         [] phase = "body" -> checkFuncBody(c, n)
         [] phase = "collisions" -> checkFieldMethodCollisions(c, n)

CheckFile(c, phase, file, published) ==
  CASE ~c.ok -> c
    [] phase = "exists" -> Require(c, c.packageID # 0)
    [] phase = "cycles" -> checkStructCycles(c)
    [] OTHER -> FoldLeft(LAMBDA d, n : CheckNode(d, phase, n, published), c, file)

Check(files, published) ==
  FoldLeft(LAMBDA c, phase :
             FoldLeft(LAMBDA d, file : CheckFile(d, phase, file, published), c, files),
           NewChecker, phases)

(***************************************************************************)
(* What makes a package correct, whatever the order of its declarations   *)
(* and of its files.                                                      *)
(***************************************************************************)
OfKind(files, kind) == SelectSeq(FlattenSeq(files), LAMBDA n : n[1] = kind)
Distinct(s) == Cardinality(ToSet(s)) = Len(s)
Names(s) == [i \in DOMAIN s |-> s[i][2]]

Holds(n, o) == \E f \in ToSet(n[3]) : Innermost(f[2]) = <<"name", Qid(o)>>

ValidFields(fields, structs) ==
  /\ Distinct([i \in DOMAIN fields |-> fields[i][1]])
  /\ \A f \in ToSet(fields) :
       /\ TypeExists(f[2], structs) /\ bcheckField(f)
       /\ f[2][1] \in {"array", "ptr"} => f[3] = Nil

Valid(files, published) ==
  LET Of(kind) == OfKind(files, kind)
      uses == Names(Of("use"))
      imports == UNION {{<<Last(u), n>> : n \in ToSet(published[u][2])} : u \in ToSet(uses)}
      structs == {Qid(n) : n \in ToSet(Of("struct"))}
                   \cup {<<i[1], i[2][2]>> : i \in {j \in imports : j[2][1] = "struct"}}
      funcs == {<<Own, n[2], n[3]>> : n \in ToSet(Of("func"))}
                 \cup {<<i[1], i[2][2], i[2][3]>> : i \in {j \in imports : j[2][1] = "func"}}
      MethodOf(f, m) == \E t \in {f[2]} \cup IF f[2][1] = "ptr" THEN {f[2][2]} ELSE {} :
                           t[1] = "name" /\ <<t[2][1], t[2][2], m>> \in funcs
  IN /\ Len(Of("packageid")) = 1 /\ Encode(Of("packageid")[1][2]) # 0
     /\ Distinct([i \in DOMAIN uses |-> Last(uses[i])])
     /\ \A u \in ToSet(uses) : u \in DOMAIN published /\ published[u][1] = "wuffs"
     /\ \A kind \in {"status", "const", "struct"} : Distinct(Names(Of(kind)))
     /\ \A n \in ToSet(Of("const")) :
          /\ Innermost(n[3])[1] = "num" /\ ~HasPointers(n[3])
          /\ 0 <= Innermost(n[3])[2] /\ Innermost(n[3])[3] <= 255
          /\ checkConstElement(n[4], n[3])
     /\ \A X \in SUBSET ToSet(Of("struct")) \ {{}} :
          \E n \in X : \A o \in X : ~Holds(n, o)
     /\ \A n \in ToSet(Of("struct")) :
          /\ ValidFields(n[3], structs)
          /\ \A f \in ToSet(n[3]) : /\ ~HasPointers(f[2])
                                    /\ <<Own, n[2], f[1]>> \notin funcs
     /\ Distinct([i \in DOMAIN Of("func") |-> <<Of("func")[i][2], Of("func")[i][3]>>])
     /\ \A n \in ToSet(Of("func")) :
          /\ ValidFields(n[4], structs) /\ ValidFields(n[5], structs)
          /\ n[2] # "" => Qid(n) \in structs
          /\ n[6] # <<>> => n[2] # ""
          /\ \A call \in ToSet(n[6]) :
               IF Len(call) = 1 THEN <<Own, n[2], call[1]>> \in funcs
               ELSE \E s \in ToSet(Of("struct")) : \E f \in ToSet(s[3]) :
                      s[2] = n[2] /\ f[1] = call[1] /\ MethodOf(f, call[2])

(***************************************************************************)
(* Status codes, 32 bit signed integers: the sign bit for an error, the   *)
(* packageid in bits 10-30, and in the low 8 bits an index into the       *)
(* messages of that package.  Packageid 0 is the built-in list.           *)
(***************************************************************************)
StatusList == <<
  <<"ok", "ok">>, <<"error", "bad wuffs version">>, <<"error", "bad receiver">>,
  <<"error", "bad argument">>, <<"error", "initializer not called">>,
  <<"error", "invalid I/O operation">>, <<"error", "closed for writes">>,
  <<"error", "unexpected EOF">>, <<"suspension", "short read">>,
  <<"suspension", "short write">>, <<"error", "cannot return a suspension">>,
  <<"error", "invalid call sequence">>, <<"suspension", "end of data">> >>

maxNamespacedStatusCode == 255

(* 2^31 is one more than TLC's largest integer.                           *)
Code(id, keyword, i) ==
  LET bits == id * 1024 + i IN
  IF keyword = "error" THEN (bits - 2147483647) - 1 ELSE bits

(* Variant: the shifted code is used as it is, sign bits included.        *)
NamespaceUnmasked(s) == s \div 1024

Namespace(s) == (s \div 1024) % 2^21

(***************************************************************************)
(* The generated code: the header, which inlines the headers of the used  *)
(* packages, and the implementation.                                      *)
(***************************************************************************)
gatherStatuses(files, id) ==
  LET list == OfKind(files, "status") IN
  [i \in DOMAIN list |-> <<list[i][3], list[i][2], Code(id, list[i][3], i - 1)>>]

(* writeUse inlines a header up to its end if it holds the base header it *)
(* strips; one cut off after that passes.                                 *)
CanInline(h) == h[1] \in {"h", "cut"}

genHeader(dir, files, id, headers) ==
  LET uses == Names(OfKind(files, "use")) IN
  <<"h", Last(dir), id, gatherStatuses(files, id),
    TopologicalSortStructs(OfKind(files, "struct")).dst,
    [i \in DOMAIN uses |-> <<uses[i], headers[uses[i]]>>]>>

genImpl(files) == LET funcs == OfKind(files, "func") IN
                  [i \in DOMAIN funcs |-> <<funcs[i][2], funcs[i][3], funcs[i][6]>>]

(* status__string of the package whose .c file is cs[dir], linked with    *)
(* the others of cs.                                                      *)
RECURSIVE StatusString(_, _, _)
StatusString(cs, dir, s) ==
  LET h == cs[dir][2]
      i == s % 256
      used == SelectSeq(h[6], LAMBDA u : u[2][3] = Namespace(s))
  IN CASE Namespace(s) = 0 ->
            IF i < Len(StatusList) THEN <<"base", StatusList[i + 1][2]>> ELSE Nil
       [] Namespace(s) # 0 /\ Namespace(s) = h[3] ->
            IF i < Len(h[4]) THEN <<h[2], h[4][i + 1][2]>> ELSE Nil
       [] Namespace(s) \notin {0, h[3]} /\ used # <<>> ->
            StatusString(cs, used[1][1], s)
       [] OTHER -> Nil

(***************************************************************************)
(* genWuffs: the interface of a package, its public declarations without  *)
(* fields and bodies.  Public constants and free-standing functions are   *)
(* not supported.                                                         *)
(***************************************************************************)
IsPublic(n) == n[1] \in {"status", "const", "struct", "func"} /\ Last(n)

CanPublish(files) ==
  /\ OfKind(files, "packageid") # <<>>
  /\ \A n \in ToSet(FlattenSeq(files)) :
       IsPublic(n) => n[1] # "const" /\ (n[1] = "func" => n[2] # "")

Publish(files) ==
  LET public == SelectSeq(FlattenSeq(files), IsPublic)
      Bare(n) == CASE n[1] = "struct" -> <<"struct", n[2], <<>>, TRUE>>
                   [] n[1] = "func" -> [n EXCEPT ![6] = <<>>]
                   [] OTHER -> n
  IN <<Last(OfKind(files, "packageid"))>> \o [i \in DOMAIN public |-> Bare(public[i])]
=============================================================================
