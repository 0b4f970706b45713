------------------------------- MODULE Build -------------------------------
(***************************************************************************)
(* The build: "wuffs gen", "wuffs genlib" and "wuffs test" over a tree of *)
(* packages (cmd/wuffs), each package checked and generated by a          *)
(* "wuffs-c gen" process (lang/generate, Package).  Sources change between *)
(* runs, and a run may stop anywhere: the process is killed, or a tool or  *)
(* a file operation fails.  What it wrote so far stays on disk, and a file *)
(* it was writing may be cut off.                                          *)
(*                                                                        *)
(* A directory is a sequence of names.  A run works through a stack of    *)
(* tasks, the calls of genHelper and testHelper that are still to come:   *)
(*   <<"helper">>, <<"gen", dir, recursive>>, <<"compile", dir>>,         *)
(*   <<"write", dir, extension>>, <<"publish", dir>>, <<"genlib">>,       *)
(*   <<"object", dir>>, <<"archive">>, <<"test", dir, recursive>>.        *)
(***************************************************************************)
EXTENDS Package, TLC

CONSTANTS Dirs,        (* the directories of the tree                        *)
          Subdirs,     (* their subdirectories, sorted                       *)
          Histories,   (* sequences of checkouts: files of every directory   *)
          Commands     (* command lines                                      *)

ASSUME BuildAssumption ==
  /\ Subdirs \in [Dirs -> Seq(Dirs)]
  /\ \A history \in Histories : Len(history) > 0
  /\ \A command \in Commands :
       DOMAIN command = {"kind", "args", "skipgen", "skipgendeps"}

VARIABLES history,     (* the checkouts still to come, the current one first *)
          gen,         (* the files under gen/c, gen/h and gen/wuffs         *)
          objects,     (* the object files of genlib                         *)
          archive,     (* the members of the static library                  *)
          cmd,         (* the command line of the run                        *)
          status,      (* "idle", "running", "ok" or "failed"                *)
          todo, seen, affected,
          missed,      (* ghost: what a recursive gen did not come to        *)
          out,         (* what wuffs-c wrote to its standard output          *)
          checked,     (* the package just checked, and the checker's answer *)
          tested,      (* the directories tested for this argument           *)
          failed       (* some test failed                                   *)

disk == <<gen, objects, archive>>
helper == <<todo, seen, missed, affected, out>>
vars == <<history, disk, cmd, status, helper, checked, tested, failed>>

Absent == <<"absent">>
src == Head(history)
running == status = "running"

Init ==
  /\ history \in Histories
  /\ gen = [d \in Dirs |-> [c |-> Absent, h |-> Absent, wuffs |-> Absent]]
  /\ objects = [d \in Dirs |-> Absent] /\ archive = objects
  /\ cmd = [kind |-> "gen", args |-> <<>>, skipgen |-> FALSE, skipgendeps |-> FALSE]
  /\ status = "idle" /\ todo = <<>> /\ seen = {} /\ missed = {} /\ affected = <<>> /\ out = Nil
  /\ checked = Nil /\ tested = {} /\ failed = FALSE

(* The developer edits the sources between two runs, or does not: a       *)
(* history may repeat a checkout.  It bounds the number of runs.          *)
Edit ==
  /\ ~running /\ Len(history) > 1
  /\ history' = Tail(history) /\ status' = "idle"
  /\ seen' = {} /\ missed' = {} /\ affected' = <<>> /\ out' = Nil /\ checked' = Nil /\ tested' = {}
  /\ failed' = FALSE
  /\ UNCHANGED <<disk, cmd, todo>>

(***************************************************************************)
(* doGenGenlib and doBenchTest.  A test generates every argument with a   *)
(* helper of its own, then tests it.                                      *)
(***************************************************************************)
(* Variant: an argument is tested before it is generated.                 *)
PlanTestFirst(k) ==
  FlattenSeq([i \in DOMAIN k.args |->
    LET arg == k.args[i] IN
    (IF k.kind = "test" THEN <<<<"test", arg[1], arg[2]>>, <<"helper">>>> ELSE <<>>)
      \o (IF k.skipgen THEN <<>> ELSE <<<<"gen", arg[1], arg[2]>>>>)])
  \o (IF k.kind = "genlib" THEN <<<<"genlib">>>> ELSE <<>>)

Plan(k) ==
  FlattenSeq([i \in DOMAIN k.args |->
    LET arg == k.args[i] IN
    (IF k.kind = "test" THEN <<<<"helper">>>> ELSE <<>>)
      \o (IF k.skipgen THEN <<>> ELSE <<<<"gen", arg[1], arg[2]>>>>)
      \o (IF k.kind = "test" THEN <<<<"test", arg[1], arg[2]>>>> ELSE <<>>)])
  \o (IF k.kind = "genlib" THEN <<<<"genlib">>>> ELSE <<>>)

Invoke(k) ==
  /\ status = "idle"
  /\ cmd' = k /\ status' = "running" /\ todo' = Plan(k)
  /\ UNCHANGED <<history, disk, seen, missed, affected, out, checked, tested, failed>>

(* The run's next task is a call of the given kind.                       *)
Do(kind) == running /\ todo # <<>> /\ Head(todo)[1] = kind

(* An error returned by any call ends the run.                            *)
Error == /\ status' = "failed" /\ todo' = <<>>
         /\ UNCHANGED <<history, disk, cmd, seen, missed, affected, out, tested, failed>>

Finish ==
  /\ running /\ todo = <<>>
  /\ status' = IF failed THEN "failed" ELSE "ok"
  /\ checked' = Nil
  /\ UNCHANGED <<history, disk, cmd, helper, tested, failed>>

(***************************************************************************)
(* genHelper.gen: a directory is generated once per helper, after the     *)
(* packages it uses (not recursively) and before its subdirectories.      *)
(***************************************************************************)
Uses(d) == Names(OfKind(src[d], "use"))

(* Variant: the packages it uses are generated after it.                  *)
genDirLate(d) ==
  <<<<"compile", d>>, <<"write", d, "c">>, <<"write", d, "h">>, <<"publish", d>>>>
    \o (IF cmd.skipgendeps THEN <<>>
        ELSE [i \in DOMAIN Uses(d) |-> <<"gen", Uses(d)[i], FALSE>>])

genDir(d) ==
  (IF cmd.skipgendeps THEN <<>>
   ELSE [i \in DOMAIN Uses(d) |-> <<"gen", Uses(d)[i], FALSE>>])
    \o <<<<"compile", d>>, <<"write", d, "c">>, <<"write", d, "h">>, <<"publish", d>>>>

(* The directories below d.                                               *)
Inside(d) == {e \in Dirs : IsStrictPrefix(d, e)}

Gen ==
  /\ Do("gen") /\ checked' = Nil
  /\ LET d == Head(todo)[2] IN
     \/ /\ d \in seen
        /\ todo' = Tail(todo)
        /\ missed' = IF Head(todo)[3] THEN missed \cup (Inside(d) \ seen) ELSE missed
        /\ UNCHANGED <<history, disk, cmd, status, seen, affected, out, tested, failed>>
     \/ /\ d \notin seen /\ d \in Dirs
        /\ seen' = seen \cup {d} /\ missed' = missed \ {d}
        /\ todo' = (IF src[d] = <<>> THEN <<>> ELSE genDir(d))
                     \o (IF Head(todo)[3]
                         THEN [i \in DOMAIN Subdirs[d] |-> <<"gen", Subdirs[d][i], TRUE>>]
                         ELSE <<>>)
                     \o Tail(todo)
        /\ UNCHANGED <<history, disk, cmd, status, affected, out, tested, failed>>
     \/ d \notin seen /\ d \notin Dirs /\ Error

(* generate.Do in the wuffs-c process: names, check, generate.            *)
Published == [d \in Dirs |-> gen[d].wuffs]
Prohibited == {"base", "base_header", "base_impl", "config", "version"}

Compile ==
  /\ Do("compile")
  /\ LET d == Head(todo)[2]
         c == Check(src[d], Published)
         header == genHeader(d, src[d], c.packageID, [u \in Dirs |-> gen[u].h])
     IN /\ checked' = <<d, c.ok>>
        /\ IF /\ c.ok /\ Last(d) \notin Prohibited
              /\ Len(OfKind(src[d], "status")) <= maxNamespacedStatusCode
              /\ \A u \in ToSet(Uses(d)) : CanInline(gen[u].h)
           THEN /\ out' = [c |-> <<"c", header, genImpl(src[d])>>, h |-> header]
                /\ todo' = Tail(todo)
                /\ UNCHANGED <<history, disk, cmd, status, seen, missed, affected, tested, failed>>
           ELSE Error

(* Variant: a file that exists is taken to be up to date.                 *)
WriteMissing ==
  /\ Do("write")
  /\ LET d == Head(todo)[2]  lang == Head(todo)[3] IN
     gen' = IF gen[d][lang] # Absent THEN gen ELSE [gen EXCEPT ![d][lang] = out[lang]]
  /\ todo' = Tail(todo) /\ checked' = Nil
  /\ UNCHANGED <<history, objects, archive, cmd, status, seen, missed, affected, out, tested, failed>>

(* genFile: a file that would not change is not written.                  *)
Write ==
  /\ Do("write")
  /\ LET d == Head(todo)[2]  lang == Head(todo)[3] IN
     gen' = IF gen[d][lang] = out[lang] THEN gen ELSE [gen EXCEPT ![d][lang] = out[lang]]
  /\ todo' = Tail(todo) /\ checked' = Nil
  /\ UNCHANGED <<history, objects, archive, cmd, status, seen, missed, affected, out, tested, failed>>

(* genWuffs, after which gen notes the directory as affected.             *)
GenWuffs ==
  /\ Do("publish") /\ checked' = Nil
  /\ LET d == Head(todo)[2] IN
     \/ /\ CanPublish(src[d])
        /\ gen' = [gen EXCEPT ![d].wuffs = <<"wuffs", Publish(src[d])>>]
        /\ affected' = Append(affected, d) /\ todo' = Tail(todo)
        /\ UNCHANGED <<history, objects, archive, cmd, status, seen, missed, out, tested, failed>>
     \/ ~CanPublish(src[d]) /\ Error

(***************************************************************************)
(* genlibAffected, and "wuffs-c genlib": an object file per package, then *)
(* the library.  "ar rc" replaces members and keeps the others.           *)
(***************************************************************************)
GenlibAffected ==
  /\ Do("genlib")
  /\ todo' = [i \in DOMAIN affected |-> <<"object", affected[i]>>] \o <<<<"archive">>>>
  /\ UNCHANGED <<history, disk, cmd, status, seen, missed, affected, out, checked, tested, failed>>

GenObj ==
  /\ Do("object")
  /\ objects' = [objects EXCEPT ![Head(todo)[2]] = gen[Head(todo)[2]].c]
  /\ todo' = Tail(todo)
  /\ UNCHANGED <<history, gen, archive, cmd, status, seen, missed, affected, out, checked, tested, failed>>

GenLib ==
  /\ Do("archive")
  /\ archive' = [d \in Dirs |-> IF d \in ToSet(affected) THEN objects[d] ELSE archive[d]]
  /\ todo' = Tail(todo)
  /\ UNCHANGED <<history, gen, objects, cmd, status, seen, missed, affected, out, checked, tested, failed>>

(***************************************************************************)
(* testHelper.benchTest.  A test that fails, or does not compile, is      *)
(* remembered and the others still run.                                   *)
(***************************************************************************)
NewHelper ==
  /\ Do("helper")
  /\ seen' = {} /\ affected' = <<>> /\ tested' = {} /\ todo' = Tail(todo)
  /\ UNCHANGED <<history, disk, cmd, status, missed, out, checked, failed>>

BenchTest ==
  /\ Do("test") /\ checked' = Nil
  /\ LET d == Head(todo)[2] IN
     \/ /\ d \in Dirs
        /\ todo' = (IF Head(todo)[3]
                    THEN [i \in DOMAIN Subdirs[d] |-> <<"test", Subdirs[d][i], TRUE>>]
                    ELSE <<>>) \o Tail(todo)
        /\ IF src[d] = <<>> THEN UNCHANGED <<tested, failed>>
           ELSE /\ tested' = tested \cup {d}
                /\ failed' \in {TRUE, failed \/ gen[d].c[1] # "c"}
        /\ UNCHANGED <<history, disk, cmd, status, seen, missed, affected, out>>
     \/ d \notin Dirs /\ Error

(***************************************************************************)
(* The run stops: killed, or an operation fails.  ioutil.WriteFile        *)
(* truncates before it writes, so the file being written may be cut off:  *)
(* "stub" is one that the next reader rejects; a header cut after the     *)
(* part that writeUse strips, and an interface cut after a declaration,   *)
(* still pass.                                                            *)
(***************************************************************************)
CutOff ==
  LET d == Head(todo)[2] IN
  IF todo = <<>> THEN {}
  ELSE CASE Do("write") /\ gen[d][Head(todo)[3]] # out[Head(todo)[3]] ->
              {[gen EXCEPT ![d][Head(todo)[3]] = <<f>>] : f \in {"stub", "cut"}}
         [] Do("publish") /\ CanPublish(src[d])
              /\ gen[d].wuffs # <<"wuffs", Publish(src[d])>> ->
              {[gen EXCEPT ![d].wuffs = <<"wuffs", SubSeq(Publish(src[d]), 1, n)>>]
                 : n \in 0..Len(Publish(src[d])) - 1}
              \cup {[gen EXCEPT ![d].wuffs = <<"stub">>]}
         [] OTHER -> {}

Abort ==
  /\ running
  /\ gen' \in {gen} \cup CutOff
  /\ status' = "failed" /\ todo' = <<>> /\ checked' = Nil
  /\ UNCHANGED <<history, objects, archive, cmd, seen, missed, affected, out, tested, failed>>

Next ==
  \/ Edit \/ \E k \in Commands : Invoke(k)
  \/ Gen \/ Compile \/ Write \/ GenWuffs
  \/ GenlibAffected \/ GenObj \/ GenLib
  \/ NewHelper \/ BenchTest
  \/ Finish \/ Abort

Spec == Init /\ [][Next]_vars

(***************************************************************************)
(* What a build of the current sources in an empty tree would write.      *)
(***************************************************************************)
RECURSIVE CleanHeader(_)
CleanHeader(d) ==
  genHeader(d, src[d], Encode(FlattenSeq(Names(OfKind(src[d], "packageid")))),
            [u \in ToSet(Uses(d)) |-> CleanHeader(u)])

Clean(d) == [c |-> <<"c", CleanHeader(d), genImpl(src[d])>>,
             h |-> CleanHeader(d), wuffs |-> <<"wuffs", Publish(src[d])>>]

RECURSIVE Below(_, _)
Below(S, n) ==
  IF n = 0 THEN S ELSE Below(S \cup UNION {ToSet(Uses(d)) \cap Dirs : d \in S}, n - 1)

AllBelow(S) == Below(S, Cardinality(Dirs))

(* Every package below d exists, and none uses itself, through others or  *)
(* not.                                                                   *)
UsesEnd(d) == \A e \in AllBelow({d}) :
                ToSet(Uses(e)) \subseteq Dirs /\ e \notin AllBelow(ToSet(Uses(e)))

(* A directory that "dir/..." did not come to, here or further up: the    *)
(* helper had met dir before, as a dependency or as an argument.          *)
Shadowed(d) == d \in missed

Requested ==
  {d \in Dirs : /\ src[d] # <<>>
                /\ \E i \in DOMAIN cmd.args :
                     \/ d = cmd.args[i][1]
                     \/ cmd.args[i][2] /\ IsPrefix(cmd.args[i][1], d) /\ ~Shadowed(d)}

(***************************************************************************)
(* Properties.                                                             *)
(***************************************************************************)
(* Whether a package is accepted does not depend on the order of its      *)
(* declarations and files: the phases of Check enter every name before    *)
(* one that may refer to it is checked, and the depth first search finds  *)
(* exactly the structs that contain themselves.                           *)
VerdictIsDeclarative ==
  checked # Nil => checked[2] = Valid(src[checked[1]], Published)

(* In a generated header a struct comes after the structs it contains,    *)
(* arrays of them included: C needs a complete type there.                *)
StructsInOrder ==
  \A d \in Dirs : gen[d].h[1] = "h" =>
    LET structs == gen[d].h[5] IN
    \A i \in DOMAIN structs : \A f \in ToSet(structs[i][3]) :
      LET t == Innermost(f[2]) IN
      t[1] = "name" /\ t[2][1] = Own /\ t[2][2] \notin BuiltInTypes =>
        \E j \in 1..i-1 : structs[j][2] = t[2][2]

(* A run that ends well leaves, for every package asked for and every     *)
(* package below it, what a build in an empty tree would: nothing an      *)
(* earlier run left, stale or cut off, survives in it, inlined headers    *)
(* and library members included.                                          *)
CleanBuild ==
  status = "ok" /\ ~cmd.skipgen /\ ~cmd.skipgendeps =>
    \A d \in AllBelow(Requested) : UsesEnd(d) =>
      /\ gen[d] = Clean(d)
      /\ cmd.kind = "genlib" => archive[d] = Clean(d).c

(* genHelper.affected, the order in which genlib compiles and links, has  *)
(* every package once, after the packages it uses.                        *)
AffectedInOrder ==
  /\ Distinct(affected)
  /\ ~cmd.skipgendeps =>
       \A i \in DOMAIN affected : UsesEnd(affected[i]) =>
         \A u \in ToSet(Uses(affected[i])) : \E j \in 1..i-1 : affected[j] = u

(* status__string of a package gives the message of each of its own       *)
(* statuses, of the built-in ones, and of those of the packages it uses,  *)
(* errors (negative codes) included.                                      *)
StatusStringsResolve ==
  status = "ok" /\ ~cmd.skipgen /\ ~cmd.skipgendeps =>
    LET cs == [d \in Dirs |-> gen[d].c] IN
    \A d \in AllBelow(Requested) : UsesEnd(d) =>
      /\ \A e \in {d} \cup ToSet(Uses(d)) : \A z \in ToSet(gen[e].h[4]) :
           StatusString(cs, d, z[3]) = <<Last(e), z[2]>>
      /\ \A i \in DOMAIN StatusList :
           StatusString(cs, d, Code(0, StatusList[i][1], i - 1))
             = <<"base", StatusList[i][2]>>

(* "wuffs test" tests code generated from the current sources, as the     *)
(* comment in doBenchTest says, but for shadowed subdirectories.          *)
TestsTheLatest ==
  running /\ ~cmd.skipgen /\ ~cmd.skipgendeps =>
    \A d \in tested : UsesEnd(d) /\ ~Shadowed(d) => gen[d] = Clean(d)
=============================================================================
