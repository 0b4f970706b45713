# Wuffs in TLA+

This directory models the core of Wuffs, the memory-safe language for handling
untrusted file formats, in TLA+: the checker that accepts a program, the code
generator that makes coroutines of it, the build that runs both over a tree of
packages, and the decoders of the standard library (`std/`) as the coroutines
they become. TLC checks each module on small instances; TLAPS proves the central
results about the decoders and about interval arithmetic for every value of the
constants. `PROJECT.json` lists components, runs, mutants,
the source lines behind each definition, findings, hazards and theorems.

Source paths below are relative to the repository.

## 1. The system

| Component | State it keeps | Operations | Talks to | What makes it correct |
|---|---|---|---|---|
| `std/deflate`, output side | `history` ring, `history_index`, the locals of a suspended copy | `decode`, `decode_blocks`, `decode_uncompressed`, `decode_huffman_fast`, `decode_huffman_slow` | the caller's `dst` | the text is the LZ77 expansion of the symbols, however `dst` is cut; unchecked copies are safe |
| `std/deflate`, input side | `bits`, `n_bits`, the read position | the same functions, `init_dynamic_huffman` | the caller's `src` | every bit is used once, in order; the read-ahead is given back |
| `std/deflate`, Huffman tables | `huffs`, `n_huffs_bits`, `code_lengths` | `init_huff`, `init_fixed_huffman`, `init_dynamic_huffman` | `decode_huffman_*` | a lookup finds the canonical code's symbol; the table is large enough |
| `std/gif` LZW decoder | `prefixes`, `suffixes`, `stack`, `save_code`, `width`, bits | `lzw_decoder.decode` | the gif decoder, over a limited reader | the text is what the codes stand for; chains end |
| `std/gif` decoder | `call_sequence`, `block_type`, loop count, rest of a sub-block | `decode_config`, `decode_frame` and their parts | the LZW decoder, the caller | each byte is read as the field it is; a frame starts afresh |
| `std/zlib`, `std/gzip`, `std/crc32` | checksum, length, the wrapped deflate decoder | `decode`, `set_ignore_checksum`, `update` | `std/deflate` | the checksum is of the text, however it is cut |
| coroutines (`cmd/wuffs-c/internal/cgen`) | `status`, `magic`, suspension points, saved locals, scratch | the prologue and epilogue of every `?` function, the I/O methods | the caller, nested coroutines | cutting the input is invisible, errors stick, a resume continues where it stopped |
| `lang/check`, bodies | the list of facts known at a program point | assignments, `if`, `while`, `assert ... via`, calls | `lang/ast` | a fact in the list is true of the program; no check that was left out was needed |
| `lang/check`, declarations | tables of names | one check per phase and declaration | `lang/ast`, the interfaces of used packages | the verdict does not depend on the order of declarations |
| `cmd/wuffs`, `cmd/wuffs-c gen`, `genlib` | generated files, `seen`, `affected` | `gen`, `genlib`, `test` | file system, child processes | a run that ends well leaves what a clean build would |
| `lang/interval` | none | `Add`, `Sub`, `Mul`, `Quo`, `Lsh`, `Rsh`, `And`, `Or` | no other package yet; `lang/check` has an arithmetic of its own | sound and tight |
| `lang/base38`, `lang/ast`, `lang/builtin` | graph marks | encode, compare, sort structs, built-in names | checker and generator | injective, acyclic order |
| `lang/token`, `lang/parse`, `lang/render`, `cmd/wuffsfmt` | token map | tokenize, parse, format | the drivers in `cmd/` | idempotent |
| `script/`, `example/`, `fuzz/`, `test/`, `gen/` | | tests, generated code | | |

What is hard here is not threads, of which there are none, but **resumption**: a
decoder is a coroutine that its caller may stop at any byte of input or output,
with buffers that the caller owns and replaces between two calls, and with other
coroutines suspended inside it; **shared state without owners**: `bits`,
`history` and the tables are left by one function for the next, and by one
block or frame for the next; **static proof**: the compiler removes bounds
checks because it believes facts about the state at a program point; and
**files left by earlier runs**, which the next build reads. The
`hazards` of `PROJECT.json` give the lines.

## 2. Plan

Done, in this order: the output side of deflate (`Lz77`, `DeflateHistory`), its
input side (`DeflateBits`), its tables (`HuffmanTable`, `HuffmanSize`), LZW
(`Lzw`, `GifLzw`), and the gif decoder around it (`GifDecoder`), which takes
`GifLzw` as a coroutine that reads and returns; interval arithmetic
(`Interval`); the checker and the programs it accepts (`Ast`, `TypeCheck`,
`Bounds`, `Checked`); the generated coroutines (`Coroutine`); packages and the
build (`Package`, `Build`).

Proved, in this order: the invariants of both sides of deflate and of LZW; that
`DeflateHistory` implements `Lz77` and `GifLzw` implements `Lzw`; that
`GifDecoder` stays in step with its stream and starts each frame afresh; that the
eight operations of `Interval` are sound and tight; that the tables of `HuffmanTable`
are built for the complete codes, without a test that fails, and that a lookup
in them finds the code.

Left to prove: that the second level tables of at most 286 codes fit into 1234
slots, which is what `HuffmanSize` searches at the real sizes; the proofs about
`HuffmanTable` leave that one test open. Further: that adler32's sums stay below
2^32 between two reductions, which is out of TLC's reach.

`Ast`, `TypeCheck`, `Bounds`, `Checked`, `Coroutine`, `Package` and `Build` are
about trees and recurse over them, with `RECURSIVE` operators: they are for TLC,
and no theorem is stated about them.

## 3. Modules

A suspended coroutine is `pc = "caller"`, with `resume` the suspension point.
Locals that the generated code saves are variables; so are the fields of the
decoder structs. Ghost variables say what was written, read or used over all
calls; no guard of the code looks at them. Variants that only mutants use stand
right before the definition they vary.

### Lz77, DeflateHistory

`Lz77` is what deflate promises once Huffman codes are resolved to symbols: a
text and the symbols whose expansion it is. `DeflateHistory` has the ring
`history` with `history_index` (slot and fullness in one number), a destination
buffer by its free space `avail` and what was written since the mark, and one
action per step of the copies: `Stored`; `FastLiteral`, `FastMatch`, `FastCopy`
of `decode_huffman_fast`; `SlowLiteral`/`WriteU8`, `SlowMatch`, `SplitMatch`,
`CopyToRingEnd`, `CopyFromRingStart`, `CopyFromBuffer` of
`decode_huffman_slow`. Every suspension goes through `Yield`, which appends the
text since the mark to the ring as `decode` does before it yields. `Call(cap)`
brings a new buffer. Which symbols come is free; that they are what the bits
say is the subject of the two modules that follow.

### DeflateBits

`n_bits`, and `width`, how many low bits of `bits` may be set, in place of
`bits` itself; `avail` and `got`, the bytes to the right and to the left of the
read position in the current buffer; ghosts `read` and `used`. Slow functions
read a byte at a time (`ReadU8`, `ShortRead`) for a field of known width or for
a table lookup, where `short` remembers that the code is prefix free: an entry
found with more bits is longer than the bits that did not suffice.
`FastLcode`, `FastDcode`, `FastExtra` load byte pairs below 15 bits;
`UnreadU8` and `FastReturn` are the rewind. `Stop` is every error return and
the end of the last block, after which nothing is claimed.

### HuffmanTable, HuffmanSize

`HuffmanTable` has one action per loop of `init_huff`, one step per symbol for
the loops that fill `symbols` and `huffs`, and every test that returns an error,
those that the bounds checker forces on the code included. Codes, keys and
slots are numbers as in the source (reversed, clipped to the first level,
spread over the high bits); entries are records. Every slot starts with a stale
entry. The test of the table against 1234 has a status of its own, `no_room`,
among the internal errors: only the sizes of the source decide it. `Lookup` is the lookup of `decode_huffman_slow`; `Reference` is RFC 1951,
section 3.2.2, without a table. `Reversed` is the reversal of any number of bits,
where the source looks up eight and shifts; `PowerAssumption` says what powers
of two are, for the exponents in use.

`HuffmanSize` answers the source's "TODO: replace the magic 'big enough' 1234
with something more principled, perhaps discovered via an exhaustive search"
(`std/deflate/decode_deflate.wuffs:94`). It keeps only how many codes each
length has, and follows which of them open and fill second level tables, at the
real sizes.

### Lzw, GifLzw

`Lzw` is LZW with strings, as `std/gif/README.md` tells it. `GifLzw` is
`lzw_decoder.decode`: codes of `width` bits cut out of bytes, `prefixes` and
`suffixes` that a clear code does not clear, the walk down a chain on `stack`
one step at a time, the code that is used before it is defined, and suspensions
in a code, before a literal and in an expansion. The ghost `entries` has the
strings that the codes since the last clear code stand for. The refinement
mapping takes `dict` from it, adding the entry that is about to be saved while a
code is being expanded, and reads `pending` off the stack; that the tables spell
`entries` is the invariant `StringsInv`.

### GifDecoder

The stream is a sequence of fields; the ghost `role` is the field that the next
byte belongs to, by the grammar of GIF, and `pc` is the field that the decoder
takes it for. One action per read of `decode_config`, `decode_frame`,
`decode_header`, `decode_lsd`, `decode_extension`, `decode_ae`, `skip_blocks`
and `decode_id`. `ri`, `wi` and `closed` are the caller's source buffer, which
`Feed` compacts and extends between calls.

`decode_id` puts a mark (`mark`) and calls `lzw.decode` on a limited copy of its
reader (`LzwCall`): the generated prologue computes from the limit and the
buffer where `lzw.decode` must stop (`rend`), so whether the two agree is not
assumed. `lzw.decode` is what `decode_id` sees of it: it is `fresh`, or it has
begun and `reads` next, has something to write (`writes`), or has met what it
takes for an end code and will return once all is written (`ends`). `LzwRead`
takes a byte, `LzwShortRead`, `LzwStops` and `LzwOk` are its returns, and
`AfterLzw` is what `decode_id` makes of `r.since_mark().length()` after them. A
suspended `lzw.decode` keeps its state, whatever `decode_id` does next.

What the encoder wrote is the ghosts `role` and `ended`, the second true once
the frame's end code has been read. Nothing restricts the encoder: every byte
may have every value. The ghost `regular` turns false when the encoder does what
`decode_ae` and `decode_id` do not allow for (`Expects`): it ends a loop
extension after its identifier, it writes other data after the LZW end code, in
the same sub-block or in others, or it ends a frame without an end code. No
action is guarded by it, and it is stated on the ghosts of the stream alone,
never on what the decoder does.

What the code does in these cases, which the run reaches (without the hypothesis
`regular`, TLC finds `InSync` and `FreshLzw` violated):

- bytes after the end code in the same sub-block are read as block sizes, since
  `decode_id` goes on without skipping them (`decode_gif.wuffs:321`);
- an empty sub-block ends a frame while `lzw.decode` is suspended
  (`decode_gif.wuffs:307`), and the next frame resumes it with the old
  dictionary, width and bits, as `set_literal_width` does not reset it;
- if a loop extension ends after its identifier, the terminator is skipped as a
  sub-block of another size than 3, and the byte after it is taken for a size
  (`decode_gif.wuffs:240`).

A source that is closed inside the LZW data is answered with "short read" for
ever, because a limited reader hides `closed` (`templates.h:27`, modelled by
`LzwShortRead`), although `lang/builtin/builtin.go:48` has that status for
`closed == false` alone. No liveness is claimed of this module.

### Interval

`lang/interval` bounds `x op y` given ranges of `x` and `y`. A range is a record
of two bounds, `nil` for an infinite one, and each operation is an operator with
the tests and the branches of the method; a behavior chooses two ranges and
calls one. The branches of `mulLsh`, `Quo` and `Rsh` over the signs of the
operands are `Widen` steps in the order of the code. A `big.Int` is an integer;
its bit operations are external, for negative numbers too, since `And` and `Or`
complement their operands; `BitsAnd` computes them from the sign down. `bitFillRight` is not defined where it panics, so TLC
would stop there; the panics of `Or` are a result, `panic`, which is no range.
The reference applies the operation to the integers of the ranges, `Apply`, cut
to `-Box..Box`. `BoxAssumption` and `ShiftAssumption` say that the ends of the
box and the largest shift are beyond what the operations make of finite bounds,
so that the reference can tell an infinite bound from a finite one;
`WidthAssumption` says that the box has `Width` bits and holds the power of two
next to a bound; `PowerAssumption` states that powers of two are positive, grow
and double, for the exponents that occur.

### Ast, TypeCheck, Bounds, Checked

A compiler beside the machine it compiles for. `Ast` has expressions and types
as tagged tuples, with the equality, mention and effects of `lang/ast`.
`TypeCheck` is `type.go`: the type of an expression or `Err`, the statements, the
hoisted variables. `Bounds` is `bounds.go`, `assert.go`, `optimize.go` and the
reasons of `data.go`: it walks a body with a sequence of facts and returns
whether it is accepted, the facts afterwards, and the body with each call marked
that needs no check at run time (a sixth component). `MType`, `bcheckExpr`,
`unify` and the others keep the names of the functions they model.

`Checked` sends a body through both (`Check`; the results are the constant
`Compiled`, which an assumption equates with `checkFuncBody`) and, if it is accepted, runs it as
the generated C does, without any check that was proved away: one action per
kind of statement, on every argument and every byte. `Resume` is what a caller
may do to a suspended function: other buffers, and another method that assigns
to a field. `wrong` collects what should have been excluded, so the four
properties are about the checker, not about the programs.

`CheckedMC` has families of bodies, shapes filled in every possible way; most
fillings are rejected. Integer types keep their order but are narrow (`u8` is
0..3), so that every boundary is met. These forms are accepted by the code
although what it then believes can be false. The families leave them out.
`checked_stale` runs one of them; for three more, `UnsoundFormsAreAccepted`, which
TLC evaluates, says that the model accepts the body given in `CheckedMC`, and
with that body as `Programs` the run is a violation of `AssertsHold`, too:

- `x = x + 1`, which adds the fact `x == x + 1` (`bcheckAssignment` does not ask
  whether the right hand side mentions the left): `SelfReference`;
- facts about `in`, `out` and `this` across a read, a write or a copy, which
  only a `yield` drops; `checked_stale` is the smallest instance, and
  `std/deflate/decode_huffman_fast.wuffs:352` a real one: it asserts
  `in.dst.available() >= 258` after a copy from the ring has used some of it
  ("TODO: copy_from_slice32 should probably update the in.dst.available() >= 258
  fact"). The copy that follows is safe nevertheless (`UncheckedCopyIsSafe`);
- `mark()` after a fact about `since_mark()`;
- facts about `a[i]` when `a[j]` is assigned and `i = j`: `Alias`;
- `iterate`, whose body is checked as if it ran once ("TODO: this isn't right");
- a variable read before the statement that declares it, which hoisting allows;
- a fact that a branch has twice: `unify` counts occurrences, where the language
  document says intersection: `Duplicate`.

### Coroutine

`Compile` is the code generator: a body becomes a sequence of instructions, with
a `point` in front of what may suspend, relative jumps, and temporaries for the
results of suspendible calls. The state machine runs that code. `self` is the
receiver (status, magic, fields, and for each method its suspension point, saved
variables and scratch), `frames` the C stack with the derived pointers `rptr`,
`wptr`, `src` and `dst` the caller's buffers. `Enter` is the prologue, `Leave`
the three ways out (`ok`, `suspend`, `exit`), `LoadUXX` and `GatherUXX` the two
ways of a `read_uXX`, with the bytes and their number in one scratch word,
`CallHelper` and `Returned` a call of a private method. Variables that are not
restored hold `Junk`. `helper` stands for the methods that `cgen` knows by name
(`decode_header` and so on), `try helper` for a `try` call.

`Run` is the reference: the same body executed on the whole input with room for
all its output, without suspension points, registers or a receiver.

A statement with two suspendible reads, `x = in.src.read_u8?() +
in.src.read_u8?()`, is left out. It has one suspension point, in front of both,
and the temporaries are not saved: when the second read suspends, the resumed
statement reads its first operand anew. The checker accepts such a statement and
a comment in `writeCallSuspendibles` says that the order of the calls "is
important here"; no decoder under `std` has one.

Nor does a body suspend between a read and `unread_u8`. There the outcome does
depend on how the input is cut: `unread_u8` gives back a byte of the buffer of
the current call, and fails if the byte came with an earlier one. The one use
under `std`, the rewind of `decode_huffman_fast`, does not suspend in between;
that enough bytes of the current buffer are behind the read position there is
part of `BitAccounting` in `DeflateBits`.

### Package, Build

`Package` has one package: declarations as tuples, the tables and the twelve
phases of `check.go` (`checkFuncContract` apart), `TopologicalSortStructs`,
`Encode` of base38, the status codes (32 bit, the sign for errors), what
`wuffs-c gen` writes into header and implementation, `status__string`, and the
interface that `wuffs gen` publishes. `Valid` is the reference: what makes a
package correct, said without an order.

`Build` runs `gen`, `genlib` and `test` over a tree. `todo` is the stack of calls
of `genHelper` and `testHelper` that are still to come; `Compile` is a `wuffs-c`
process, which reads the interfaces and headers that are on disk at that moment.
`Edit` changes sources between runs. `Abort` is a kill or a failure at any step;
`WriteFile` truncates first, so a file may be cut off, and some cut-off files
are accepted by their readers. Every command starts from what the ones before it
left.

What the properties except, because the code does not do it: packages that use
each other in a cycle (`UsesEnd`), which generate without end of the dependency
order; and subdirectories that are `Shadowed`: `wuffs test std/b/...` generates
`std/b`, but if `std/b` was seen before in this command, as a dependency or as an
argument, `gen` returns at once (`gen.go:95`) and its subdirectories are
skipped and, in a test, tested with the old code. The ghost `missed` has exactly
the directories that the current command skipped in this way, so `std/b/x` is
covered whenever the command came to it. The tests of the spelling of a path (`IsValidUsePath`,
`validName`) are left out: directories are model values, and a name that is
refused ends a command as `Abort` does.
`-skipgendeps` promises nothing about dependencies. Further: a member of
the library whose package is gone stays there (`ar rc`); a status of a package
that is used only indirectly has no string; a public constant or free function
fails `genWuffs` after the `.c` and `.h` have been written.

## 4. Runs

| Run | What it shows |
|---|---|
| `deflate_history` | The inductive invariant and its parts (`ResumableCopies`, `RingHoldsText`, `UncheckedCopyIsSafe`), that a short write is not reported for a buffer that was not touched though it had space (which the fuzzers demand), and the refinement of `Lz77`; and that a match is eventually expanded in full, although `CopyFromBuffer` can suspend without having copied. |
| `deflate_bits` | `BitAccounting`, its parts, and `StoredIsAligned`. It settles the question at `decode_huffman_slow.wuffs:260` ("assert n_bits < 8? What about (bits >> n_bits)?"): both hold. |
| `huffman_table` | For all code length lists of the instance: tables are built exactly for complete codes, none of the internal errors can occur, no slot is written twice, and a lookup with any number of bits agrees with the RFC. |
| `huffman_size` | At most 852 of the 1234 slots are used; 851 fails, and so does 287 symbols. |
| `gif_lzw` | Chains descend, so the error for cyclical chains is unreachable; the width holds the next code; the refinement of `Lzw`. |
| `gif_decoder` | What `lzw.decode` has read since the mark is never more than is left of the sub-block, for every encoder and over all suspensions and buffers (`NoInternalError`). Until an encoder does one of the three things above, both methods stay in step with the stream (`InSync`) and every frame starts with a fresh LZW decoder (`FreshLzw`): the output is waited for, and the end code met, before a frame is left. |
| `interval` | Each operation returns the smallest range that holds all results (`Sound`, `Tight`), fails exactly if one is undefined, and never panics; equality and the sign tests agree with the elements. `Tight` excepts `Sub` of opposite rays, such as `[3, +oo) - (-oo, 15]`, where the code gives up the finite bound -12; `TestOpSub` and the brute force oracle of `radial_test.go` expect the same, so only an independent reference shows it. |
| `interval_negative` (violation) | `And` and `Or` return ok for a range with negative integers if the other one is empty (`interval.go:539`, `584`), where their comments say that ok is false if x or y contains a negative value. The code's answer is sound, as there is no result; `FailsIfUndefined` says what it does. |
| `checked` | Of some 3,000 bodies, those that the checker accepts never fail an assertion (`AssertsHold`), overflow (`NoOverflow`), leave an array (`IndexInBounds`), or meet a case that an unchecked call cannot handle (`FastCallsAreSafe`). |
| `checked_stale` (violation) | `if this.f == 1 { x = in.src.read_u8?(); assert this.f == 1 }` is accepted, and the assertion is false if another method ran while the read was suspended. |
| `coroutine` | Each body, cut anywhere, comes to the status, output, position and fields of the uninterrupted run (`ChunkingIsInvisible`) and is on the way to them whenever it is suspended (`SuspendedMidway`); an error is returned for ever (`ErrorsAreFinal`); a run ends if the caller keeps calling (`Completes`). |
| `build` | A package's verdict is that of `Valid` (`VerdictIsDeclarative`); structs and packages come after those they need (`StructsInOrder`, `AffectedInOrder`); a run that ends well leaves what a clean build would, whatever earlier runs left (`CleanBuild`, `TestsTheLatest`); every status has its string, negative ones included (`StatusStringsResolve`). |

### Bounds, and why they are enough

- `DeflateHistory.cfg`: a ring of 4, matches of 3, buffers of up to 5 and symbols
  read until the text has 5 bytes: the ring fills and wraps, a match reaches back
  over the whole ring, straddles its end and the buffer, and overlaps itself, and
  each part of it is suspended. A stored block has one byte, which the caller may
  leave no room for; the bytes of longer ones are written and appended as runs
  of literals are. The proofs cover every size.
- `DeflateBits.cfg`: code lengths 1, 7, 9, 15 and 0, 5 or 13 extra bits are the
  extremes of the tables; 14 bytes allow an iteration of the fast loop (12) and
  what comes before and after it.
- `HuffmanTable.cfg`: 2 bits at the first level and codes of up to 4 bits keep
  the code's proportions (`MaxLen <= 2 * Primary`); 7 symbols give first level
  codes, several second level tables of both sizes and every error. `TableSize`
  is 10: `HuffmanSize` with these sizes also gives 10, one slot less would be an
  internal error.
- `HuffmanSize.cfg`: the source's numbers, exhaustively.
- `GifLzw.cfg`: codes of up to 3 bits: a literal width of 1 or 2 makes the
  dictionary full within 6 codes, which also allow a clear and a second
  dictionary over the first. Literal width 1 does not occur in GIF; it makes
  room for longer chains.
- `GifDecoder.cfg`: fields of 2 or 3 bytes, sub-blocks of 0 to 3, buffers of up
  to 3 bytes; the number of blocks and frames is not bounded.
- `Interval.cfg`: bounds in -3..3 and infinite ones give every combination of
  signs, zero bounds and empty ranges for the arithmetic operations; bounds up
  to 11 give `And` and `Or` four bits, with several to trade. `Box` is 32, so
  that a result of an unbounded range is `Far` beyond all finite bounds even
  after a shift right by 3.
- `CheckedMC.cfg`: two statements under a condition, chains of two conditions
  with branches that leave, loops with conditions to keep and labelled jumps,
  every reason of `data.go` with matching and not matching facts, buffers of 0 to
  3 bytes. A wrong fact needs one statement that should drop it and one that
  uses it, which every family has.
- `CoroutineMC.cfg`: every pair of suspendible steps between a read and a write;
  loops with jumps out of two levels; a helper with variables of its own, called
  twice, and tried. Input arrives 0, 1 or 4 bytes at a time and room for 0 or 2
  bytes is offered, so each read, gathered byte, skip and write is cut; two runs
  and two initializations show what is left over from the first.
- `BuildMC.cfg`: every order (rotations of both directions) and two ways to split
  into files of some thirty packages, half of them with a mistake; two checkouts
  of a tree with a dependency, a dependency of both, and a subdirectory, built
  with six commands, each of which may stop anywhere.

### Fairness

`deflate_history`: weak fairness of the decoder's own steps, as a running call
does not stop, and that the caller again and again offers a buffer with space,
which a caller that wants the output does. Nothing is assumed of the input.

`coroutine`: weak fairness of `Step`, for the same reason, and strong fairness
of `KeepCalling`: after a suspension the caller sooner or later calls again with
the rest of the input, closed, and with some room. Strong, because the caller may
do other things in between, such as offer no room or initialize.

### Deadlock

Checked in every run of a decoder under `std`: one that has returned stutters
explicitly, and a suspended one can be called. A behavior of `Interval` ends
after one call, one of `Checked` when its body returns or is rejected. In
`Coroutine` and `Build` the bounds on runs, initializations and checkouts end a
behavior; that nothing else does is `Completes` for the first.

## 5. Proofs

TLAPS proves, for all values of the constants that satisfy the assumptions in
the modules:

- `DeflateHistoryProofs`: `ResumableCopiesInvariant`, `RingInvariant`,
  `UncheckedCopyInvariant`. `RingHoldsText` alone is not inductive: a copy from
  the ring that resumes after `decode` has appended to the same ring reads the
  right byte only because `hdist` still points `distance` minus the unflushed
  bytes before the index (`RingCopyState`), and what it writes is right only
  because of what the match wrote before (`MatchState`). The proof has a lemma
  per action, over lemmas on `Mask`, on appending to the ring and on the two
  copies. Assumptions: a ring longer than a match, non-empty byte set.
- `DeflateBitsProofs`: `BitAccountingInvariant`, `StoredAlignment`. The
  invariant adds to `8 * read = used + n_bits` how many bits each point may hold
  (`BitsPerPoint`) and how much source each point of the fast loop still has
  (`SourceNeeded`): without them neither the u32 nor the rewind is safe.
- `DeflateHistoryRefinement`: `Refinement`, `Spec => ImplementsLz77`, from
  `ResumableCopies` as the inductive invariant, with a lemma for each kind of
  step: those that complete a symbol append its expansion, those in the middle of
  a match leave the abstract text alone. `ShortWriteInvariant`, with `Progress` as
  its invariant: `CopyFromBuffer` is entered with bytes in the buffer.
- `HuffmanTableProofs`, in four layers, each on top of the one before.
  `InductiveInvariant`: `Inv` ties the loops of `init_huff` to the code lengths.
  `Unused[l]` is how many words of `l` bits no code of at most `l` bits covers
  (`Kraft`); the code that is next has the value `2^l - Unused[l]` less what is
  left of `counts[l]`, and its place in `symbols` is how many codes are shorter,
  or as long and earlier (`InOrder`, `AllSorted`). From it `NoTestFails`: no
  test fails but, at most, `no_room`. `TablesForCompleteCodes` relates what
  `Remaining` computes to the sum of the intervals of RFC 1951 (`WeightUpTo`).
  `FreshAlways`: a slot whose reversed number lies at or beyond the interval of
  the next code is stale, in the first level, in the current table and after
  `next_top` (`Fresh`); from it `SlotsWrittenOnce`. `BuiltAlways`: the slots that
  a code passed by the loop leads to hold its symbol, and the current second
  level table is as wide as the longest code with its key (`Built`; `LeftExact`
  says what the loop that looks for the width computes). From it
  `LookupFindsTheCode`: every stream starts with exactly one code (`CodeLength`,
  `NoLonger`, `OneCode`), the lookup leads to its slot (`FirstLookup`,
  `SecondLookup`), and the reference finds the same symbol (`InInterval`).
  Sums, reversed bits, `Remaining` and `Left` are recursive; what they compute is
  proved with `LeastElement`, from the library's theorem that strict inclusion
  of finite sets is well founded: a claim is a set of numbers, and the least
  counterexample is refuted. Assumptions: the proportions of the sizes
  (`HuffmanTableAssumption`) and the powers of two.
- `GifLzwProofs`: `ChainsDescendInvariant`, `NotCyclicalInvariant`,
  `WidthFitsInvariant`. The prefix of an entry is smaller than the entry and
  defined since the last clear; on the walk, `c <= s` holds, so the stack cannot
  run out before the chain ends. Powers of two enter through facts in
  `GifLzwAssumption`.
- `GifLzwRefinement`: `Refinement`, `Spec => ImplementsLzw`. The invariant is that
  of `GifLzwProofs` and `StringsInv`: each entry of the tables spells its string
  (`EntriesMatch`), and the string of the code that a walk has come to, followed
  by what is on the stack, is the string it started from (`ChainMatches`). The
  strings are sequences built by `Append` and never recomputed from the tables,
  so that no step needs induction over a chain.
- `GifDecoderProofs`: `DecoderInv` is inductive (`Invariance`), for every encoder;
  from it `InternalErrorIsUnreachable`, `StaysInSync` and `FramesStartFresh`. The
  first holds for every encoder, whatever it writes. It rests on `Limited`:
  while `lzw.decode` runs, `mark <= ri <= rend <= mark + left`, which the prologue
  establishes from the limit and each byte read and each resumption with another
  buffer keeps, as `left` is lowered by what was read at every suspension. The
  other two hold as long as `regular` does, which their invariant has as its
  hypothesis: every step that keeps it keeps the rest. The parts of the
  invariant: the field of the next byte is the one of the suspension point, in
  both methods, and within the LZW data it has as many bytes left as `decode_id`
  thinks (`InStep`); and `lzw.decode`
  has begun only within the LZW data, has met the end code exactly if the encoder
  has written it, and is done with it before the next sub-block is looked at
  (`LzwInStep`). The last is a fact about `decode_id`: a short write at the end
  of the data must not be taken for the end of the sub-block.
- `IntervalProofs`: `AddExact` (the range of the sums, exactly), `SubSound`,
  `MulSound`, `QuoSound`, `LshSound`, `RshSound`, for all integers and all ranges
  (shifts by at most `Exponents`), and from them soundness of the six
  (`ArithmeticSound`). `SplitParts` says that an integer of a
  range is in the part of its sign and that the bounds next to zero are finite;
  `WidenCovers` that each branch keeps what earlier ones covered and adds what is
  between its corners; a lemma per operation and choice of signs that its corners
  are extreme, from the monotonicity of products, quotients and powers.
  `TightArithmetic` is the converse: `SplitReached` says that the bounds of each
  part are elements of the range, or an end of the box is; a lemma per operation
  and choice of signs that each corner is then a result, or that some result is
  beyond `Far`; `WidenReached` that a branch takes over one of two bounds and
  invents none. `ToIntRangeReached` needs that the result is not empty, which is
  soundness. `AndSound` and `OrSound`, and then `AlwaysSound` and `AlwaysTight`,
  `Spec => []Sound` and `Spec => []Tight` for all eight operations, are about
  bits. `TopDifference`: two integers of one sign are ordered by the leftmost bit
  in which they differ (the least shift that makes them equal, by `LeastElement`);
  `AndBits`, `NotBits` and `FillBits` give the bits of the operations of
  `big.Int` and of `bitFillRight`. An integer of a range has a bit that the upper
  bound lacks only if it dropped one on the left of it, and then the lower bound
  allows that (`DropsForBit`); so the leftmost bit in which `a | b` is beyond
  `orMax` was paid for, which is a contradiction (`OrBeyond`). An `a & b` beyond
  one of the two candidates of `andMax` needs a bit on the left of all that the
  other may flip, and the same holds with the candidates exchanged
  (`FlipsSound`). `DropWitness` has the integer that trades a bit, for
  `AlwaysTight`. Neither argument needs that the ranges are disjoint: the overlap
  path of `andMax` is, as its comment says, just an optimization.
  `FailsIfUndefinedInvariant`, `NoPanicInvariant` and `SetSemanticsInvariant` are
  for all eight operations too. Assumptions: `nil` is not an integer, and the
  four on the box, the shifts, the width and the powers.

Only model-checked: the checker, the generated coroutines and the build, whose
operators recurse over trees, by `RECURSIVE` operators, which the prover does
not take; liveness; and `HuffmanSize` (an exhaustive search by nature), and with
it that `no_room` does not occur.

## 6. Not modelled

The components marked `not_modelled` in `PROJECT.json`:

- `lang/token`, `lang/parse`, `lang/render`, `cmd/wuffsfmt`: from characters to
  tokens to a tree and back. They keep no state between steps, their subject is
  text, and every model here starts from the tree.
- `std/zlib`, `std/gzip`, `std/crc32`: loops around `deflate.decode` with a
  checksum on 32 bits, beyond TLC's integers. The loop (try, yield what the inner
  coroutine returned, go on) is `Tried` in `CoroutineMC`.
- `cmd/wuffs-c test`, `gen/`, examples, fuzzers, scripts, tests.

Of the modelled ones: the values of pixels, color tables and frame rectangles;
whether a symbol is a literal or a length (`lcode_magic_numbers`,
`dcode_magic_numbers`), the run-length code of the code lengths; calling a
decoder again after it returned ok; null buffers; `iterate`, limits and marks in
`Coroutine`, of which the decoder modules have what they use; contracts of
functions, which `bcheckExprOther` does not check at a call; the text of names,
constants and prototypes in generated files. The C under `gen/` was read as the
meaning of the sources and is generated from them.
