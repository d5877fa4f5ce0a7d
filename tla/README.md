# PerfAwareHW, specified

The repository is a set of C++ programs written along a course on performance
aware programming: a simulator of the 8086, a generator and a solver for sums
of Haversine distances read from JSON, and the measuring tools (a profiler, a
repetition tester) with the benchmarks built on them. This directory holds TLA+
models of the parts of it that have a state worth reasoning about, TLC
configurations that check them on small instances, and TLAPS proofs of theorems
about them for all instances. Every definition is translated from the code
under `src/`; `PROJECT.json` gives for each the lines it stands for.

Contents: 1 inventory, 2 plan, 3 the modules, 4 the runs and their bounds,
5 fairness, 6 the proofs, 7 what the code was found to do, 8 what is left out.

## 1. Inventory

### File tests (`MemoryTests/file_processing.cpp`, `Common/threads.hpp`, `Common/files.hpp`, `Common/memory.hpp`)

*State*: of a sequential test its buffer, descriptor, position and sum; of the
threaded test a block on the main thread's stack with two buffers, a volatile
flag for each (`e_bs_read`, `e_bs_written`), the worker's loop variable and sum;
of the process its descriptors, and the reference sum. *Operations*: allocate,
open, read or map a chunk, sum it, unmap, close, compare with the reference;
spawn, publish, release, join. *Interaction*: the tests follow each other in one
process; main and worker hand each other the halves of a double buffer by
spinning on the flags, with fences between flag and data. *Hard*: interleaving,
the order in which stores become visible, spinning for ever, the lifetime of
stack and buffers that the worker uses, reads that deliver less than they were
asked for, failures nobody looks at. *Correct if*: the two never work on one half
at the same time, every chunk is summed once and in order, the buffers outlive
the worker, a short read shows in the sum, nothing stays open or mapped after a
test, and all tests end.

### Repetition tester and table of results (`Common/repetition.hpp`)

*State*: a tester (pending, active or in error; the start of the present wait;
the counters of the open iteration), a record of results, and a table that
keeps copies of it by row and column, with two cursors and labels. *Operations*:
`ReStart`, `BeginTimeBlock`, `EndTimeBlock`, the reports, `Tick`, the printing of
results; allocate and label the table, label rows and columns, add a result,
dump, free. *Interaction*: one tester and one record serve the tests of a program
one after the other; the clients ignore what cannot be returned to them; the
table trusts its caller to label, test and add in turn. *Hard*: the error state,
which nothing leaves and nobody is told of; counters kept as wrapped differences;
the renewal of the wait with each new minimum; cursors that must stay in step
with loops elsewhere. *Correct if*: what is printed adds up, errors are final, a
run ends, and the table has each result in its place.

### Profiler (`Common/profiling.hpp`, `Common/algo.hpp`)

*State*: a slot per profiled block with exclusive and inclusive counts of ticks
and page faults; the current parent; per open scope, snapshots of what it found.
*Operations*: open and close a scope, end and dump. *Hard*: a block open in
itself, directly or through another, wrapped negative counts while scopes are
open, two counters with different chains of parents. *Correct if*: each advance
of a counter is charged to one block exclusively and once to each open block
inclusively, and the dump lists the blocks in order.

### JSON tokenizer and parser (`Haversine/Components/haversine_json_parser.hpp`)

*State*: position in the file, the view of the identifier being read; the stack
of the recursive descent, the entities and arrays on the heap. *Operations*:
`get_next_token`, `parse_double`, the parsing functions, the cleanup on every
error path, the cleanup of the client, the query by name, the reprint. *Hard*:
bytes put back, views into the file, ownership of heap blocks along error paths,
termination. *Correct if*: tokens are those of the text, nothing outside the file
is read, the tree is the document, every block has one owner on every path, the
parser ends, and a reprint reads as what was printed.

### Haversine state (`Haversine/Components/haversine_state.hpp`, `haversine_file_io.hpp`, `haversine_validation.hpp`)

*State*: four buffers (the file, the checksums, the pairs, the answers), each of
large or regular pages, the tree of the parser, how many pairs there are, whether
there is something to validate against. *Operations*: load a file, parse it,
check and read its points, open the checksums, calculate, validate, clean up.
*Interaction*: it owns what the parser and the memory functions return, and
hands the pairs to calculation and validation. *Hard*: five resources acquired in
turn along error paths; failures that do not look like failures; files that are
JSON but not points, or points in another order. *Correct if*: everything is
released once, as what it was allocated as; files of points are accepted and no
others; the pairs are those of the file.

### 8086 simulator (`8086/`)

*State*: the registers, memory, the pending prefixes of the decoder
(`decoder_context_t`), what the trace remembers (`g_tracing`), a thrown
exception, the transfers of words counted. *Operations*: decode, validate,
simulate and trace one instruction; interrupts, exceptions, returns.
*Interaction*: main loop, decoder, validation and simulator each keep a part of
what the prefixes mean; the simulator writes the IP and CS that the loop decodes
at; the estimate of clocks uses what the simulator counted. *Hard*: prefixes
executed as instructions of their own, nested calls and interrupts, divide
exceptions raised inside an instruction and processed after it, words that wrap
at the end of a segment and of the memory, operands that are registers of their
own address, flags computed from sums of 32 bits, assertions that validation
should make unreachable; encodings that overlap, with fields that are read or
implied, and a validation written apart from them. *Correct if*: every
instruction decodes as what it is, prefixes are never lost or kept, returns go
where the calls came from, operands and arithmetic are those of the processor,
the trace shows what was written, and no valid program ends the simulator.

### The rest

*Haversine formulas*: floating point and SIMD; neither TLC nor TLAPS has a model
of rounding. *Generator*, *printing*, *interactive input*, *the
micro-benchmarks*: formatted output, random numbers, or loops around assembly
kernels. Not modelled (section 8).

Many benchmarks (`MemoryTests/fileread.cpp`, `file_processing.cpp`,
`HaversineMathTests/dependency_chains.cpp` and others) call an older interface of
the repetition tester than the one in `repetition.hpp`, and
`haversine_input_ranges.cpp` and `haversine_solver.cpp` an older one of the
validation. `HaversineMathTests/haversine_perf_test.cpp` is the client that uses
the present ones, and the one modelled around them.

## 2. Plan

| | modules | state |
|---|---|---|
| 1 | `ThreadedRead`, `ThreadedReadWeak`, abstract: `ChunkPipeline`; proofs of exclusion, lifetime, result and refinement, and that the fences suffice | done |
| 2 | `RepetitionTester`; proofs of all its invariants | done |
| 3 | `Profiler`, abstract: `Stopwatch`; proofs of the shares and the refinement | done |
| 4 | `JsonTokenizer` against `JsonLexemes`, `JsonParser` against `JsonGrammar`; proofs for the tokenizer and its lexemes; proofs of the parser's blocks, of the documents it accepts and of its tree in 8 | done |
| 5 | `Machine8086`, `MachineCalls`, abstract: `CallStack`; `Alu8086` against `Manual8086`; proofs for the machine, its stack and the refinement | done |
| 6 | `Encoding8086`, `Decoder8086` against `OpcodeMap8086`: the instruction table, its lookup, decoding, validation; `Clocks8086` against `ManualClocks8086` | checked |
| 7 | `Operands8086` against `ManualOperands8086`: registers, segments, memory, transfers, trace, around `Alu8086` | checked |
| 8 | `HaversineState`, composed with `JsonParser`; query and reprint in `JsonParser`; proofs of the ownership of blocks and mappings (`OneOwner`, `ReleasedOnce`), of where the parser stops (`StopsAtFirstError`) and of what setup makes of the tree in 12 | done |
| 9 | `FileTesters`, composed with `ThreadedRead`; proofs that the program keeps what the test has, of `LeavesNothing` and of what the sums are made of | done |
| 10 | `ReptestSeries`, composed with `RepetitionTester`; proofs that the tests of a table keep what one has, and of the table | done |
| 11 | proof that the tree has what was read (`TreeIsDocument`) | done |
| 12 | proof of what setup makes of the tree (`PairsAreTheFiles`, `OutcomeIsDeserved`) | done |
| 13 | proof of what the reprint makes of it (`ReprintReads`) | done |

The order is that of what would be worst to get wrong and hardest to test:
threads first, then what every measurement passes through, then the input
parser, then the simulator, then the programs around them.

Four modules compose others by extending them: a step of the whole is a step of
the part, with what the rest does about it, or leaves the part alone.

## 3. The modules

Variables and actions keep the names of the code where the code has a name.
Definitions marked `FAULTY` are plausible bugs of the definition after them,
named in `PROJECT.json` as the mutants that the properties detect; no
specification uses them.

### `ThreadedRead`, `ChunkPipeline`, `ThreadedReadWeak`

One program counter per thread (`mpc`, `wpc`). Main allocates both buffers,
spawns the worker, opens the file (whose failure the code does not look at), and
for each chunk waits (`EnterRead`), reads cell by cell (`BeginRead`, `CopyCell`
in any order, `EndRead`), and flips the flag (`Publish`); then joins, frees and
validates. The worker waits (`EnterSum`), loads the buffer cell by cell
(`BeginSum`, `LoadCell`), adds the sum to `*output` (`AddToOutput`) and flips
the flag back (`Release`). A cell is what the machine reads or writes at once.

Reads move at most `RequestLimit` cells, as one `read()` moves at most
`0x7ffff000` bytes, and with `ReadFaults` they may deliver any less; the code
ignores the count, and the buffer keeps what it held. The reference sum
(`req_workres`) is that of one such read of the whole file. Sums are integers:
the code adds `i64` values with wrap, and the wrapped sums are equal whenever
the sums are.

`ChunkPipeline` is the promise: chunks handed over in order, each summed once,
at most two between the threads. `ThreadedRead` refines it (`ImplementsPipeline`)
by counting `handed` and `summed` from the loop variables.

`ThreadedReadWeak` gives each thread a store buffer whose entries become visible
late and in any order except across a fence (weaker than x86, where the fence is
needed as a compiler barrier only). The fences of the code are sufficient in the
sense that every behaviour, seen through the memory that is visible, is
one of `ThreadedRead` (`FencesSuffice`). The memory of the model is the visible
one; what is visible of the program counters and loop variables, which are a
thread's own, is reconstructed from what is on its way (`VisibleMpc` and the
others): a thread whose stores have not arrived is seen before it made them. Loads
are in program order; a worker that frees its half before its last load from it is
not among the behaviours.

### `FileTesters`

The tests of `main` that go through the file, for one chunk size: the reference
(`os_read_tester` with the whole file as its chunk), `os_read_tester`,
`fread_tester`, the threaded test, which is `ThreadedRead` step by step, and
`map_tester`. A sequential test is a loop (`Allocate`, `Open`, `ReadChunk` or
`MapSection` and `SumSection`, `Close`, `CheckResult`) whose chunk is one step, as
nobody else sees it. `CheckResult` repeats the test up to `Repeats` times, which
stands for what the repetition tester says, or goes on to the next. All of them
share `fds`, the open descriptors of the process.

Every call may fail as it can on Linux: an allocation (asserted), an open (not
looked at: `os_file_read` asserts a valid file, `fread` uses a null pointer), a
read, which may deliver anything up to its limit, a mapping (its null pointer is
summed). A file that could not be opened for mapping has a zeroed record, and
descriptor 0 is standard input: it is read from, if it can be mapped, and closed
by the destructor. `missed` and `stray` are history. The reference is taken not
to fail; that it may fall short of a long file is finding 1.

### `RepetitionTester`

One action per method, in the loop of `haversine_perf_test.cpp`. `ReStart` has
two actions, as in the code it silently does nothing unless the tester is
pending; `Tick` has three (counts, off target, in error); the report divides by
the number of counted tests (`PrintResults`, `DivideByZero`). The two counters
are read twice per block, first subtracted and then added, so their wrap cancels
and integers are exact. The clock starts again at every successful `ReStart`: the
tester uses differences only.

### `ReptestSeries`

The table (`repetition_test_series_t`) and the loop over rows and columns of
`dependency_chains.cpp` around the tests of `RepetitionTester`: one action per
function of the table, with its assertions (`Asserted`, `GoesOn`). `current_row`
and `current_col` are advanced by the labels, the place of a result is computed
from them, and the loop counts in `test` on its own. `reports` keeps, as history,
what each test printed.

### `Profiler`, `Stopwatch`

`OpenScope` and `CloseScope` are the constructor and destructor of
`ScopedProfile`, patches to slots included (`NewInclusive`, `SlotRestored`);
`FinishAndDump` sorts by insertion as `algo.hpp` does, and goes through the sorted
slots skipping those without a name (`Printed`). Counts are `u64` in the
code, and the exclusive count of an open parent wraps below zero; an integer
stands here for its value modulo 2^64, and `SharesAddUp` says what the counts add
up to when everything is closed. `Stopwatch` charges each advance of a counter
at the moment it happens; the refinement mapping reconstructs its counts from
slots, open scopes and their snapshots. Blocks may be open in each other in any
way (`Calls`). A block with `PROFILED_..._PF` watches page faults, the others do
not, but are parents all the same: the page faults of a block inside one that does
not watch them are subtracted there, from a count nobody adds to or prints, and
not from the block further out. `Stopwatch` says what that amounts to (an advance
is charged to each block that watches it and sees no block directly in it do so),
and `CountedTwice` by how much the exclusive shares are too high.

### `JsonChars`, `JsonLexemes`, `JsonTokenizer`

A file is a sequence of classes of bytes (`JsonChars`). `JsonTokenizer` reads one
byte per step, as the loop of `get_next_token` does, with one action for each
thing that may happen to it. `parse_double` returns the set of tokens that a
literal may become: the loop over the digits of an exponent never advances its
index, so a compiler may let it hang or, as it has no side effects, assume that it
ends. The byte `0xFF` is equal to `EOF` where `char` is signed, and ends the file.
`JsonLexemes` says declaratively what the lexemes of a text are: where it may be
cut, and of which kind each piece is. A prefix of `true`, `false` or `null` counts
as the whole, as in the code.

### `JsonGrammar`, `JsonParser`

`JsonParser` runs the recursive descent with an explicit stack of calls and a
heap of blocks (strings, entities, arrays of items that grow by replacement).
Tokens are chosen as they are read. `JsonGrammar` derives documents; the grammar
is that of the code (a root object, trailing commas allowed, nothing said of what
follows it). Arrays that were replaced when a list grew are recorded in
`superseded`: the code does not release them, and `OneOwner` counts them as
owned by nobody, exactly. `json_object_query` is the query by name (the first field of that
name), and `Printed` gives the tokens of the `-reprint` mode, in which every list
ends with a comma and string values have no quotes. What a text reads as then
depends on the text: `Bare` gives its tokens, any at all but the end of the file (a
byte `0xFF`) and a number with an exponent, of which the tokenizer finds no end. So
`ReprintReads` has three parts: the reprint reads as a document of the same tokens
exactly if no value is a string; if each string reads as one number, `true`, `false`
or `null`, as the text 5 does, it is a document nevertheless, of other values; if one
reads as an error, it is none. Between the last two (a text that reads as a comma, a
brace or nothing) either may be. Numbers are finite and printed with six decimals,
which read as a number; the digits that are lost are not modelled.

### `HaversineState`

`setup_haversine_state`, the calculation, the validation and
`cleanup_haversine_state` for one file, around the steps of `JsonParser`, as
`haversine_perf_test.cpp` calls them. The steps acquire a descriptor, up to four
mappings and the tree of the parser; open, mmap and read may each fail, at any
of their uses (`denied`). `allocate_best` tries large pages first, and a buffer is
unmapped with a length rounded to the pages it says it has. On Linux `mmap` fails
with `MAP_FAILED`, which is not null, so that no check sees it. Numbers are told
apart by their position among the numbers of the file, which is how
`PairsAreTheFiles` knows where each coordinate went.

`setup_haversine_state` goes on without a checksum file, and prints that there
will be no validation; `haversine_validation.hpp` 19 then asserts that there is
one. The run shows that as an outcome (`aborted`), with its exact condition.

### `Machine8086`, `MachineCalls`, `CallStack`

One step is one pass of the loop of `main.cpp`: decode at CS:IP, validate,
simulate, trace. `Program` gives the *set* of instructions that may be found at
each address, so one instance stands for many programs and for code that is
overwritten. An action for each kind of instruction; every one that is not a
prefix ends in `Executed` (registers written, prefixes forgotten, trace
printed), `Terminated` (hlt, or a return with `-stoponret`) or `Aborted` (an
assertion). The model keeps IP, CS, SP, CX, the flags and the words of the
stack. Other data is abstract: what memory holds is any word of `Loaded`, what
arithmetic leaves in CX and the flags any of `ComputedCounts` and
`ComputedFlags`; what the instructions do with data is in `Operands8086`.
Programs are those that do not load SP or SS and do not store into their stack
except by pushing.

The model has what the code does where a processor does otherwise: `jcxz` jumps
if CX is *not* zero, signed jumps do not look at OF, `jb` and `jae` look at ZF,
`ret n` adds its operand to IP, interrupt vectors are read through CS,
string instructions do not look at DF.

`MachineCalls` adds the record of a program's open calls, interrupts and pushes,
as history that the machine does not read, and `CallStack` says what it is for.
A program that takes off something other than what it put on is `lost`; so is
one that returns with an operand (`displaced`), as `ret n` does not go back.

### `Encoding8086`, `Decoder8086`, `OpcodeMap8086`

`Encoding8086` is the table of encodings, row by row in the order of the code
(rows of one shape share an operator), and how the lookup is built of their
literal bits. `Omissions` are sets of operations that a table is built without,
as the bits that are pressed together depend on all rows. `Decoder8086` decodes
at a stream of bytes: fields, lengths, operands and flags, the prefix context,
and the validation, one disjunct for each case of its switch. A step decodes one
instruction; it is unknown, rejected, or processed. The end of the program and of
the memory are in `Machine8086`, which starts with decoded instructions.

`OpcodeMap8086` says what the same bytes are by the number of the first byte and
the forms of operands, as opcode maps do, without using the table. The
properties are equivalences here, too. The departures: `esc` has an extra byte
where it has no displacement, and is always rejected; the validation rejects
`lock` and segment prefixes before instructions without operands (such as
`es xlat`), and accepts far jumps through a register, loads of CS and repeated
returns.

### `Clocks8086`, `ManualClocks8086`

`Clocks8086` is the estimate of the clocks of an instruction (`clocks.cpp`), a
function of the decoded instruction and of what its execution recorded: the
taken branch, the count of a shift, the transfers of words. `ManualClocks8086`
has the numbers of the manual by opcode and operand forms, and where the estimate
is another one: repeated string instructions cost the same however often they
repeat, since `string_instruction` returns a count it never steps
(`simulator.cpp` 722); far pointers in memory cost nothing for their address;
`pushf` and `popf` are taken for a `push` and a `pop` at `[bx+si]`, the operand
that zeroed memory looks like; moves, exchanges and tests of the accumulator are
always taken for their short encodings; `test` of memory and a register costs 2
and `neg` of a register 1 too many; a displacement of zero is taken for none.
Operations and operands come from the decoder's run, so the estimate is
compared for every instruction that it accepts.

### `Operands8086`, `ManualOperands8086`, `Alu8086`, `Manual8086`

`Operands8086` executes one instruction that computes or moves, as the decoder
made it, on a machine of all registers, all flags and a memory of bytes that is
`Contents` except where it was written: effective addresses, segments and their
overrides, byte and word accesses with the assertion on the last word of the
memory, the stack, string instructions with their repetition, jumps and calls
through memory, interrupts with their vectors. With each access it counts what
the simulator counts for the estimate of clocks, and with each write it keeps
what `-trace=data` prints of it. `Continue` executes a second instruction on what
the first one left. What arithmetic computes is `Alu8086`: bit operation by bit
operation, for both sizes.

`Manual8086` has the arithmetic as numbers, and `ManualOperands8086` whole
instructions, from the descriptions of the manual and without the operators of the
other two modules, with the exact conditions under which the code departs
(`ResultDeparts`, `FlagsDepart`, `AsciiDeparts`, `DecimalDeparts`, `Departs`,
`Stretched`, `FlagsWrong`, `NotCounted`, `CountedTwice`, `TraceDeparts`). The
properties are equivalences, so that an additional departure and a departure that
disappears are both violations.

The departures of arithmetic: `sbb` with a carry subtracts too little; `cwd` of a
positive number leaves 1; shifts take the count less 1 first, so that 0 and counts
above 32 are those of the host; `adc` and `sub` look at the wrong operand for OF
and AF at its extreme values; `inc` and `dec` set CF; `neg` sets no flag; `mul` and
`imul` have CF and OF inverted; rotations by 0, `rcl` and `rcr` leave CF wrong;
`daa` and `das` do not look at CF; `aaa` and `aas` compare all of AL with 9, not its
low digit, and do not look at AF; `idiv` of the least 32-bit number by -1 traps the
host. Results of the adjustments, `aam` and `aad` among them, are compared with the
manual like all others; `in`, which reads what the ports have, is not. The manual
leaves CF open after a `das` of less than 6 with AF.

Of numbers: the byte of opcode 82h is extended by its sign to 16 bits though the
operation is one on bytes (`Stretched`). The byte that results is right, but the
carry, taken from bit 8 of the sum, comes out inverted after `add`, `adc`, `sub`,
`sbb` and `cmp`, so that jumps for unsigned numbers go the wrong way unless the
operands are equal, a 16-bit addition made of two such steps has the wrong upper
half (`ChainsCompute`), and the trace prints a word where a byte was written.

Of operands: a word access to the last byte of a segment asserts instead of
going on at its start; `push sp` stores SP from before; `pop`, `call` and `jmp` do
not look at a segment override, nor do the string instructions for their source,
though the validation accepts one; `xchg` computes the address of its memory operand
again after it wrote the register, which may be part of it; strings go up whatever
DF says; vectors are read through CS, the flags an interrupt pushes have D and T in
each other's place, and I and T stay set.

Of what is counted and traced: far pointers, ports and the vectors of interrupts
are not counted as transfers, operands of `pop` and near jumps are counted twice;
the trace of a string's word is a byte too high, results of byte operations
are printed before they are cut to a byte, and addresses of strings and of the
stack are not cut to 20 bits.

## 4. The runs

`tlc -config X.cfg M` for each; a run takes between seconds and a minute and a
half.

| run | shows | bounds, and why they are enough |
|---|---|---|
| `threaded_read` (`MCFileTesters`) | exclusion, lifetime, sum, refinement of `ChunkPipeline`; short reads show; nothing is left; all tests end | 6 halves of 3 cells for the threaded test: each half is used three times by each thread, and an access can be overtaken in its middle. 3 chunks of 6 cells for the others, one read in pieces of any size, each test up to twice. Each cell is another power of two, so no other bag of as many cells, some of them zero, has the sum of the file |
| `threaded_weak` | the fences make late stores harmless | 4 chunks of 2 cells: each half is reused; reads may deliver anything |
| `threaded_truncated` | finding 1 | one read moves 5 cells, the file has 6 |
| `repetition` (`MCReptestSeries`) | totals, extremes, errors, bounded run, crash only after an error, the table | four tests in two rows and two columns, so that a test runs after others' results or error, and rows and columns can be told apart; a third row that stays empty; blocks of 1 or 2 ticks, so that there are ties and new minima; a target of no bytes and one operation, so that either kind can be off target alone |
| `profiler` | slots amount to a stopwatch, shares add up, the dump is sorted | 3 blocks in any nesting, one of which does not watch page faults; 3 open at once, 4 openings: direct and indirect recursion with another block between; counters to 2 |
| `json_tokenizer` | lexemes, views, end | all files of up to 4 bytes over 9 kinds, numbers of up to 5 bytes and the two shortest with exponents, strings of up to 6 |
| `json_put_back` | finding 2 | the same files |
| `json_parser` (`MCHaversineState`) | ownership, tree, first error, reprint; resources, pairs, outcome, end | every file of up to 11 tokens with one name and one literal, generated while it is parsed: lists of three items, or four where the file is cut off (the first array holds two, so it grows), and nesting to four deep; files of none to two points of up to five fields (the array grows twice), right or with one thing out of place, or with strings that read without quotes as nothing, a number, a word, several tokens, a bracket too many or an error, each cut off anywhere; every failure of open, mmap and read; checksum files of a right and a wrong length |
| `machine` | prefixes, trace, stack, refinement of `CallStack` | a program of alternatives with a near and a far routine, vectors to its own code, four words of stack. `Live` hides words below SP, which nothing reads before writing; `Followed` stops at programs that are lost or count CX below 65535 |
| `machine_asserts` | finding 3 | two instructions |
| `decoder` | lookup, decoding, validation, prefixes, clocks | all 65536 pairs of first bytes, with the bytes after them of either sign and zero for a part of them; two executions of each, with a jump taken and not; 15 instructions, one for each way the validation goes, after runs of up to 3 of 5 prefixes; the table with and without the operations that widen its mask |
| `operands` | results, flags, transfers, trace, jumps, chains of two | arithmetic in registers with operands at every limit of both sizes and the decimal digits, all flags, numbers of 82h at both ends of those that its extension changes, in registers and memory, counts around the sizes and above 32, results within TLC's 32-bit integers (`MCFitsTLC`); operands in memory through each base, at both ends of segments and of the memory, at odd and even addresses, with and without overrides; strings up, down, overlapping and across ends, repeated 0 to 3 times, with and without an override; vectors read through CS with any base |

Deadlock checking is off in the `machine`, `decoder` and `operands` runs, where
the program really ends, where a program of `Program` may need more stack than
`StackWords`, and where `Streams` or `Follows` has nothing further to try; the
others have a terminating step for the end states. The runs that expect a
violation stop at it.

Every property of a passing run has a mutant: a bug in one mapped definition
that makes TLC find the property violated under the same configuration.

## 5. Fairness

* `FileTesters`: weak fairness of the sequential program, of the main thread in
  the threaded test and of the worker, each as a whole. They are threads of an
  operating system with a preemptive scheduler; neither spins with interrupts
  off. Nothing is assumed of what they find when they look at a flag. `TestsEnd`
  needs it of all three. How often a test is repeated is bounded (`Repeats`);
  that the tester itself comes to an end is `RunIsBounded`.
* `JsonTokenizer`, `HaversineState` (which runs the parser): weak fairness of the
  sequential program.
* `RepetitionTester`, `ReptestSeries`: none. The end is stated as a bound on time
  (`RunIsBounded`), which is a safety property and needs only that the timer
  advances between two ticks (`ClockAssumption`).
* `ThreadedReadWeak`, `Profiler`, the 8086 modules: none, and no liveness is
  claimed.

## 6. The proofs

All by TLAPS with SMT, Zenon and LS4; no step is left unproved.

**`ThreadedReadProofs`** (assumes `SizeAssumption`, `DataAssumption`,
`PrefixAssumption`, `PlatformAssumption`). The inductive invariant `SafetyInv` is
`TypeOK`, `LoopInv` (how far the two loop variables may be apart for each pair of
program counters) and `FlagInv` (the flag of each half, as a function of the loop
variables: this is what tells who owns it). Exclusion is not inductive by itself:
that the worker sees `read` in a flag says nothing without knowing that main is
one or two chunks ahead. `ContentInv` adds what the halves hold and what has been
summed; it needs `CompleteReads` (no faulty reads, and a file that fits one
read). From it follow `Result` (the sum is the reference sum, for every file,
chunk size and number of chunks) and `Refinement`.

**`ThreadedReadersProofs`** has two parts, of the reader with delayed stores and of
the reader among the other tests. The first (the same assumptions): `WeakInv` says
what can be on its way in each store buffer for each program counter: cells of the
chunk being read, each once, or the flag of the last chunk; a sum, or the flag of the
last chunk. A fence keeps the two kinds apart, so that a flag becomes visible after
everything it is meant to announce. Then each step of the machine with delays is one
of the visible reader or none: a store is made when it becomes visible, and a step
that only puts one on its way stutters. Two steps, the join and the abort, need to
know what the visible reader can be doing, and for that an instance of the theorems of
`ThreadedReadProofs` at the visible reader is used beside the refinement.
`WeakExclusion`, `WeakMemoryLives` and `WeakResult` follow: what is proved of the
sequential reader holds of the delayed one as well.

The second (in addition `RepeatsAssumption`, `ChunkAssumption`, which the first does
not use): a step of the program is a step of `ThreadedRead` or leaves its variables alone
(`ThreadedPart`), so that what is proved of the threaded test holds in the program
of all tests. `NothingIsLeft` is by an invariant in two parts: the threaded test
is at its beginning or its end whenever another one runs (`ThreadedAtRest`), and a
sequential test has open at most its own descriptor, which is what closing it
gives back (`RestInv`: between open and close it is the descriptors *after the
close* that are the usual ones, which is why a stray 0 needs no case of its own).

`SumsAreOfCellsRead` says what the sums of the sequential tests are made of, for every
file: that of the file if no read fell short, so that the assertions raise no false
alarm; and otherwise that of as many cells as the file has, each zero or one of those
that were read, the last cell of the file not among them. This is all a short read can
hide behind, and for some files it does: a file of zeros has the sum of whatever part
of it was read. So the other direction of `ShortReadsShow`, that a short read never
passes, is no theorem about the program but depends on the file; it is model-checked for
a file whose cells are different powers of two, which no other cells replace. The invariant `SumInv`
says that what was summed so far is the sum of some buffer of as many cells, each
zero or one of the cells up to the file position (`SumOf`), and that of just the
first cells of the file as long as no read fell short. A chunk that is only
partly filled keeps what the last one left, which is why the invariant speaks of
buffers and not of positions. The sum itself is a fold defined by `CHOOSE`, so
the first part of the proof shows what it computes (`SumAdds`, `SumTelescopes`,
`JoinedSum`).

**`ReptestSeriesProofs`** has two parts. The tester by itself (assumes
`CountAssumption`, `TargetAssumption`, `ClockAssumption`): `TypeInv` bounds the blocks by the tests; `TimesInv` relates
the open iteration's wrapped counters to the clock; `BoundInv` is a ranking: each
new minimum is lower, so the time already spent is at most the number of minima
passed times the wait. `TimesAddUp` needs a lemma on products, proved apart.

The table (in addition `TableAssumption`): `TesterPart` carries
the four theorems of the tester over to the tests of a table. `TableCorrect` says
that the dumped table is right and that none of its assertions but the first can
fail, for every number of rows and columns. Its invariant `TableInv` ties four
things that the code keeps apart: the cursors of the table, the number of the
test, the number of results added, and where the loop is. The row and column of a
test are quotients and remainders, and the slot of a result a product, so that the
proof rests on lemmas on division (`DivisionIs`, `PlaceInside`) proved first.

**`JsonTokenizerProofs`** (assumes `SourcesAssumption`). `ScanInv` states where
the view lies relative to the position while scanning: that `--input.pos` never
goes below zero needs the view to be non-empty or a quote to have been read.
`TokensAreRight` is about the lexemes, in three parts. What `parse_double` finds
byte by byte is what `IsDecimal` and `HasExponent` say of the text (`ParsedAsIs`);
that a scan for digits ends is the least element of a set of positions. Then the
lexemes: a position that no string and no run goes over (`Between`) divides them
(`SplitAt`), passing a run or a mark adds one to those before it (`RunEnds`,
`CutPassed`), and counting up to it finds it (`NthIs`). Last the scan. `LexInv` says
that it began at such a position with as many tokens returned as lexemes lie before
it (`ScannedFrom`), that the flags are those of the text read since (`Joined`), and
which part of it the view is (`ViewOf`): all of it without quotes, what follows an
opening quote, what two quotes enclose. After the last byte of a file was put back
by mistake nothing is claimed (`PutBackTooFar`), which is what `Sealed` excludes.

**`HaversineStateProofs`** (assumes, from the document on, `TokensAssumption`, that
files consist of tokens, and `StringsAssumption`, that a string is neither a symbol
nor a literal). Blocks first. `OneOwner` counts pointers, which no step does; the
proof is about the set `Live`
of the pointers that lead somewhere, and `Owned`: each goes to a block, no two to
the same, and every block that is not superseded has one. Every action then adds a
pointer with its block, moves one, or takes away a pointer and all that is reached
from it (`OwnMore`, `OwnMoved`, `OwnFreed`). By itself that is not inductive. What
an error path frees is `Tree`, a function defined by recursion over the heap: that
it exists, and that what it gives is just what is reached from the entity, is
proved from the order of allocation (`TreeExists`, `TreeReaches`). So the invariant
`ParserInv` has, beside `Owned`, that kids are younger than their parents (which
makes the heap a forest), that strings and arrays of items lead nowhere, that the
active calls' entities are in the order of the calls and older than what was
returned, and that a name waits only where the code is between the name and its
value. That the heap has no block left when the last root is gone
(`NoRootNoBlock`) is by descent: a block has an owner, that one an older one.
`BlocksAreOwned` and `BlocksHaveOneOwner` follow for every alphabet, every set of
files and every length.

Then the mappings. `Holds` says that each mapping is that of exactly one buffer,
under one name (a field of `haversine_state_t`, or the local of
`load_entire_file`), which knows its pages. Mapping, moving a buffer from the
local to its field and freeing preserve it (`HoldsMore`, `HoldsMoved`,
`HoldsFewer`); for that a field must be empty when it is filled, which depends on
where setup is (`Unset`), and an exit before the parse must find an empty heap
(`Emptied`). `EverythingIsReleased` is what these say at the end: the mappings
left are those of no buffer, so there are none.

Then the document. `Derives` is recursive in the parts of a token sequence; that
there is such a function is the least set closed under the rules (`RulesExist`),
and from it come the rules as equivalences (`EntityIs`, `FieldsIs`, `ElementsIs`).
The invariant `Reading` is about all sequences that extend what is read: such a
sequence is a document exactly if it `Fits` the stack, that is, if there are
places where the open lists are closed, the outermost at its very end, each of the
others as an item of the one around it, and what comes next is what the innermost
call expects. A token either keeps this equivalence for the calls as they are
after it (`TurnsOn`, `OpensOn`, `EndsOn`), or nothing that goes on with it is
expected, and no extension is a document (`FailsOn`). An error is therefore never
too early, since up to the last token there is an extension that fits, the one
that `Closers` completes (`OpenIsPrefix`), and never too late: after it there is
none (`WrongIsNoPrefix`). That is `FailsAtTheFirstError`, and `AcceptsDocuments`
for a parse that succeeds. That no token beyond the end of the file is needed
(`Room`) is part of the invariant: a token that is not final has not used the room
up. All this holds for every file and every alphabet.

Then the tree. What a block says is a sequence of words, put together from what
its kids say (`Written`; that there is such a function is shown as the heap grows,
`WrittenGrows` and `WrittenPushed`). The invariant `Telling` is that the open
lists, outermost first, each with its bracket, the items it has and the name that
waits, followed by what is returned, say what was read (`Told`). It is about two
readings of the same tree at once: the tokens without commas, and the numbers of
the file in their order. A token adds to the end of the innermost list
(`LeafTells`, `NameTells`, `CloseTells`); a push moves what was returned into the
list (`TakeTells`), and for that nothing else may change what it says, which
holds because the list is the kid of no block while its call is active and has one
owner (`EntityIsApart`, from `ParserInv`). At the end there is only the root, and
what the recursive `Unparsed` gives of it is what it says (`WordsAgree`):
`TreeIsTheDocument`.

**`HaversineTreeProofs`** goes on from there to what the program makes of the tree
(it assumes `NamesAssumption` besides, that the five names setup asks for are
strings). First the verdict of setup, which looks at blocks, while `IsPointsFile`
and `PointsOf` look at tokens, at places that are multiples of 14. What joins them
is *where* a block lies in the file: the words of a kid lie in those of its parent
after those of the kids before it (`FlatLies`, `EntityLies`), so a field or an
element of a list at a known place is at a known place (`FieldLies`,
`ElementLies`). A tree in which the root has the one field "points", an array all
of whose elements are points, therefore has in its words the points one after the
other, each of 14 tokens (`PointIsThere`, `PointsLie`, `FoundIsFile`); and words
that are those of a file of points come from no other tree (`PointIsRead`,
`PointsAreRead`, `FileIsFound`), where it is used that what an entity begins with
tells its kind. Fields may be in any order: four names among which are the four
coordinates are these, each once (`FourFound`), so the first field that
`json_object_query` finds is the one that `PointsOf` chooses. Which number of the
file it is comes from the second reading of the tree (`PointNumbers`,
`ArrayNumbers`). The invariant is `VerdictInv`: `Survey`, that past the root the
tree is one of points as far as it was looked at, and `s.points` are those;
`Sums`, what is known of the checksum; and the outcome. A rejection needs both
directions: what setup refuses is not a file of points, since such a file would
have been found to be one (`RejectJudged`). That is `VerdictIsRight`, and from it
come `PairsAreThoseOfTheFile` and `EveryOutcomeIsDeserved`, for files of any
number of points.

Then the reprint, which is a third reading of the same tree: each item with its
comma, a string as whatever its text reads as without quotes (`Bare`, of which
nothing is assumed but `BareAssumption`). If a value is a string, it is missed:
the tokenizer makes strings of quotes alone, so of all that is printed only the
names of fields read as strings, each followed by its colon (`PrintedNamed`), while
what was read has a string that names no field (`StringUnnamed`), since the block of
the value is not lost: it has an owner, and the list that owns it has one, up to
the root (`AllIsSaid`, by descent, from `Ownership`). So they are not the same
tokens. If one of the texts is an error, the error is
somewhere in what is printed, by the same descent, and no document has an error in
it (`ErrorIsNoDocument`, from `DocumentIsClean`, by induction over the length of
what is derived). If there are no strings, or each reads as a single literal
(`PlainTexts`), what is printed of a block is an entity wherever it lies
(`PrintedDerives`, kids before parents, and in a list from its last item back to
the first, since a list of items derives from an item and the list after it); and
without strings, it is without the commas what was read (`PrintedSays`). That is
`ReprintIsRead`, for every file that was parsed.

**`MachineCallsProofs`** (assumes `MachineAssumption`) has two parts. In the first,
`TypeOK`, `PrefixesAgree` and `TraceIsGapless` of the machine are inductive
together. What the three ends of an
instruction preserve is proved once; for each instruction it remains that its
result is a machine, by lemmas on pushing, popping, flags and wrap-around. That a
flag can be set without leaving 16 bits is arithmetic on the words being a
multiple of twice the flag. So for every program, of any size, whatever memory
holds, decoder and simulator agree on the pending prefixes and the trace has no
gap.

The second part carries two of these over to the machine with the record
of its stack, which is the one that the run checks, and proves that the stack is
right. `StackHoldsEntries` speaks of addresses, which wrap; the inductive
`StackInv` speaks of depths: the word at depth d lies 2 * d bytes below the top of
the segment, and no entry lies deeper than `StackWords`. Words of different
depths then do not overlap, since `MachineAssumption` has the stack smaller than
the segment (a stack that wraps around its segment overwrites itself, on a
processor too). How deep an entry lies is a cardinality, which a push adds to and a
pop takes from. From `StackInv` follow `StackIsRight` and `CallStackImplemented`:
each return pops the entry its call pushed, and goes back to it.

**`ProfilerProofs`** (assumes `BoundAssumption`, `CallAssumption`). The sums, the
sort and the dump of the model are folds of the library, which are defined by
`CHOOSE`, so the first part proves what they compute. The library's theorems of
induction take an operator, which cannot be given here; they are replaced by
three lemmas on sets, proved from the well-foundedness of the naturals:
`LeastNatural`, `NaturalsAll` and `SubsetsAll`. From these come the laws of sums
(`SumAdds` to `SumSplits`), that a fold is the recurrence one expects, and with it
that the sort loses nothing and orders (`SortArranges`) and the dump lists each
named line once (`DumpLists`).

While scopes are open the slots by themselves say nothing: exclusive counts are
below zero and inclusive ones stale. The invariant is therefore about what they
*amount to*: `Selfs`, the exclusive count and what the open scopes owe (`OwedBy`),
and `Totals`, what the outermost open scope of a block will store. Opening and
closing a scope changes neither (`OpenOwesNothing`, `CloseBooksDebt`,
`OpenKeepsTotals`, `CloseKeepsTotals`); this is where it matters that slot and
parent may be the same and that the inclusive count comes from the snapshot. An
advance of a counter adds to each self a number that depends on the stack alone
(`NetOf`), and by induction over the stack that number is how many innermost
scopes of the block there are (`NetCounts`), at most 0 for a block that does not
watch the counter (`NetHidden`), at least -1 for slot 0 (`NetRoot`), 0 in sum
(`NetsCancel`), and for a watching block, together with what the others hide, at
most what its total grows by (`NetBound`). So `Fair` is kept: self is at least 0
and, less what is hidden, at most total. With all scopes closed `Fair` is
`SharesAddUp` (`SharesAreRight`), and what `Selfs` and `Totals` do at each step is
what `Stopwatch` does (`StopwatchImplemented`).

Type invariants are proved where there is a proof module: `TypeCorrect` in
`ThreadedReadProofs`, `ReptestSeriesProofs`, `JsonTokenizerProofs` and
`MachineCallsProofs`, those of the profiler within `AlwaysInv` and those of the table
within `TableInv`. The runs spend their properties on what is not a type.

Only model-checked: all liveness, which the provers do not reach; the decoder and
the clocks, which are finite tables; and the arithmetic of `Operands8086`, whose
bitwise operators are recursive definitions that the prover does not take.

## 7. What the code was found to do

Three disagreements between the code and what it says of itself are runs that
expect a violation (details in `PROJECT.json`):

1. The assertion that the threaded sum equals the reference sum fails for files
   of 2 GiB and more on Linux, since the reference is computed from a single
   `read()`. (On Windows files that large are refused before.)
2. An identifier at the very end of a file has no separator to put back; its
   last byte is put back instead, and the `-tokenize` mode does not end.
3. `call` and `jmp` with a register pass the validation and end the simulator in
   the assertion that says validation should have prevented them.

Modelled as they are, without a run of their own:

* Without a checksum file `setup_haversine_state` goes on and says that there will
  be no validation; the validation of the same program asserts that there is one
  (`haversine_validation.hpp` 19). `OutcomeIsDeserved` has the condition.
* A buffer that could not be mapped is taken for memory, since `MAP_FAILED` is not
  null. A file that could not be opened for mapping is read from standard input,
  which is closed afterwards (`LeavesNothing`).
* After an error the repetition tester refuses every later test in silence.
* Page faults counted inside a block that does not count them are counted twice
  in the exclusive shares (`SharesAddUp`).
* An exponent in a number hangs the parser; negative integers lose their sign; a
  list may end with a comma; replaced arrays of items are not released; a reprint
  puts strings in no quotes, so that it may be no document, or another one.
* A `repz` before a `repnz` stays in force; `esc`, which a comment says is omitted
  from the table (`instruction_table.cpp.inl` 37), is in it, at line 213.
* The simulator's departures from the processor, listed in section 3.

## 8. What is left out

* *Failures*: of `malloc` in the parser, at which the code does not look.
* *Sizes*: the rounding of allocations to pages; large pages are modelled in
  `HaversineState`, where they matter to the release.
* *Windows*: the other half of `files.hpp`, `threads.hpp` and `memory.hpp`.
* *Mapping of a whole file*, and `MemoryTests/fileread.cpp`, its only user, which
  does not build against the present tester.
* *What is printed*: tokens, instructions, the columns of reports, bytes processed
  and percentages of the profiler, the table's CSV; and the prompt of the
  simulator that waits for a key.
* *Haversine formulas*, their SIMD forms and the comparison of results with a
  tolerance: statements about rounding.
* *Generator and micro-benchmarks*: random numbers, formatted output, and loops
  around assembly kernels, which measure the hardware. Their loops are the one that
  `RepetitionTester` has.
* *Programs with all of the memory of the 8086* are beyond TLC. `Machine8086`
  keeps every branch that depends on data by allowing both outcomes, and
  `Operands8086` has all of the data, one or two instructions at a time; what
  connects them is that the same instructions take the same exits.
