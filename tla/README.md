# Verification of the SysY compiler

The compiler translates SysY, a subset of C with `int` scalars and arrays, into
RISC-V assembly. It is single-threaded and batch: `main.cpp` reads a file, and a
pipeline of passes turns one representation into the next.

    source --lexer.rl, parser.ypp--> AST
           --typec.cpp, array_align.cpp--> AST with symbols and initialisers
           --gen_eeyore.cpp--> Eeyore
           --interop.hpp--> Pinkie --optimize_pinkie.cpp--> Pinkie
           --interop.cpp--> Dashie --optimize_dashie.cpp--> Dashie
           --riscv_output.cpp--> RISC-V assembly

What is hard in it is not concurrency. It is that every pass relies on what the
others keep true, over every sequence of units a program may be made of: that a
register still holds what a map says, that no two things share a place in the
frame, that a scratch register is never live. These are state machine questions
about the *generated* code, so most modules here run the code before and after a
pass side by side.

## Inventory

| component | state | operations | correct if | hard because |
|---|---|---|---|---|
| lexer (`lexer.rl`, `location.*`) | scanner state, input position, table of line starts | next token, position of an offset | tokens are the longest matches; a position is on its line | the scanner takes back what it has read; lines inside comments are counted separately |
| parser (`parser.ypp`, `parser_wrapper.cpp`) | Bison stack, the unit so far | shift, reduce, insert_declaration, insert_function | a text is read as the tree it was written from | precedence resolves an else; null result on a syntax error |
| scopes and types (`typec.*`, `levelmap.hpp`) | chain of symbol maps, counters | verify, typecheck, disambiguate, k_eval, clean_up | a name means its innermost earlier declaration; ids are unique; constants have the values run time would compute | maps fill while blocks are walked |
| array initialisers (`array_align.cpp`) | recursion, list of (offset, expression) | round_up, _array_align, array_align_expand | every element gets its expression or zero | braces that skip, gaps, leftovers |
| Eeyore generation (`gen_eeyore.cpp`) | counters of temporaries and labels | generate_dec, generate_expr, generate_stmt | control flow, order of evaluation | short circuits, calls in operands |
| Pinkie optimiser (`optimize_pinkie.cpp`) | assignment counts, literal map, renumbering | const_fold, unused_temp_remove, clear_temp, flip_binop | the meaning of the code stays; the compiler survives | static order used for dynamic order; division on the host |
| code generator (`interop.cpp`) | frame layout, register pool and its position, param_c | annotate_variable, compute_offset, generate_code | memory holds the variables, calls get their arguments | pool and argument registers overlap |
| peephole optimiser (`optimize_dashie.cpp`) | one alias map per pass, used slots | GloPtrAlias, ImmAlias, StkPtrAlias, VarAlias, UnusedStack, immediate_goto | dropped units had no effect | stale aliases; passes see each other's output |
| RISC-V lowering (`riscv_output.cpp`, `glimmy.*`) | none | convert, imm_elim, imm_opt, imm_shrink, convert_func | instructions do what the unit means; immediates fit | scratch register, frame and return address |
| driver (`main.cpp`, `error.*`) | none | the pipeline | no file from a failed compilation; the first defect is the one reported | one catch clause, a null pointer, an unchecked stream |

Components interact by handing over a whole program; the state shared by several
of them is the `Environment` (front end) and the numbering of labels and
temporaries. The hazards, each at its line and with the properties that watch
it, are listed in `PROJECT.json`.

## Modules

**Lexer** — the scanner that Ragel makes of `lexer.rl`, as an automaton with `ts`,
`te`, `p` and `cs` of `lexer.cpp`, one action per edge: it reads on while a longer
match is possible and goes back to `te` when there was none. A text is made of fifteen
kinds of characters, each standing for those that the patterns treat like it (the
head of the module lists them); `if` stands for all nine keywords, `<`, `=`, `<=` and
`==` for all comparisons, `&&` for both pairs of one character, and `+` for the other
tokens of one character. `line_count` pushes
line starts as a side effect of reading. **LexerSpec** says without a scanner what
tokens and positions are. `Refused` stands for the parser: two tokens in a row
that no program has make it stop asking.

**Grammar** — the rules of `parser.ypp` as data, each with the node that its action
builds, and what Bison makes of them (item sets, following tokens, the two
`%nonassoc` lines). **Parser** — the shift-reduce machine and the two functions that
fill the unit. It takes any action that the tables allow: where the grammar had a
conflict, runs would part. The tables are those of SLR parsing; Bison's look at
fewer following tokens, which makes no difference where SLR has no conflict, but
for when an error is noticed. **Syntax** is the reference: how a tree is written,
with parentheses only where they are needed.

**Scopes** — `typecheck()` as a walk over a program that is chosen step by step:
environments with their chains, the counters that all of them share, and
declarations that are entered after their initialisers. **LexicalScope** is the
abstract specification: a name means its innermost declaration so far, and a block
that ends takes its declarations along. **Typec** — `typecheck()` as a function of the
tree: globals, functions and blocks in their order, dimensions and the types they
make, `k_eval` and constants, and symbols in the place of names.

**Gotos** — `immediate_goto()`, unit by unit, and then the code before and after it
side by side under the same conditions.

**Driver** — `main()`: a source has some defects, and a pass ends at one of those it
looks for. `Outcomes` says how a defect ends the compiler: with a `runtime_error`,
which is caught and reported, with another exception or a failed assertion, which
abort, with `C_ERROR`, which exits, or with a signal. Where behaviour is undefined, or
a build without assertions does not look (`debug`), the pass may also go on. The
defects are those that the module names, of programs that the parser can produce.
The assertions of `typec.cpp:184`, `190` and `282` are not among them: what they ask
follows from the grammar, since names become symbols, which are both identifiers and
left values. `--help` and `--version` end in `ParseArguments` with status 0.

**Dashie** — Dashie units (`dashie.hpp`), the machine they run on (registers and
scalar stack slots) and `Exec`, what the instructions printed for a unit do to it.
`aw` does not reach scalar slots, because the compiler only takes the address of
arrays (`interop.cpp:162-170`). Every constant is arbitrary here; TLC and the
proofs use the same definitions.

**DashieMachine** — the abstract specification: units run one after the other.

**Peephole** — `optimize_dashie.cpp`. The alias maps of the four passes are
functions from registers to what they hold or `None`; each pass is an operator
from its map and a unit to its map and at most one unit, and `Pipeline` feeds one
pass with what the one before answered, as `operator>>` does. `src` runs the code
as generated and `opt` runs the code that comes out. The passes walk static code
and the model walks an execution path; the two agree because the maps are empty
after every unit at which a path leaves or joins the static order. `used_stack`
is collected from the whole function in the code; in the model it is any set that
contains what the path reads. `Enter` starts the next function.

**PeepholeTrace** — Peephole with the unit streamed last as a history variable,
and the refinement mapping to DashieMachine. What is seen of the optimised
frame is what the function reads: stores to other slots are dropped on purpose.

**Pinkie, PinkieMachine** — Pinkie's symbols and units, and their meaning: every
symbol is a variable of its own, and calls take a list. A pointer is a number:
where each array is (`Place`) is a parameter, because it is for the implementation
to say. `SymbolAssumption` is what the front end guarantees of names and sizes.

**CodeGen** — `interop.cpp`. An action runs one Pinkie unit with PinkieMachine,
and the Dashie code generated for it on a register file and a flat memory. The
registers that nothing may rely on are poisoned between units, and calls poison
those that a callee need not keep. The units of a function are any well-formed
units in any order, so loops and branches need no program counter; a branch
leaves the pool anywhere, because the code at its target was generated with the
pool in another position. Words of the program and addresses are kept apart by
their size. A callee changes any of the words it can reach (`Reach`): global
scalars, and elements of arrays that it sees or has a pointer to.
`ImplementsPinkie`, the refinement of PinkieMachine, and the five invariants are
proved (see Proofs); TLC checks the invariants, from which the refinement follows.

**RiscvLowering** — `riscv_output.cpp` and the tables of `glimmy.cpp`. `convert`,
`imm_elim`, `imm_opt`, `imm_shrink` and the frame of `convert_func` are translated
as they are; a processor with words of `WordBits` bits and immediates of
`ImmBits` bits runs the result one instruction at a time, and `want` holds what
the Dashie unit means. The processor is external. `Owned` is the memory that the
source speaks of, the locals and the globals; accesses through computed addresses
stay within it.

**Store** — integer operators of `Width` bits and a memory in which each symbol of each
activation has a block of addresses. **SysY** — the syntax tree and what it means:
the set of sequences of events (calls of library functions, exit value) a program
may show, because operands may be evaluated in either order. **GenEeyore** —
`gen_eeyore.cpp`, with the units that `FromEeyore` makes of its statements; the
counters of temporaries and labels are passed on in the order in which the code
asks for them. **PinkieOpt** — `optimize_pinkie.cpp`. **PinkieRun** — runs a whole
Pinkie program. **MiddleEnd** — the pipeline as a state machine: a source program
is chosen, every pass is an action, and `meant` remembers what the source means.
These modules use recursive operators on trees and serve TLC only.

**ArrayAlign** — `array_align.cpp`, with the recursion on an explicit stack, and
`clean_up` of `typec.cpp`. **ArrayLayout** states what an initialiser denotes by
plain recursion on its text (concatenate, fill up to a multiple, cut to size) and
the properties. The recursion is that of functions on the lists that can be between
the braces of each depth (`Lists`). Dimensions are positive and braces no deeper than
the array: the compiler checks neither, and with others it divides by zero or reads
past `offsets` (`array_align.cpp:23`).

The `MC` modules give the constants their values, and the modules whose names end
in `Proofs` hold theorems about the module they are named for.

The middle end and the code generator meet in `Ready`, `LabelsRight` and
`EverythingDeclared`: CodeGen runs any units that are well formed, and these
properties say that optimised programs have no others.

## Runs

| run | shows | bounds, and why they are enough |
|---|---|---|
| lexer | tokens are the longest matches (`LongestMatch`), positions are on their lines (`PositionsRight`), every call of the scanner returns (`Answers`) | texts of up to 3 of all kinds of characters; of up to 7 of newline, slash, star and a letter: a block comment with a line and a star inside, and something before or after it; of up to 4 of what numbers are made of (`0x8f`, `018`, a `0x` that is taken back), and of what words and pairs are made of (`if`, `iff`, `<==`, half a pair) |
| lexer_eof | finding | texts of up to 3 |
| parser | programs are read as the trees they were written from (`RoundTrip`); a text with a token missing, or with an EOF inside, is refused or read as a program that is written like that (`NothingInvented`) | expressions of two operators, every pair on both sides; statements three deep; two declarations with dimensions and nested initialisers, four lists of parameters. Precedence and associativity are decided between two operators, an else between two ifs. |
| scopes | late lookup finds what was found (`LateLookup`), numbers are distinct (`DistinctIds`), the environments implement lexical scoping (`ImplementsScoping`) | 3 names, one of them a library function, 3 declarations, 4 environments: shadowing over two levels, a second declaration in one block, a function after another one. The two names that are not in the library are symmetric. A block beside another one needs a fifth environment, for which TLC takes more than five minutes; the theorems cover it. |
| peephole | no alias map is ever stale (`AliasSound`), optimised code agrees with generated code (`Agree`) and implements DashieMachine (`ImplementsSource`) | 2 registers, one of them caller-saved, 2 slots, 2 globals. A stale alias needs two registers and one slot, an alias that survives a store of something else a second slot; the proofs cover the rest. |
| gotos | the code without its jumps to the next label runs in step with the code as it was (`InStep`) | every well-formed code of up to 5 units with two labels |
| codegen | memory holds the variables, arguments are in place, branches, calls and results are those of the source, callee-saved registers survive | two functions: one with two pointer arguments (one more than `NArg`, so that the second one is in a temporary of the pool), an array, a scalar temporary and a pointer temporary, and two globals; one with nine locals, so that two callee-saved registers are in the pool. Words 0 and 4 double as literals and offsets. |
| riscv | every unit is implemented, immediates fit, return address and stack pointer survive | 7-bit words, 3-bit immediates, two frame sizes, one unit between prologue and return; immediates below, at and above both ends of the 3-bit range. The state between units is arbitrary within `Begin`, and for longer bodies the proofs take over. |
| middle_end | code as generated shows what the source means (`GeneratedRight`), so does it after each optimisation (`OptimisedRight`), the compiler stops only for a reason (`StopsForAReason`), and the code generator gets what it relies on (`Ready`, `LabelsRight`, `EverythingDeclared`) | about 2000 programs: four functions (one that changes a global, one with an array parameter and two ways to return, one with a local array, one whose parameter has a computed dimension) and a `main` with a loop; every pair of operands under `+`, `-`, `*`, `%`, and under `+`, `-`, `/`, `%` those that bring both ends of the integers in, as constants and as locals; every pair of conditions in two nested conditionals or loops, with break and continue; constants and constant arrays, at the top of `main` and in blocks that are entered, never entered, or inside a loop; local arrays with dimensions that can and that cannot be computed. 28-bit integers, because TLC's own have 32. A program is followed for 8 events and 512 units; every loop shows an event each time round, so a program that does not end is compared as far as one that does. |
| array_align | the filled list of a local array is what the initialiser denotes (`LocalRight`), every element is found in the list of a global one (`LookupRight`), and the compiler gets through an initialiser that fits (`FittingEnds`) | dimensions 2x2, 3x2 and 2x2x2; braces with up to four items |
| array_overfull | finding | the same, with an element too many |
| driver | a failed compilation leaves the output file alone (`Untouched`), success, unless help was asked for, means code (`ZeroMeansCode`), the defect reported is one that no earlier pass was sure to stop at (`ReportsFirst`) | up to 3 of the 20 defects at once, so that one may go by and two more be met; builds with and without assertions, three kinds of command lines and of disks |

`CHECK_DEADLOCK FALSE` is set where a compilation, a text or a function ends.

Fairness is weak fairness of the whole next-state relation in ArrayLayout, and of
`exec` in Lexer once it has been called: a single-threaded compiler keeps running. A behaviour that does not end then is an endless loop of
the code. The refinements and the other runs are about safety and need none.

## Findings

* `array_align_expand()` ends with `while (it != result.end()) expanded.push_back(*it);`
  (`array_align.cpp:64`), which never advances `it`. A local array with an
  initialiser that has more elements than there is room for makes the compiler run
  until memory is exhausted, although the function is documented to "Perform the
  array initialzation process, and zero-expand them" (`array_align.cpp:47`). The
  run `array_overfull` ends in the loop of `Leftover`. Local constant arrays are
  expanded in the same way; global arrays are not. `FittingEnds` shows that every
  initialiser that fits is got through.
* The token for the end of the file takes its range from `ts` (`lexer.rl:90`), which
  the scanner has reset to the null pointer after white space or a comment. The
  range, and the position in the message of a syntax error at the end of the file,
  are then no "range in a file" (`location.hpp:15`). The run is `lexer_eof`.

Other things to know about the code, which no statement of the repository
contradicts: a character that no pattern matches ends the file, and what is
before it is compiled (`lexer.rl:89`); a second declaration of a name in a block is
dropped (`levelmap.hpp:42`); a function sees the globals that are declared after it;
a division by a literal zero that is never reached stops the compiler, and so does one
in a constant or a dimension of a block that is never entered (`StopsForAReason` says
when).

## Proofs

Every constant is arbitrary in the theorems. In place of induction over data,
which the prover cannot do, the proofs use `Least` (a set of numbers has a least
element: from the library's theorem on minimal elements of well-founded relations,
in each module that needs it) and invariants of loops.

`PeepholeProofs`, from `DashieAssumption` (the addresses of globals and arrays are
words, caller-saved registers are registers) and `PeepholeAssumption` (`None` is
nothing else):

* `TypeCorrect`, `AliasesAreSound`, `OptimisedAgrees`: `TypeOK`, `AliasSound` and
  `Agree` are invariants of `Spec`.
* `Refinement`: `TSpec` implements `DashieMachine`.

The inductive invariant is `IInv`, the conjunction of the three. None of them is
inductive alone: if a map is stale a dropped load makes the machines differ, and
if the machines differ a copy that VarAlias puts in place of a load brings a
wrong value. The argument: a pass keeps only entries whose register the unit
leaves alone (`ForgetKeeps`); a pass that drops repeated loads drops one only if
it would have changed nothing (`RememberSound`, used three times); `VarAliasSound`
adds that a store leaves its slot aliased to its own register only; together,
what leaves the pipeline does what the unit does (`PipelineSound`); a store that
UnusedStack drops is to a slot outside `used` (`KeptUnitAgrees`). `OptimisedInv`
and `EnterInv` are the two kinds of step. The refinement follows from the same
lemmas with the history variable.

`LexerProofs`: `PositionsAreRight`, `TokensAreLongest` and `TypeCorrect` for texts of
any length. The invariant `IInv` says that the line table holds exactly the starts of
lines up to some offset that has been read, and that what the scanner takes back has
no newline in it, but for an unclosed comment, after which the parser refuses.
For `TokensAreLongest` the invariant `Reading` says of each state of the automaton what
has been seen since the token began (`Seen`), and that what has been returned,
followed by what the rest of the text denotes, is what the whole text denotes. A
return keeps that because the state knows the longest match: no stretch that goes
on from there fits a pattern (`ReturnReads`, and a lemma for each state). The
recursive function `Rest` is shown to satisfy its equation for every text, with
`Least` in the place of induction.

`ArrayAlignProofs`: `LocalsAreRight`, `LookupsAreRight` and `TypeCorrect`, the three
invariants of the run `array_align`, for arrays of any dimensions and initialisers of
any length and nesting (`InputAssumption`: dimensions are positive, braces no deeper
than the array). The recursive functions of the model and of the specification are
first shown to satisfy their equations. In the invariant `IInv`, `Types` bounds the
stack by the dimensions; `Nested` says that each open brace is the item its outer
call has come to, with the items behind it still to come; `Placing`, that
each call has a part of the array of its own, whose elements are those
that its list spells out, and stands in it where the items so far end; `Listed`, that the list
has the expressions before that place, in increasing order of offsets and numbered
in the order of the text; and `Filling`, that what is filled is a beginning of the
array and what is left of the list comes after it. None of it holds alone: the
order of the list depends on the places of outer calls, which depend on a brace
being a whole sub-array, which depends on what its list spells out. The binary
search comes out where the order splits the list at an offset, whatever half is
taken at each step (`Splits`).

`ScopesProofs`: the environments implement LexicalScope (`Refinement`), and
`LookupIsLate`, `NumbersAreDistinct` and `TypeCorrect`. The invariant ties the calls
under way to the chains of their environments, and every number given to one
declaration; what a step does to the chains comes down to entering a declaration,
cloning an environment, and returning from one.

`GotosProofs`: `OptimisedInStep` for codes of any length. The invariant is that
there is a map from the places of the code to those of its answer, which sends a
dropped jump to the place of the label behind it.

`CodeGenProofs`: `Implements`, that the generated code implements PinkieMachine, and
with it `MemoryIsRight`, `ArgumentsWait`, `EventsAgree`, `RegistersGivenBack` and
`TypeCorrect`, the five invariants of the run `codegen`. They hold for any
functions, symbols and sizes of the register file with these assumptions:
words are natural numbers and the operators are closed on them
(`PinkieAssumption`); names are distinct, sizes are multiples of 4, and only
parameters and temporaries hold pointers (`SymbolAssumption`); a callee changes only
what it can reach (`ReachAssumption`); the pool has at least two temporaries and
every parameter of a function has a register (`RegisterAssumption`: `abi_argument`
refuses more); the frame and the globals have memory of their own
(`MemoryAssumption`: the stack and the linker).

The inductive invariant `IInv` is the conjunction of the five with what they need of
each other: scalars and elements hold words and pointers are numbers (`EnvOK`), so
that no value that the program computes is the poison; `x0` is zero, because `load`
copies it for a literal zero; while a function runs, its frame has the saved
registers of the pool and the register file the others (`SavesKept`), without which
`CalleeSaved` says nothing before the return; and between functions no argument
waits. The argument, in the order of the module: the words of the symbols and the
saved registers have places of their own (`PlacesApart`: what comes before a symbol
in map order takes up at least its words); the registers of a unit are distinct
and none passes an argument that waits (`NextRegisters`, `ArgumentRegisters`);
`load` brings the value of any operand and `store` changes one word (`Loaded`,
`Stored`); so the code of each unit assigns what the unit assigns (`UnaryDoes` to
`ArDoes`, `ComputeDoes`), and each action keeps `IInv` (`ComputeKeeps` to
`EnterKeeps`). A run of stores or loads of any length, the prologue and the
epilogue, is followed with the function of states that `Execute` goes through
(`WritesRun`, `ReadsRun`). A step of the two machines is then the same step
(`SameStep`). TLC checks `IInv` on the instance of `codegen`, too.

`DriverProofs`, for any number of the defects at once: `FileIsUntouched`,
`SuccessMeansCode` and `FirstIsReported`. The invariant says that at each stage a
source has nothing wrong with it that a pass before was sure to stop at; that, while
the compiler runs, only the parser, which goes on, has reported anything; and that
the file is the old one until `main()` ends with status 0, and when it was asked for
help.

`RiscvLoweringProofs`: `UnitsAreRight`, `ImmediatesFit`, `ReturnsRight`,
`NothingBelow` and `TypeCorrect`, the four invariants and the action property of the
run `riscv`, for words and immediates of any width, frames of any size and functions
of any length. Assumed are that t0, sp, ra and x0 are not in the pool, that tables
of operators are closed on words and `xor` gives zero for equal words only
(`RiscvAssumption`); that words have powers of two (`WidthAssumption`); and that a
frame fits the stack above the globals (`StackAssumption`; the linker and the
operating system).

An instruction of a unit may leave a half-made result in a register, so `UnitsImplemented`
says nothing in the middle of a unit and is not inductive. The invariant `IInv` says
what holds there: the instructions that have not run take the processor (`Runs`),
each with an immediate that fits and an address it may use (`Fine`), to a state
that agrees with Dashie's in the registers of the pool, `x0`, `sp`, the locals and
globals and the branch (`Agree`), and in the body still has the return address in
its slot, which is none of the locals (`OwnedIs`, from the rounding in `stk`). To
say that of code that the passes have rewritten, `Lower` is shown to work
instruction by instruction (`LowerConcat`, from `FlattenConcat`), and each instruction
to have, lowered, the effect that it would have with an immediate field of any
width, but for t0 (`LiteralDoes`, `AddiDoes`, `LwDoes`, `SwDoes`). Then come the
operators (`OperateDoes`: the instruction of `toRiscVOP` and the one that finishes it),
the prologue and the return (`PrologueDoes`, `RetDoes`), and the units
(`UnitDoes`); `UnitAlters` and `AlterAgrees` carry the agreement over a unit.

Model-checked only: the invariants of MiddleEnd and Parser, and every liveness
property (`Answers`, `FittingEnds`), which the prover does not reach. Grammar,
Syntax and the modules of the middle end use recursive operators on trees and serve
TLC only; what they compute is by induction on a program, for which the prover
has no rule. The order of the initialiser list that MiddleEnd relies on is what
`ArrayAlignProofs` proves.

## Not modelled

Text output (`eeyore.cpp`, `pinkie.cpp`, `to_tigger`, the printing half of
`riscv_output.cpp` and `glimmy.cpp`, JSON dumps), Pinkie back to Eeyore, which serves
`--output-eeyore` only, the garbage-collected strings, and the parsing of arguments.
In the parser, the ranges of nodes. In CodeGen, pointers passed from outside are to the
beginning of global arrays.

`src/3rd-party` (a JSON library, a formatting library, a garbage collector and
functional containers) is not this program; it is about 98% of the lines of the
repository, of which any model of the compiler can only be a small share. Of the
compiler's own sources, the lines left out are those of output, of constructors
and of the scanner tables that Ragel generates.

## Plan

To prove next: one pass of the middle end at a time, on code as a sequence of units
instead of trees. `clear_temp` and `unused_temp_remove` need no recursion, only a module
that does not extend GenEeyore. To model next: the ranges of nodes in the parser, and
the printing of programs as far as it decides something (the escaping of names, the
sections of globals).
