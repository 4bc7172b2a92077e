# lli in TLA+

`lli` is a small interpreter in C: it loads a text program line by line,
resolves its names and runs it over one flat memory of tagged numbers.  These
modules model the interpreter from its source (`src/src/*.c`), TLC checks
them on small programs, and TLAPS proves the safety properties of the run
loop, the call stack, the file layer, the hashmap and the loader for every
program and every size.

## The system

| Component | Source | State | Operations |
| --- | --- | --- | --- |
| Run loop | `opdef.c`, `opdef.h`, `code.h` | `Code.ptr`, the line being run | one handler per operation and operand kinds |
| Memory | `mem.c` | the vector of cells, the variable table, the label table | `Mem_mem_at`, `Mem_mem_set`, `Mem_mem_push`, `Mem_var_set`, `Mem_var_find`, `Mem_label_find` |
| Operands | `op.c` | none | `Tok_getValue*`, `Tok_getLoc*`, `Tok_writeValue*` |
| Values | `lex.h` | a tag and a union of a long and a double | read or assign a member |
| Call stack | `opdef.c` | a pointer cell and the cells above it | `push`, `pop`, `call`, `ret` |
| Loader | `core.c` | `Code.lines`, look-up tables, open sources | `Code_from`, `preprocess`, `prerun`, `resolveSym` |
| Lexer | `lex.c` | none | `lex_tokenize` |
| Hashmap | `hashmap.h` | slots without chains | insert, look up, rehash |
| Vec, Str | `vec.h`, `str.h` | a growing array | `Vec_at`, `Vec_at_unsafe`, `Vec_push` |
| File layer | `sys.c`, `print_num` | which descriptors are open, the streams' buffers | `exit`, `read`, `write`, `open`, `close` |
| Main | `main.c`, `error.c` | none | load, resolve, run; stop at the first error |

`main` loads with `Code_from` (which calls the lexer for every line and
itself for a `src:` line), resolves with `resolveSym`, then calls `run`.
`run` and the operands share `Mem`: a handler reads operands through `op.c`,
`op.c` reads cells and tables through `mem.c`, and some handlers hold a C
pointer into the vector of cells while they write other cells.  One thread
does everything; there are no callbacks, no timeouts and nothing persistent.

What is hard here is not concurrency but long sequences of legal
instructions over shared cells: a stack pointer is a cell that any line can
write, an index is read from memory, a variable may be bound to another cell
at run time, and a tag may no longer describe the bits next to it.  What
makes the components correct:

- *Memory and values*: cells stay within the vector and in range; an
  instruction writes the cells its operand gives it and no other; the tag
  tells which member of the union was stored last, as long as no instruction
  that ignores the tag has run.
- *Operands*: reading and writing through the same operand meet in one cell.
- *Control*: a jump lands on a line of the program; forward programs end.
- *Call stack*: last in, first out, under nested calls and mixed pushes; a
  return goes on where its call left off.
- *Loader*: each name gets the entry of its own declaration; what is not
  resolved is refused.
- *File layer*: a descriptor is used only while open; what is printed
  appears, once and in order.

## Modules

| Module | Models |
| --- | --- |
| `Values` | the cell type and the arithmetic of `opdef.c`'s macros |
| `Instructions` | the operations, the operands each takes, and what a loaded program is (`IsProgram`) |
| `Machine` | the run loop: one action per instruction handler, memory, operands |
| `System` | `Machine` with its files: `sys`, `print_num`, the descriptor table, the streams and the flush at exit |
| `CallStack` | what `push`, `pop`, `call`, `ret` promise: an abstract stack |
| `MachineStack` | the refinement mapping from `Machine` to `CallStack` |
| `Hashmap` | the table of `hashmap.h`, as operators |
| `HashmapUse` | a table and the calls made on it |
| `Loader` | `Code_from` to `resolveSym`, over the operators of `Hashmap` |
| `Lexer` | one line of characters to tokens |
| `MachineDoc` | statements of the repository's README that the code does not meet |
| `MCPrograms` | builds loaded programs from short texts, for TLC |
| `MCMachine`, `MCMachineStack`, `MCMachineDoc`, `MCSystem`, `MCHashmap`, `MCLoader`, `MCLexer` | the instances |
| `MachineProofs` | cells and their arithmetic; the machine's type invariant, safety invariants and action properties |
| `StackProofs` | that `Machine` implements `CallStack` |
| `SystemProofs` | the theorems of the file layer |
| `InductionProofs` | induction over numbers, stated with sets and functions |
| `TableProofs`, `HashmapProofs` | what an insertion keeps of a table; the theorems of `HashmapUse` |
| `LoaderProofs` | the theorems of the loader |
| `LexerProofs` | the theorems of the lexer |

The pieces meet in `Instructions`.  The lexer's tokens are the operands that
`Loader` reads, what `Loader` leaves satisfies `IsProgram` (`HandsOver`), and
`IsProgram` is all that `Machine`, `System` and their proofs assume of a
program.  That `HandsOver` is a theorem of the loader discharges this
assumption for every program that comes from a text.

**State of `Machine`.** `mem` is the vector `Mem.mem`, a function on
`0..size-1`; `size` is kept beside it as in `Vec.size`.  `var` is `Mem.var`.
`ptr` is `Code.ptr`, a `size_t`.  `prog` selects the loaded program, which
does not change: its lines, its label table, and the initial cells and
variables.  `status` is `"run"` until the loop returns, then `"ok"` or the
error returned.  `copy` holds the locals of `cpy`'s loop.

**Steps.** A step is one handler from `TARGET` to `DISPATCH` or to an error
return, in the handler's order: `TARGET` stores the line's address in cell 1
first, and a handler that fails late leaves behind what it already wrote (a
pushed pointer, an answer).  `DISPATCH` is one past whatever `Code.ptr` holds,
so a jump to line n continues at n + 1.  Only `cpy` takes several steps, since its
loop re-reads memory that it is writing.

**Values.** A cell is `[type, as, n]`: the tag, the member stored last, and
the number.  Reading the other member yields the reinterpreted bits through
the constants `LongBits` and `DoubleBits`, any two functions with
`DoubleBits[LongBits[d]] = d`.  Longs wrap at width `2 * LongMax + 2`.
Doubles are whole numbers that saturate at `DoubleMax`: fractions,
infinities and NaN are left out, and with them rounding and comparisons with
NaN.  Signed overflow wraps, as the build does on its targets.

**State of `System`.** `slots` is `Mem.fd`.  `os` is the kernel: the open
descriptors, each with its file, position and access, and the files.
`streams` are the `FILE`s that still hold text, since every `fdopen` makes one
and nothing closes it.  `texts` and `heard` are history: what was given to
standard output, and which characters of standard input were delivered.  A
call is one step, from its operand to `DISPATCH`; the three outcomes of a
write (whole, past memory, null stream) are three actions.  `print_num` fills
a stream, `fflush` and `AtExit` empty it, and the text goes to whatever the
descriptor then stands for.  The kernel and stdio are external, as `sys.c`
uses them: regular files and pipes, no failing device, no terminal.

**State of `Loader`.** `frames` is the stack of `Code_from` calls, one for
each file being sourced, with the lines its generator has read and the `src`
line that waits for it.  `code`, `mem`, `var`, `label` and the two look-up
tables are the vectors and tables of `Code` and `Mem`.  A step reads one line
and does all that `preprocess` and `prerun` do with it, or resolves one line.
`opIdxTable` is taken as exact: an operation is known when its name and the
kinds of its operands are in it.  Two bounds stand for what `realloc` can
provide: `MaxLines` lines and variables, and `MaxMem` cells.  Neither
`Vec_push` nor its callers look at a failed `realloc`, so the step that passes
a bound ends in `"undefined"`.  `LoaderAssumption` is what the code justifies:
lines are as the lexer leaves them, but for the literal of size -1 that an
unterminated quote gives (`WildOnlyUnterminated` says when); the registers are
at most ten, the number `main` asks for, and have names; and `Hash` is any
function from the names to the naturals.

**State of `Hashmap`.** A table is its capacity and slots.  A hash is any
function on the names, since `sdbm` of a name can be any number.  Rehashing
is a recursive function that counts its depth; `stuck` marks a table whose
rehash asked for more than `MaxRehash` others within it.  `HashmapUse` stops
there, and the step of `Loader` that declares the name ends in `"undefined"`
(`Endless`): the recursion runs out of stack or of memory.  An insertion is a
function of the table and the pair, so that both it and the rehash can be
reasoned about.

**State of `Lexer`.** `line` holds the characters read so far, `lex` the
locals of `eat_token` and `lex_tokenize`, and `Result` is what the latter
returns if the line ends there: every prefix is a line of its own.

**Undefined behaviour.** The status `"undefined"` stands for an access
outside the vector through an unchecked pointer, for a trapping remainder,
for memory that cannot grow, and for a read in front of a table.  The model
says nothing of a run after it.  A `mov` to a string literal reads the
variable table far in front of its first entry: any long may come back, or a
fault, and the model allows each.

## Runs

The instances of `Machine` have longs of -16..15, doubles of -2..2, two
registers, one literal at cells 4 and 5, and memory of at most 8 cells.  That is enough for
an index to be in range, out of range, negative and `LongMin`; for a stack to
overflow memory and to underflow into its own pointer; for sums, products and
counters to wrap.  `CHECK_DEADLOCK FALSE` is set everywhere: the interpreter
stops.

| Run | Inputs | Properties |
| --- | --- | --- |
| `machine_data` | two fixed lines and every three of a pool of 38 memory, arithmetic, copy and stack lines | `TypeOK`, `TagsTellTruth`, `LiesBegin`, `NoFault`, `FaultsHaveCause`, `Frame`, `ReadBack`, `PointerAsOperand` |
| `machine_control` | two fixed lines and every four of a pool of 18 label, jump, call and copy lines, if they load | `TypeOK`, `ControlStaysIn`, `Frame`, `Terminates` |
| `machine_stack` | every four of a pool of 12 stack lines around a function | `StackSpec` |
| `system` | every three calls of a pool of 28, with their arguments | `SysTypeOK`, `TableTruth`, `OutputComplete`, `StdinOnce`, `SysFrame`, `Finishes` |
| `loader` | every text of three lines of a pool of 22, before a label, with three files to source | `TypeOK`, `HandsOver`, `NamesResolve`, `LiteralsApart`, `ErrorNamesLine`, `InlinesSources`, `LoadEnds` |
| `hashmap` | up to `MaxCalls` insertions and removals of four names, under every hash into six values | `IsDictionary`, `EntriesAreGiven`, `RehashEnds` |
| `lexer` | every four characters of 13 after each of four beginnings of a line | `TypeOK`, `SplitsIntoFields`, `ReadsBack`, `WildOnlyUnterminated`, `CommentIgnored` |
| `doc_ret`, `doc_nested`, `doc_cpy`, `doc_casts`, `doc_src` | one short program each | violated, see below |

Three free lines after two fixed ones are enough to set a pointer, corrupt
it and use it; four are enough for a call, a line it skips, a nested call
and a jump back.

- `TypeOK`: the type invariant.
- `TagsTellTruth`: in a program without `inc`/`dec`, `incf`/`decf`, casts and
  stack instructions, every tag tells which member was stored last.
- `LiesBegin`: in any program, while every tag tells the truth, only an
  instruction that works on one member can make one lie, in its own cell,
  whose tag it leaves (but for a `pop` that answers into it); `push` may store
  a copy of such a cell.
- `NoFault`: a program of instructions that check their indices never leaves
  memory.
- `FaultsHaveCause`: in any program, a line faults only because a name that is
  no label is read, a literal is written, a remainder traps, the cell of a
  stack pointer or of a cast is past memory, or memory cannot grow; a copy,
  only through the null index it builds for cell 1.
- `Frame`: a line changes cell 1, cell 0 if it answers, and the cells that
  its own pointer operand gives it, evaluated when the line starts.
- `ReadBack`: after a `mov` through a plain operand (no nested index, not an
  index held in the cell it designates), reading the operand gives the value.
- `PointerAsOperand`: `push` moves its pointer before it reads the value, so
  a pointer pushed on its own stack is stored as moved; `pop` answers before
  it moves the pointer, so a pointer in cell 0 ends as the value popped less
  one.
- `ControlStaysIn`: if every target is a name, or a number with a line after
  it (-1 included), and there is no `ret`, `Code.ptr` is always a line.
- `Terminates`: if, besides, jumps go forward, the run ends, a `cpy` with a
  negative size included.
- `StackSpec`: `Machine` implements `CallStack` for programs that keep one
  stack (`OneStack`: every line that writes through an operand has one whose
  cell is fixed, and it is the pointer's for stack lines and for the lines
  that make the stack only).  Below the bottom of the stack nothing is
  promised: the pointer's own cell can be overwritten.  The abstract `ret`
  continues one line after the saved address, as the code does; `doc_ret` is
  about that.

Of the file layer (`system`):

- `SysTypeOK`: memory is one block of typed cells, whatever was read into it,
  and the kernel's files, the table, the streams, the texts given to standard
  output and what was heard of standard input have their types.
- `TableTruth`: `Mem.fd` holds exactly the descriptors the kernel has open,
  through opens, closes and reuse, until a call leaves the table.
- `SysFrame`: a call changes cells 0 and 1 and, for a read, the cells it was
  told to fill, also when the read fails halfway or its index crosses zero.
- `OutputComplete`: if standard output was never closed, everything given to
  it is there once the program is over, exactly once; a `write` is ordered
  before all later output, a `print_num` is not.
- `StdinOnce`: input is delivered in order and never twice, although each
  read throws away what its stream has read ahead.
- `Finishes`: a forward program ends and its streams are emptied.

The bounds: a table of 4 entries under a kernel of 5 descriptors, so that two
opens overrun it; reads of 2 characters through buffers of 3, over 5
characters of input, so that read-ahead is lost and the end is reached; longs
up to 111111, since an option is six decimal digits; a memory of 11 cells
with two names and a text that reaches its end.

Of the loader:

- `HandsOver`: a text that loads satisfies `IsProgram`, colliding names and
  unresolved lines included.
- `NamesResolve`: if no two names share a slot, a jump leads to its label and
  a variable to its declaration, across sourced files and whatever the order.
- `LiteralsApart`: every literal operand has its characters and its zero in
  cells no other literal has.
- `InlinesSources`: sourced files stand where they are sourced, to any depth,
  each ended by a halt.
- `ErrorNamesLine`: until a file is sourced, an error's line number is the
  line in the text.  (After one it counts the lines of all files.)
- `LoadEnds`: loading ends, since a file that sources itself runs out of
  files to open.

Three lines are enough for a declaration, a use and a source in every order.
Of the names on one slot, "v" is taken for "u", so that it reads the other's
entry or its declaration is refused; "uu", which is longer, makes the table of
variables rehash, after which a name may be lost; and once "z" has slot 0 such
a rehash does not end.  Loading always ends in the model, since there it is
`"undefined"`.  With room for 11 lines and 12 cells both bounds are passed, while
lines are read and while they are resolved.

Of the hashmap: `IsDictionary` (no slot shared: a dictionary, undeclared
names included), `EntriesAreGiven` (whatever collides, an entry is one of
the inserted ones, held once, and found only by names of its length) and
`RehashEnds` (unless a name hashes to 0).  The tables start with `DefaultCap`
slots and grow by `Growth`, both smaller than the range of the hashes.

Of the lexer: `SplitsIntoFields` compares the scanner with a definition of
fields from the whole line (which characters are within a literal, and where
a comment starts, from the quotes and the backslashes before them);
`ReadsBack` writes the tokens of an accepted line out again and reads them;
`CommentIgnored` is about each further character; `WildOnlyUnterminated`
says which lines give a literal of size -1.  Four characters after a
beginning make a literal with an escape and its end, a nested index, or two
operands and a comment.

**Fairness.** `WF_vars(Next)`: one thread runs the loop, and while a handler
can run nothing else holds it up.  `System` has `WF_allvars(SysNext)`: files
and pipes that are read or written at once, and the flush at exit, which the
library does without waiting.  `Loader` has `WF_vars(Next)` for the same
reason.  `HashmapUse` and `Lexer` state no liveness and assume no fairness.

## Where code and documentation disagree

The five violated runs check statements of `src/README.md`:

- `RetJumpsToIdx` (README lines 83-84): a `ret` continues one line after the saved
  address, so the instruction after a `call` is skipped.
- `NestedReadBack` (lines 20, 25-27): the write path of a nested index
  follows one index fewer than the read path.
- `CpyCopies` (line 38): `cpy` writes through cell 0, or through a null
  pointer, instead of to its destination.
- `CastsChangeType` (lines 45-46): `ltof` and `ftol` leave the tag as it was.
- `SourcedNotExecuted` (line 93): a sourced file is inlined in front of the
  line that sources it and runs; its halt ends the whole program.

The model also follows the code, without a run of its own, where `div` and
`divf` multiply (README lines 53 and 60), where `loc` of a literal is
positive (line 28), where `inc` and its kin write through a negative index
(line 11), where a jump to a number continues one line later (line 80), and
where a jump whose target is not a name leaves the other names of its line
unresolved (`resolveSym`, `core.c` line 97).  Also where a second `var` of a
name is refused (line 40), where a read appends no zero (line 99), where an
error of `resolveSym` or `run` names a line of the code and not of the text,
where an unterminated literal is accepted without its last character, where a
created file's mode is not passed to `open`, and where `Error_ExceedOpenLimit`
can never be returned (`sys.c` line 109).

## Proofs

Checked by TLAPS for every value of the constants that satisfies the named
assumptions of the modules: `ValuesAssumption` (a width, and bits that read
back), `InstructionsAssumption`, `MachineAssumption` (programs satisfy
`IsProgram`), `StackAssumption`, `SystemAssumption` (a table, descriptors,
buffers and files of any size; a long can hold a character), those of the
hashmap, `LoaderAssumption`, and `LexerAssumption` (a character is not the size of
a text).  TLC evaluates each in a passing run.  The
bounds of the runs play no part: the proofs are for any number of lines, cells,
names, files and calls.

| Theorem | Says |
| --- | --- |
| `MachineProofs!TypeCorrect` | `Spec => []TypeOK` |
| `MachineProofs!TagsCorrect`, `ControlCorrect`, `FaultFree` | `[]TagsTellTruth`, `[]ControlStaysIn`, `[]NoFault` |
| `MachineProofs!FaultsCaused`, `LiesCaused` | `FaultsHaveCause`, `LiesBegin`, properties of every step |
| `MachineProofs!FrameHolds`, `MovReadsBack` | `Frame`, `ReadBack`, likewise |
| `StackProofs!StackImplemented` | `Spec => StackSpec`, the refinement of `CallStack` |
| `SystemProofs!SysTypeCorrect`, `TableCorrect`, `StdinInOrder` | `[]SysTypeOK`, `[]TableTruth`, `[]StdinOnce` |
| `SystemProofs!OutputIsComplete` | `[]OutputComplete` |
| `SystemProofs!SysFrameHolds` | `SysFrame`, a property of every step |
| `HashmapProofs!DictionaryHolds`, `EntriesHold` | `[]IsDictionary`, `[]EntriesAreGiven` |
| `LoaderProofs!LoadTypeHolds`, `ErrorNamesLineHolds`, `HandsOverHolds`, `LiteralsApartHolds`, `NamesResolveHolds` | `[]` of the property each is named for |
| `LexerProofs!LexTypeCorrect`, `WildCorrect` | `[]TypeOK`, `[]WildOnlyUnterminated` of `Lexer` |
| `LexerProofs!SplitCorrect` | `[]SplitsIntoFields` |
| `LexerProofs!CommentHolds` | `CommentIgnored`, a property of every step |

**The run loop.** `TypeOK` is inductive.  Its proof has one lemma per handler,
stated for any set `S` of cells that contains the sound ones: a handler that
moves whole cells keeps memory in `S`.  With `S = Value` this is the part of
`TypeOK` about memory, with `S` the sound cells it is `TagsTellTruth`, so the
handlers are gone through once.  The handlers that work on one member of a cell
(`push`, `pop`, `call`, `ret`, `inc` and its kin, the casts) have lemmas for
`Value` only, and a program of `TagsTellTruth` has none of them.

`LiesBegin` splits on the line: a handler that moves whole cells keeps them
sound by the same lemmas, and each of the others changes its own cell and
what it stores, read off its definition.

`ControlStaysIn` needs two facts to be inductive (`ControlInv`): a label is
the address of an `lbl` line and the last line is the `halt` the loader adds,
so the line after a label or after a line that runs exists; and while a
`cpy` is in progress the line pointer is still at the `cpy`, which is not
that last line.  A number is a target by what it is after `DISPATCH`: -1 as a
`size_t` wraps to the first line (`NumberStaysIn`).

`FaultsHaveCause` goes through the handlers once: each that can end in
`"undefined"` does so under one of the conditions of `FaultCause`
(`NextHasCause`).  `NoFault` rests on it: it is inductive together with the
absence of a copy in progress (`FaultInv`), since none of these causes fits a
guarded line and `cpy` is not among them.

`Frame` has one lemma per group of handlers: what memory holds whenever a
handler writes differs from what `TARGET` left in the designated cells only.
For push and call that rests on the pointer not wrapping when the write
succeeds (`CellAbove`).  `ReadBack` is proved from what a `mov` that goes on
has written (`MovWrites`), and from `Plain`, which says that no cell the
operand reads on its way is the one it designates.

**The call stack.** The mapping reads the stack off the cells above `Base`.
The invariant (`OneInv`) is that no copy is in progress and that variables
point where the loader put them, since a program with one stack has neither
`cpy` nor `var`.  A push or a call appends a value (`Pushed`), a pop or a ret
takes the last one (`Popped`), each by an argument about the cells between
`Base` and the pointer; for the other lines `Frame` says which cells can
change, and `allc` adds only zeros (`GrowsByZero`).  A `ret` lands one after
the saved address also where the address wraps (`SizeNext`).

**The file layer.** The invariant (`SysInv`) has four parts: the machine's
types while it runs (a call may end the run with a status of its own); the
types of the kernel and the streams (`KernelOK`); that the only descriptor for
standard input is 0, that it is not written, and that what was heard of it lies
before its position (`InputOK`), without which a later read, or a text that is
flushed to it, could deliver a character twice; and `TableTruth`.  Whatever is
flushed, and in whatever order, changes data and the position of a descriptor
that is written, nothing else (`OutKeeps`, `FlushedAllKeeps`).  `SysFrame`
follows from the cells a read fills one by one (`Filling`).

`SysTypeOK` holds after the run too, where `SysInv` says nothing of memory.
`MemoryOK` is that part, kept by every call, a read that fails halfway
included (`ReadFills`); the texts come from `OutInv` below.

`OutputComplete` looks only at the end, so its invariant (`OutInv`) keeps an
account all along.  `Ledger` says that the texts given so far, but for a set of
them, make up the file in an order that is allowed; `Matches` pairs that set
with the streams that hold text for descriptor 1.  A write adds the last text
to both (`AccountSend`), a number adds one to the set (`AccountHold`), a flush
moves one from the set to the file (`AccountFlush`), at exit as in the flush of
all streams.  It holds since only descriptor 1 stands for standard output, is
at the end of it, and once closed is never again (`OneOut`).  The proof needed an
assumption that was missing: no file of `Disk` has the name that stands for a
standard file.

**The hashmap.** An insertion that collides rehashes, and the pairs that move
can collide again, within the recursion.  `TableProofs` shows that an
insertion keeps a table sane (as many slots as its capacity, no entry twice)
and that what it holds afterwards was there before or is the new pair, whatever
the depth at which it gave up.  `UseInv` adds that every entry is one
of those given and, while no two used names share a slot, that each is in its
own slot of a table that never grew (`Direct`).

**The loader.** `LoadInv` is one invariant with a part for each thing a later
step relies on:

- `LoadType`: the lines stored have known operations and operands whose
  entries are below the length of the table they index; the phase and the
  open files go together, and once the files are read the last line is `halt`.
- `EntryType`: what the look-up tables hold is below the lengths of the tables,
  and a label is the address of an `lbl` line.  Without the second the target
  of a jump would not be in the program.
- `FrameType`: a file below the top of the stack is open and has a line left,
  the one that sourced the file above.
- `EntryNames`: an entry found under a name belongs to the line that declared
  it, or to its register.
- `EntryPlaces`: while the declared names have slots of their own, the tables
  have every name in its slot.  With `EntryNames` it is what makes a look-up
  give the entry of the name's own declaration.
- `SettledInv`: every name of a line resolved so far has the entry that its
  look-up gives, and every literal has its characters and its zero in cells
  apart from those of all literals before it.

`HandsOver`, `LiteralsApart` and `NamesResolve` are read off this invariant in
phase `"run"`.  Two things about the code turned out to matter.
What happens when `realloc` provides nothing had to be said, and is
`"undefined"`.  And nothing is proved of a text with an unterminated quote,
whose literal has size -1.

**The lexer.** The properties look back over a whole line (`Inside`, `Outside`,
`Stop`), the code reads forward with a flag and a state.  `LexInv` says that the
two agree: the scanner is in a literal where the line is, after an odd run of
backslashes exactly when an escape is pending, and has met no comment sign
outside a literal while it goes on.  `Turn` lists the outcomes of one turn of
the loop, and each keeps `LexInv`.  `LexTypeCorrect`, `WildCorrect` and
`CommentHolds` are read off it.

`SplitCorrect` needs two more parts.  `PendingOK`: an escape is pending exactly
after a backslash that begins one in the look-back sense.  `FieldsOK`: as long
as there is no error, the tokens are those of the fields that are complete, and
the text of the token in progress is that of the last field (`Split`), up to
where the line stops (`IsStop`).  `Grows` says what a turn adds to the two, in
terms of the scanner, and `Here` that the character means the same in terms of
the line; `TextGrows` and `TextStable` say how the text of a field changes
with one more character, which is at most at its end.  `Fields` puts positions
in order by counting (`InOrder`), so that a greater position is appended
(`InOrderGrows`); that an accepted line has no empty field but at its end is
part of the property.

**Induction over data.** The library's induction theorems take an operator as
a parameter, which no installed prover can instantiate.  `InductionProofs` states
the same principles with a set for the property (`Induct`, from the least
counterexample) and with functions for what is iterated (`Iteration`,
`Descent`), and the recursive functions of the model (the rehash, the cells a
read fills, the flush of all streams, the digits of a number, the literals of a
line) are reasoned about by them.

**Only model-checked.** Liveness (`Terminates`, `Finishes`, `LoadEnds`) is out
of the prover's reach, and `PointerAsOperand` is left to TLC.  `RehashEnds`
depends on the bound of the run: `MaxRehash` is enough for the names and hashes
of that instance.
`InlinesSources` compares with a RECURSIVE definition, which cannot be used
from a module with proofs.  `ReadsBack` of `Lexer` prints tokens and reads
them again, numbers included: what the two recursive definitions of decimals
compute is an induction over data.

## Not modelled

- Lines longer than the loader's buffer, which are read as several lines, and
  names of operations longer than the 100 characters of `preprocess`.
- Collisions within `opIdxTable`: its 459 names have slots of their own, but
  a misspelt operation may share one of them.
- `Vec_insert`, `Vec_erase`, `Vec_remove`, `Vec_pop`, `Vec_copy`,
  `Hashmap_count`, `Hashmap_contains`, `Hashmap_change_hashfunc`,
  `generator_StrArr` and `OpCodeStr`, which nothing calls, and `Tok_eq`,
  which only tests call.
- Terminals, devices that fail or fill up, and a signal in the middle of a
  call.
- The build with `COMPUTED_GOTO`, which the makefile turns off: its dispatch
  does not check the end of the program.
- Fractions, exponents, infinities, NaN; digits other than 0 and 1 in the
  lexer; allocation beyond a bound on the number of cells; formatting,
  messages and the timing line `main` prints.

## Plan

1. `Machine`, `CallStack`, their runs and the safety theorems (done).
2. `Hashmap` and `Loader`, with the result handed to `IsProgram` (done).
3. `System`: `sys` and `print_num` as further actions on the machine's
   memory (done).
4. `Lexer`, against a definition of fields (done).
5. Proofs: the refinement of `CallStack`, the loader's invariants, the file
   layer and the hashmap (done).
6. Proofs about `Lexer`: its types, literals, comments and fields (done).
