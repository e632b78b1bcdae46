# A TLA+ model of brash

Brash is a small scripting language written in C: a line editor for its prompt,
a lexer, a compiler that goes over the source once, and a virtual machine for
the bytecode it writes. The modules in this directory model that program from the
keys and characters that go in to the values that are shown, with the object
files it writes and reads. TLC checks them on small instances, and TLAPS proves
the invariants of eight components, and two refinements, for every instance.

Paths below are relative to the repository; all C files are in its `src/`.

## 1. The system

```
 keys ──> scline.c ──line──> main.c ──text──> lexer.c ──tokens──> compiler.c
          (prompt)             │                                      │ chunk
 file ─────────────────────────┘                                      v
        │            variablelookup.c, value.c <──calls── virtualmachine.c
        └─ object file <──bytes──> main.c -c, chunkdisassembly.c
```

Everything is one thread in one process. `main()` either runs one file
(`VM_MODE_STATIC`) or asks the line editor for one line after the other
(`VM_MODE_INTERACTIVE`) and gives each to `interpret()`, which compiles it into
a new chunk, runs it and frees the chunk. What makes the program hard is
therefore not concurrency but

* **long sequences of legal calls**: the state of the machine (variable tables,
  scope counter, declared functions) outlives the chunk that a line compiles to;
  the state of the editor (history, remembered line, buffers) outlives a line;
* **unchecked arrays and pointers**: the value stack, the call stack, the
  variable tables, the tables of parse rules and of parameters, the string
  buffers. Their bounds hold only if several functions agree;
* **jumps that are written first and patched later**, with any number of syntax
  errors between, in a compiler that reports errors and goes on;
* **reads that end without data** and are not noticed.

| Component | State | Operations | What makes it correct |
|---|---|---|---|
| Virtual machine: `virtualmachine.c` | value stack, one variable table per scope, scope counter, call stack, declared functions, `ip`, chunk | `initVM`, `interpret`, one case of `run()` for each opcode | stacks and scopes balanced at every instruction; scopes start fresh; `ip` and resume addresses in the running chunk; code without loops ends, but for one lookup |
| Instruction set: `chunk.h`, `bytecodeconsumers.c` | none | operand widths, `decodeFunc` | writers and readers agree on every offset |
| Compiler: `compiler.c` | parser (current, previous, error flag), chunk, registered functions, and the C stack | `compile` and the parsing functions | the chunk means what the program says; jumps land on instructions, scopes pair, whatever the source; it ends, but for headers that are not closed |
| Lexer: `lexer.c` | position in the source | `setLexer`, `produceNextToken`; `isAssignmentStatement` is never called | no character in two tokens, none lost but layout; no read past the end; standing still at the end |
| Variable lookup: `variablelookup.c` | names and values side by side, size, capacity | `lookup_add`, `lookup_get`, `lookup_has`, make, free | a function from names to values; both arrays of one length |
| Line editor: `scline.c` | candidate, cursor, remembered line, history, capacity | one turn of `grabInputLine()` for each key | the buffer is a string; copies fit; the history is in order; keys do what they say |
| Values: `value.c`, `value.h` | none | tags, equality, string construction | a value is read under its tag |
| Chunk and memory: `chunk.c`, `memory.c` | bytes, locations, size, capacity; `vm.allocatedBytes` | `initChunk`, `writeChunk`, `freeChunk`, patching, `reallocate` | a log of bytes with their locations, whatever moves underneath |
| Program modes: `main.c`, `iofunctions.c` | `ProgramInput`, the mode | the loop over the arguments, reading files, the loop of the prompt | a command line in order is read as it was meant; a mode has its file |
| Session: `main.c`, `interpret()` | what the compiler and the machine keep between lines | a line entered, compiled, run | the line means what its syntax tree means, whatever ran before; the prompt is clean |
| Byte order: `bytes.c` | none | `transpose`, writes and reads of two and eight bytes | a file does not depend on the machine |
| Object file and disassembler: `chunkdisassembly.c`, `main.c` | position | `serializeChunk`, `disassembleChunk` | lists what was written; ends on any file |
| Debugging, type checker | none | output; `typecheck()` returns true | |

How they interact:

* *lexer → compiler*: `produceNextToken()`, one token ahead. At the end of the
  text, and at an error it cannot pass, the lexer produces the same token for ever.
* *compiler → machine*: the chunk. The machine checks nothing of it, so the
  compiler's guarantees are the machine's assumptions.
* *machine → variable lookup*: one lookup for each scope, renewed when the scope is left.
* *line → line*: `vm.declaredFunctions` keeps pointers into chunks that are freed.
* *editor → `main()`*: a copy of the line; the editor's buffers and history stay.
* *compiler → file → disassembler*: bytes, in an order both sides must agree on
  although each may run on a machine of its own.

`PROJECT.json` lists under `hazards` what in this code is hard to test, each at
its line, with the properties that would notice it going wrong.

## 2. Modules

| Module | Lines | Models |
|---|---|---|
| `Bytecode` | instructions | opcodes, widths, effects, and what a well-formed chunk is |
| `VirtualMachine` | machine | `interpret()` and `run()` |
| `Tokens` | tokens | what the lexer hands over |
| `Compiler` | compiler | `compile()` and all parsing functions |
| `Compiler_proofs` | | theorems about `Compiler` |
| `Language` | abstract | phrases of the language, their text and their meaning |
| `Translation` | | `Compiler` against `Language` and against `WellFormed` of `Bytecode` |
| `VariableMap` | abstract | a function from names to values |
| `VariableLookup` | lookup | the arrays of `variablelookup.c`; implements `VariableMap` |
| `VariableLookup_proofs` | | theorems about `VariableLookup` |
| `CommandLine` | editor | `grabInputLine()` and everything it calls |
| `CommandLine_proofs` | | theorems about `CommandLine` |
| `Lexer` | lexer | `produceNextToken()` on characters |
| `Lexer_proofs` | | theorems about `Lexer` |
| `TokenSource` | abstract | tokens handed over one by one: what `Compiler` takes the lexer for |
| `Writing` | | `Lexer` on texts written from tokens; implements `TokenSource` |
| `Interpreter` | session | `Compiler` and `VirtualMachine` composed, line after line |
| `Interpreter_proofs` | | theorems about `VirtualMachine` and about `Interpreter` |
| `Semantics` | abstract | what a syntax tree prints and binds, without stack, jump or address |
| `ChunkMemory` | chunk | the arrays of `chunk.c`, their growth, and the bytes patched in them |
| `CodeLog` | abstract | what a chunk promises: a log of which two entries may be replaced |
| `ChunkMemory_proofs` | | theorems about `ChunkMemory` |
| `ObjectFile` | bytes, file, disassembler | instructions as bytes, written and listed on machines of either byte order |
| `ObjectFile_proofs` | | theorems about `ObjectFile` |
| `ProgramInput` | modes | the loop over the command line and the choice of the mode |
| `ProgramInput_proofs` | | theorems about `ProgramInput` |
| `MC_*` | | the instances TLC checks |

How the parts meet: `Bytecode` is the contract between `Compiler` and
`VirtualMachine`, and it has two strengths. The chunk of a program is `WellFormed`, which
`Translation` checks; by itself `VirtualMachine` is run on such chunks and assumes
nothing else about them (`ChunksAssumption`), and its theorems hold for every set of
them. The chunk of any source, errors and all, is `Deliverable`, which `Compiler_proofs` proves;
in `Interpreter` the machine gets those, and `Interpreter_proofs` proves what is left of its theorems. `VirtualMachine` uses a function from names to values for each scope;
`VariableLookup` shows that the arrays of the C code implement that function. In
the same way `Compiler` and `ObjectFile` write to a chunk that simply gets longer,
and `ChunkMemory` shows that the arrays implement that; `Compiler` reads a sequence of
tokens, and `Writing` shows which texts the lexer turns into the sequence they were
written from. `Interpreter` takes `VirtualMachine` (by EXTENDS) and `Compiler` (by
INSTANCE) as they are, their variables side by side, and checks that the machine is always given
the chunk of the line that was entered.

Definitions that begin with the name of another and end in an underscore and a
word (`JumpIfFalse_Peeks`) and whose comment begins with "Mutant" are plausible
mistakes in the definition they are named after. They are not part of any
specification: each was put in place of the original to see that the property
listed for it in `PROJECT.json` fails, so that no property is satisfied by
whatever the code does.

### 2.1 `VirtualMachine`

Variables are the fields of `VM` (`virtualmachine.h`) under their names, with
`stack` for `stack` and `stackTop` together, `tables` for `variableTables`,
`functions` for `declaredFunctions` and `ip` as an offset into the chunk.
`lines` counts calls of `interpret()`. `bases` (the scope level each active call
was made at) and `mixed` (`OP_ADD` met operands it has no case for) are history
variables: no action reads them to decide anything.

One step is one turn of the loop in `run()`, operand reads included.

| Action | Code |
|---|---|
| `Interpret` | `interpret()` up to the call of `run()` |
| `PushValue` | the instructions for which `interpretValue()` makes a value |
| `UnaryOp`, `BinaryOp`, `AddMixed` | operators; `AddMixed` is `OP_ADD` on anything but two numbers or two strings: both operands are popped, nothing is pushed |
| `PopValue`, `PrintValue` | `OP_POP`, `OP_PRINT` (in the REPL `OP_POP` shows the value) |
| `EnterScope`, `ExitScope` | the scope counter, and the renewal of the table that is left |
| `DefVariable`, `SetVariable` | `OP_DEF_VARIABLE` binds in the current scope; `OP_SET_VARIABLE` looks at the enclosing scopes first |
| `Jump`, `JumpIfFalse` | `OP_JUMP`, `OP_LOOP`, `OP_JUMP_IF_FALSE` |
| `DecFunction`, `FunctionCall`, `ReturnToCaller`, `Finish` | headers, calls with their inline arguments, `OP_RETURN` inside and outside of a call |
| `Underflow`, `Overflow`, `NoSuchFunction`, `DanglingFunction`, `UndefinedVariable`, `WildPointer` | the steps C leaves undefined; each ends in a status of its own |
| `Spin` | a variable nobody has set, looked up at the top level: the `while` of `interpretValue()` (115) never ends. The state stays as it is and is still running; it is a hang and not an end |

A function records the `line` that declared it: its name and its start are pointers into that call's chunk,
and `Freed` says that the chunk is gone. The code keeps no such record and scans the table as it is; whatever
reads the pointers of a freed chunk is `DanglingFunction`.

`MissingArgument` is a call in a broken line whose argument is something else than a value:
`interpretValue()` then has nothing to return. C promises nothing after such a step, so the model stops there. Reading the
union of a value under the wrong tag is a nondeterministic choice
(`AsNumber`, `AsBoolean`), as are the results that depend on it.

### 2.2 `Compiler`

The recursive descent keeps on the C stack what is left to do. The model keeps
it in `agenda`, the next task first. One step is the part of a parsing function
between two calls of others; it looks at the current token, moves the parser,
writes instructions and replaces the first task by those the function goes on
with. The name of an action is the name of the function, or of the stretch of
`statement()`, `block()`, `parsePrecedence()` or `functionDefinition()` it
models; section `map` of `PROJECT.json` has the lines.

`compile()` reports errors and always returns true, so the properties of
`Compiler` are about every sequence of tokens, not about programs only.
`WildRule`, `Overrun`, `WildName` and `Misencoded` are what the unchecked tables
and arrays do: `rules[]` has no entry for types, `func`, `return` and `:`; the
arrays of parameters have 256 entries and no check; a parameter may have no
name; 256 parameters are written as the byte 0. Not every turn of the two loops of a header
stores something: a token that is no type is only counted, so that `Overruns` is about what is stored and
`Overread` about what was counted and is then written. At a token that the lexer repeats nothing is stored
and nothing ends the loop: `CountOn` is `compile()` counting for ever.

`Language` is independent of the way the compiler works: a phrase is a text (a
sequence of tokens) and a code (a sequence of instructions), built bottom up
from its parts, with parentheses put in where the levels of the operators ask
for them. It contains no parser. `Translation!FollowsLanguage` says that on the
text of a program the compiler arrives at its code.

### 2.3 `VariableLookup`

The two arrays are functions from indices to entries; `malloc()` and `realloc()`
leave `Garbage` in what they add. `SetValue` and `AddName` are the two outcomes
of `lookup_add`, both with the doubling at its head, which happens even for a
name that is there already. `key`, `value` and `found` are the argument and the
results of the last lookup, so that the refinement says something of the
answers. `VariableMap` is the abstract specification; the refinement mapping is
`Table`, the function that the used entries spell.

### 2.4 `CommandLine`

The candidate is a buffer with a `Nul` character, as in C, because all that can
go wrong in it is about the place of the terminator. The remembered line and the
records of the history are only copied whole and are sequences. One step is one
turn of the loop in `grabInputLine()`: there is an action for each key that does
something (`Visible` for the printable ones), `OtherKey` for those that do not,
`Enter` for the end of the line with everything that follows the loop, `Again`
for the next call from `main()`, and `Hangup` for the terminal going away, after
which `read()` returns 0 and leaves `c` as it was.

The action properties are about the line as it was typed: `TypedLineIsKept`, that no key changes
the memory of it while the history is shown, and `TypedLineStays`, that as long as no history
is shown the line changes at the cursor only (`PageDown` apart, see below).

### 2.5 `Lexer` and `Writing`

A text is a string and a position counts characters; the position behind the last one is
that of the terminator, and a read behind that one ends in status `"wild"`. One step is one call of
`produceNextToken()`: `AfterComments` skips blanks once and then comments, one after the other, as the code does (a blank
behind a comment is skipped by the next call),
`Piece` the chain of tests that follows, with one action for each of its branches
(`EndOfText`, `Newline`, `String`, `Number`, `FixedWord`, `Identifier`, `Unexpected`).
`Otherwise` is the condition all branches before left open. `Fixed` is the table of
keywords and symbols in the order in which the code tries them, since a prefix
tried early wins. `eaten` remembers the characters that an identifier takes with it
(`lexer.c:169`). The operators were compared with the compiled lexer of the
repository on four hundred random texts, without a difference.

`Writing` spells lists of tokens with layout between them. What has to stand between two
tokens so that they come back (`Fits`) is a statement about the lexer:
a blank behind an identifier, a blank where two tokens would run together, a comment only in
front of words. Under it, `GivesWhatWasWritten` says that the lexer implements `TokenSource`.

### 2.6 `Interpreter` and `Semantics`

`Enter` is the assignment of a line in `main()` and the start of `compile()`, `Compile` one step of
`Compiler` (`C!Step`), `Load` the call of `run()` with the finished chunk (`Interpret`), `Run` one step of
`VirtualMachine` (`Execute`). The chunk of the compiler and that of the machine are different variables,
and nothing else is shared, as in the C code.

`Semantics` evaluates trees: scopes as a sequence of functions from names to values, statements
as functions on what was printed and bound. How scopes are searched is copied from the machine, so that its disagreement
with the manual (finding 1) does not show here but in `shadowing`; that a line comes to the same thing through tokens, a chunk, jumps and addresses is
what `RunsAsMeant` checks. It also says which lines fail: those that read a variable nobody
has set, and those that define and call a function after an earlier line has defined one (the scan of
`vm.declaredFunctions` then reads a chunk that was freed).

A session is typed either from complete programs or from broken lines (`Sessions`).
`MachineGetsPrograms` says that in the first case the machine runs the chunks of those programs and
no others, nothing of an earlier line in them; with `ChunksAssumption` checked for these
chunks, the theorems about the machine alone speak of it in such a session. `PromptIsClean` is about
both kinds: whatever a line was, if `interpret()` comes back the next one starts where a new session would,
but for the global variables and functions.

### 2.7 `ObjectFile`

A chunk is a sequence of bytes, 0 to 255. `order` is the byte order of the machine the process runs on,
and `transpose` is `transpose2Bytes` and `transpose8Bytes`: it reverses on a little-endian machine.
The actions are the compiler's (`EmitByte`, `EmitDouble`, `EmitString`, `EmitJump`, `Patch`,
`EmitLoop`, `EmitHeader`, and `TooFar` when a distance is more than `JumpMax`, at which the process exits), `Serialize` with the number of bytes that reach the file, `ListMemory` and
`ListFile` for `-d` and `-D`, and one action for each kind of instruction `disassembleChunk()` lists.
A file may come from another machine, be cut, or be no chunk at all (`Files`). A read outside of what was allocated is `"wild"`.

### 2.8 `ChunkMemory`

The two arrays, the size, the capacity and `vm.allocatedBytes`. `realloc()` leaves `Garbage` in
what it adds, and the process exits when there is no more (`Exhausted`). Jumps and loops are
written in one step each, three bytes with possibly a growth between them; a patch goes to an offset that was
remembered before the arrays moved. `freeChunk()` gives the locations back as so many
bytes, not so many locations, so `vm.allocatedBytes` drifts; `AllocatedCovers` says that it
drifts upwards only and never wraps below zero.

### 2.9 `ProgramInput`

One step is one comparison of `main()` with a word of the command line, so that the fixed order of the checks
(`-l`, `-c`, `-o`, `-d`, `-D`, `-s`, file) is in the model and an option out of order is what
the code makes of it. `Lexing`, `Compile`, `Read` and `Repl` are the modes that follow,
in their order, with a file that is missing. Listing a text with an error that the lexer cannot pass never
ends (section 5); the mode then stays where it is, for nothing makes it go on.

## 3. What is abstracted

* **Names and strings.** An identifier is a model string, a string literal a
  number. Every identifier takes `NameBytes` bytes in a chunk, where the code
  takes its length and a terminator; the width matters to the properties only as
  a distance, and the same constant is used by writer and reader.
* **Numbers.** A double is an integer that saturates at `MaxNumber`. Rounding,
  infinities and NaN are not modelled; a quotient or a remainder is any number.
* **Operand bytes** are counted in `Compiler` and `VirtualMachine`; `ObjectFile` has
  them one by one.
* **Layout.** `Compiler` reads sequences of tokens; `Writing` says which texts they stand for.
* **Columns** of locations are only printed and left out; lines are kept.
* **Text of errors, drawing, terminal modes** and the decoding of escape
  sequences are left out. A key arrives in one step.
* **Freed memory** that is read is a status of its own; the list of heap objects
  and the freeing of values are left out, since nothing else reads them.

The compiler's model was compared with the real program: a thousand random
sequences of tokens compiled by both gave the same instructions, except for the
width of names.

## 4. Runs

All bounds are constants of the `.cfg` files. Deadlock is checked in every run:
a specification that may stop has a `Rest` step that says when.

| Run | Instance | States | What it shows |
|---|---|---|---|
| `vm` | 14 programs, all pairs as two lines of the REPL and each as a script | 3 200 | `TypeOK`, `ScopesBalanced`, `StackBalanced`, `FreshScopes`, `PointersStayInChunk`, `CallsHoldScopes`, `OpenScopesKeepTheirNames`, `StraightCodeHalts` |
| `shadowing` | same | – | finding 1 |
| `compiler` | all sequences of up to 4 tokens of 13 kinds, 19 longer ones, and 2152 programs | 544 000 | `JumpsLand`, `ScopesClose`, `CallsFollowHeaders`, `OnlyErrorsExhaust`, `CompilationEnds`; of the programs `FollowsLanguage`, `ProgramsAreWellFormed` |
| `precedence` | expressions of two operators that the manual ranks differently | – | finding 3 |
| `lookup` | 5 names, 2 values, capacity up to 4 | 94 000 | `IInv`, `ImplementsMap` |
| `command_line` | 2 characters, buffers of 2 and then 4, history of 2 | 1 450 000 | `LineEndsInZeros`, `StringsFit`, `HistoryInOrder`, `TypedLineIsKept`, `TypedLineStays` |
| `insertion` | same | – | finding 2 |
| `lexer` | all texts of up to 4 characters of 11 kinds, 16 longer ones, and texts written from up to three tokens and longer lists in five layouts | 112 000 | `OnlyUnterminatedTextsOverread`, `TokensInOrder`, `Settles`, `GivesWhatWasWritten` |
| `session` | 16 programs in sessions of two lines, and each as a script; six in sessions of three; two lines of up to two tokens of 11 kinds, and parts of functions and conditions | 69 000 | `RunsAsMeant`, `MachineGetsPrograms`, `PromptIsClean`, `LineEnds` |
| `object_file` | up to 3 instructions, a text of 260 bytes, two byte orders, up to 14 bytes lost; all files of up to 5 bytes of 7 values, and longer ones | 367 000 | `TypeOK`, `ChunksArePortable`, `ListsWhatWasWritten`, `CutFilesListAPrefix`, `ListingEnds` |
| `chunk_memory` | 2 bytes, 2 locations, capacity 0, 1, 2, 4 | 8 800 | `AllocatedCovers`, `ImplementsLog` |
| `program_input` | all command lines of up to 4 words of 9, and all in order of up to 12 | 105 000 | `ModesHaveFiles`, `OrderedOptions`, `ArgumentsEnd` |

The type invariants of the arrays, of the editor, of chunks, of the compiler, of the lexer and of the
command line are proved (section 6) and not checked again; those of `VirtualMachine` and
`ObjectFile` are part of their runs too. In the other modules
the comments at the VARIABLES say what each holds.

### Why the bounds are enough

* `vm`. `StackMax = 4` is reached by `Deep` (four nested blocks) and by
  `Recursive`, so the full arrays are part of the run. The programs contain
  every instruction; branches taken and not taken; a loop that ends and
  variables that shadow; calls in blocks, in functions and with arguments of
  every kind; a function redefined, one declared in a branch that may not be
  taken, and recursion. `MaxLines = 2` is the least at which a line can meet what an
  earlier one left. `MaxNumber` and `MaxString` only make the values finite.
  `MaxOutput` bounds what is remembered of the output.
* `compiler`. Four tokens suffice to open and fail to close each construct and to
  put any token after any other inside; the longer sequences nest functions and loops,
  overflow the arrays of parameters (`ParamMax = 3` for 256), by what is stored and by what is only counted, and the jumps
  (`JumpMax = 86` for 32767), and make the lexer stand still at an error, also in a header. The two limits are just
  above what the programs need. `MaxCode = 1150`
  stands for the end of memory; it is room for four units a token (`RoomFor`, section 6) in every one of these sources that
  ends, which TLC evaluates as an assumption of the run. The programs have more tokens and no errors, and need less.
  `OnlyErrorsExhaust` says that no source that ends is given more than four units a token, programs included, and that
  whatever goes on to the end of memory cannot pass the end of its source.

  For the programs, `Language` gets the levels of the enumeration `Precedence`, so that this run is about the way one pass
  builds the tree of the levels, and not about which levels they should be; that is the question of `precedence`, where
  `Language` gets those of the manual. Two operators side by side decide associativity and precedence;
  all 196 pairs are there in both shapes and under prefix operators, and all triples with one operator of
  each level. Statements are nested three deep with every compound statement in each position.
* `lookup`. From 2 entries to 4 there is one doubling, and the fifth name asks
  for one that fails.
* `command_line`. A buffer of two characters is widened by the second one typed and
  the widening to eight fails. With two characters lines can differ, be equal and be in
  order, and a history of two has a first, a last, and one that is dropped.
* `lexer`. The 11 characters are one of each class the code distinguishes, with both
  characters of `//` and `==`, and a symbol that is a token by itself. In four, a comment, a quotation mark
  or a word can stand before, behind and inside of each other; the longer texts are
  lines of real programs and the places where comments, strings and ends of lines meet. Of the
  texts that are written, two tokens side by side decide whether they run together; triples
  of nine kinds show that nothing carries over from one to the next.
* `session`. Three lines of the programs that leave a variable or a function behind, or need one, have
  one before and one after each. `StackMax`, `MaxNumber`, `MaxString` and `MaxOutput` are above what the programs need,
  so that no result is cut off. The programs have loops, branches, blocks, functions with
  arguments, and functions that use variables of earlier lines.
  Of the broken lines, two tokens reach every error message of a statement, and the longer parts leave a
  function, a block or a branch open. The second line meets what the first left.
* `object_file`. A number whose eight bytes are all different, with a zero among them, shows a wrong
  order and a text found in a number; a text of 260 bytes makes a distance of two bytes that differ, and two of them one that is too long
  (`JumpMax = 300` for 32767).
  Fourteen lost bytes are more than any short instruction has, so that every field is cut. Of
  the files that are no chunks, five bytes reach each field of a header; the longer ones have a count of
  names with fewer names behind it.
* `chunk_memory`. Growth by doubling from 1 falls at every place inside an instruction of three
  bytes. `LocationSize = 2` is enough to tell locations from bytes.
* `program_input`. Four words are an option, its file and one of each before or behind it.
  The lines of twelve words are all subsets of the options in the order of the checks, with either file.

### Fairness

* `VirtualMachine`: `WF_vars(Execute)`. `run()` is a loop with nothing to wait
  for. `Spin` is no part of it and changes nothing: `Execute` is not enabled there, and a behaviour stays for ever. Whether `interpret()` is called again is up to the user and gets no fairness.
* `Compiler`: `WF_vars(Step)`, for the same reason; `CountOn` is to it what `Spin` is to `Execute`.
* `Lexer`: `WF_vars(produceNextToken)`; `Writing` the same for its own steps. The compiler asks for tokens until it has
  `TK_EOF` or is in one place for ever.
* `Interpreter`: `WF_vars(Compile \/ Load)` and `WF_vars(Run)`, the loops of `Compiler` and
  `VirtualMachine`. `Hang` is `CountOn` and `Spin` together. Whether another line is entered gets no fairness.
* `ObjectFile`: `WF_vars(Disassemble)`, the loop of `disassembleChunk()`.
* `ProgramInput`: `WF_vars(Arguments)`, the loop over the command line.
* `CommandLine`: none; an open terminal may stay silent for ever.
* `VariableLookup`, `ChunkMemory`: none; a data structure need not be used.

`StraightCodeHalts`, `CompilationEnds` and `LineEnds` rest on the first two, and each names the loops that do not end:
the lookup of an unset variable at the top level (`Spinning`), and a function header at the end of the
source or at an error the lexer cannot pass (`Counting`). That nothing else goes on for ever is what they say.
`CompilationEnds` would not hold without the end of memory: at an error the lexer cannot pass the
statements and expressions of the compiler go on and stop only when `reallocate()` fails, which is what
`OnlyErrorsExhaust` says the other way round.

## 5. Findings

Three are runs with the violation of one property that states what the repository says:

1. **Shadowing** (`shadowing`; `virtualmachine.c:205`, `docs/brash-manual.tex:78-79`):
   `OP_SET_VARIABLE` prefers an enclosing variable, so the value of a variable
   declared in a block goes to an enclosing one of the same name, and the new one never has one.
2. **Insertion** (`insertion`; `scline.c:145`, comment at 144): a character typed inside a line
   overwrites the one under the cursor, and what follows moves on by one.
3. **Precedence** (`precedence`; `compiler.c:180`, `docs/brash-manual.tex:129-161`): the logical
   operators bind less tightly than comparisons, and among themselves in three levels; the manual's table has them
   in one group above the comparisons. `print 1 != x || true` is compiled as `(1 != x) || true`.

Other places where the code does not do what a document or a comment says are modelled as they
are, so that every property above holds of the code as it is. They have no run of their own:

* **Last line** (`compiler.c:583`, `docs/brash-syntax:10-12`): a block that ends with an
  assignment or an expression and an empty line takes its closing brace for an
  expression, and goes on behind it. `Language` has no such blocks.
* **Full line** (`scline.c:131`, comment at 135): typed inside a full line, a
  character pushes the last one over the terminator (`Unterminated`).
* **Hangup** (`scline.c:328`, comment at 329): the end of input does not end the
  line; the last character is handled again for ever (`Hangup`).
* **Comments** (`lexer.c:66`, `docs/brash-manual.tex:67`): a number, string or identifier behind a
  comment begins with the comment; a number is then 0 (`Content`; `Fits` keeps such texts out of `GivesWhatWasWritten`).
* **Lost characters** (`lexer.c:169`, `docs/brash-manual.tex:92`): the character behind an identifier is passed
  over, brackets and operators too (`Identifier`).
* **Functions of earlier lines** (`compiler.c:73`, comment at 590): the compiler forgets the
  functions at the end of a line, the machine does not: a call at the prompt is compiled as an assignment.
* **Header** (`compiler.c:466`, `docs/brash-manual.tex:224-228`): all types and then all names, where the
  manual says type and name for each parameter (`EmitHeader`). Writer and disassembler agree with each other, which is
  what `ListsWhatWasWritten` is about; no run holds the layout against the manual.
* **Calls with several arguments** (`virtualmachine.c:161-164`, TODO at 159): `run()` reads one value instruction behind
  the other, one for each parameter, but the compiler ends the first argument as a statement, with `OP_POP`.
  `interpretValue()` is then given `OP_POP`, or an operator, for a value and pushes nothing (`MissingArgument`). `Language` has calls with at most
  one argument.
* **Tokenization tests** (`main.c:72`, `tests/run_tests.sh:39-41`): `"-s -l"` is passed as one word, which is no option, so
  that the tests run the programs and list no token.

Insertion and the full line were reproduced with the functions of `scline.c` themselves, the others,
the hangup excepted, with the program.

Met while modelling, but without a statement in the
repository to check them against: a file that is missing or an option without its file is
read through a null pointer (`ProgramInput`, status `"wild"`); a text that ends in a comment or an
identifier is read past the terminator (`OnlyUnterminatedTextsOverread` says that nothing else is); a mixed `OP_ADD` pushes nothing (`AddMixed`); a
function of an earlier line is scanned after its chunk is freed
(`DanglingFunction`); PAGE_UP without history copies from a null pointer
(`PageUpNothing`); a variable nobody has set, looked up at the top level, is reported without end (`Spin`); a function header
that the source does not close is counted without end (`CountOn`); the lexing mode (`main.c:90`) waits for `TK_EOF` behind
an error that is repeated without end (`Settles` promises one or the other); of several modes on one command line one is carried
out, on the file named last, and the others are dropped (`OrderedOptions`); PAGE_DOWN replaces what was typed by a memory that may be older (`PageDown`).

## 6. Theorems

All are proved for every value of the constants that satisfies the assumptions of the modules.

### `Interpreter_proofs`: the machine

From `ChunksAssumption` (chunks are typed and well formed), `ModesAssumption` and
`BoundsAssumption`, as theorems of `Spec`, the machine by itself:

| Theorem | Property |
|---|---|
| `TypeCorrect` | `TypeOK` |
| `ScopesStayBalanced` | `ScopesBalanced` |
| `StackStaysBalanced` | `StackBalanced` |
| `ScopesStartFresh` | `FreshScopes` |
| `PointersStayInside` | `PointersStayInChunk`: `ip`, resume addresses, and the functions the running chunk declared |
| `OpenScopesKeepNames` | `OpenScopesKeepTheirNames` |
| `EveryCallHoldsAScope` | `CallsHoldScopes` |

None of these is inductive. The invariant has two layers, because two kinds of chunks
are run. The first, `Sound`, is enough for everything but the exact stack and asks only that chunks are `Deliverable`:

* `Placed`: control is at an instruction, the scope counter is the base of the call plus the static
  level of the instruction, and the stack has no more values than there is room for (`Room`, some bound
  that fits the chunk at every offset);
* `FramesPlaced`: each resume address is an instruction, and the bases
  of neighbouring calls differ by the static level of the call;
* `FunctionsDeclared`: a function of the running chunk was declared by one of its headers; `FunctionsDated` says that no
  function is of a line to come, so that a line starts with none of its own;
* `Quiet`: between two lines no scope is open and the stacks are empty;
* `FreshScopes`, `TypeOK`, and that the exit at the top scope is never taken.

The bound on the stack is what makes `Quiet` inductive: it is zero at `OP_RETURN`, so that a run that ends leaves
nothing, and zero at calls, so that a callee starts and ends with nothing of its own. A broken line may have
fewer values than that and underflow, which ends the process, but never more.

The second layer, `Exact`, is for well-formed chunks: the stack holds just what the code says, one value less after a
mixed addition, and nothing where a call resumes; and `StopsExplained`: an underflow has a mixed
addition behind it, and a script never meets a freed function. `Sound` and `Exact` give the `IInv` of `VirtualMachine`.

There is a lemma for each action (`...Step`); `InterpretStep` and `ExecuteSound` are about any chunk that is
`Deliverable`, `NextSound` and `NextExact` put the steps together.
`LocalFacts`, `FallThrough`, `JumpLands` and `FunctionEntry` turn the conditions on the chunk into what one
instruction may rely on. `OpenScopesKeepNames` needs `FreshScopes`: opening a
scope takes nothing away, because there is nothing in it but the arguments of the call.

`EveryCallHoldsAScope` needs more than levels and depths: a body could close its scope and
call from there. `StaysInBody`, part of `Deliverable`, says that there are calls only in the
scope a body opens and that control stays in its body; `CallsNested` then keeps that all resume
addresses but the first are inside of bodies, and that each call starts a level above the
one before.

### `Interpreter_proofs`: sessions

From `LinesAssumption` (a line is tokens up to one that the lexer repeats), `SessionAssumption`, `ModesAssumption` and
`BoundsAssumption`, for sessions of any lines, as theorems of `SessionSpec`:

| Theorem | Property |
|---|---|
| `EveryPromptIsClean` | `PromptIsClean` |
| `SessionsStaySafe` | `PointersStayInChunk`, `ScopesBalanced`, `FreshScopes`, `CallsHoldScopes` |
| `SessionsKeepNames` | `OpenScopesKeepTheirNames` |

These are about compiler and machine together, and neither has them alone: the machine trusts its chunk, and what
is in the chunk of a broken line is decided by the error paths of the parser. The invariant `SessionInv` is `Sound` of the machine and,
while a line is compiled, the invariants of `Compiler_proofs` (`Kept`). `DoneDelivers` is the step between them: a finished chunk
is what `InterpretStep` asks for.

`Interpreter` has the compiler as an instance, `C`, and the proofs about it are those of another instance, `CP`, of
`Compiler_proofs`, with the same substitution. To the prover these are different operators, so that it has to be shown that they are the
same: `SameCompiler` for the steps, one by one, `SameStart` for the first state, `SameLayout`, `SameInstructions` and
`SameChunk` for the contract of `Bytecode`, which `VirtualMachine` has under its own names, and `SameAssumptions`.

### `VariableLookup_proofs`

From `ZeroAssumption`, `GarbageAssumption` and `CapacityAssumption`: `Invariant` (`IInv`, which is `TypeOK /\ NamesAreUnique`
and inductive), from it `ArraysStayInStep` (`TypeOK`) and `NamesStayUnique` (`NamesAreUnique`), and
`LookupImplementsMap` (`ImplementsMap`, the abstract specification `VariableMap!Spec`). That the names are unique is what the refinement needs: only then is the
first entry of a name its only one, and the function well defined. `SetValueMaps`,
`AddNameMaps`, `QueryMaps` and `RenewMaps` show that each step maps to a step, or to a stutter
for the failure of `realloc()`.

### `ChunkMemory_proofs`

From the four assumptions of the module, for any smallest capacity, size of a location and end of memory:
`ArraysGrowTogether` (`TypeOK`), `AllocatedNeverWraps` (`AllocatedCovers`) and
`ChunkImplementsLog` (`ImplementsLog`, the abstract specification `CodeLog`). `TypeOK` is
inductive and says more than types: what lies below `size` was written. `Log` takes the
first `size` entries of the two arrays; growing does not change it (`LogWrite`), and a patch
changes the two entries it means although the arrays may have moved (`LogPatch`, `LogLoop`).

### `CommandLine_proofs`

From the assumptions on characters, history and capacities: `EditorTypes` (`TypeOK`), `LinesEndInZeros`
(`LineEndsInZeros`), `CopiesFit` (`StringsFit`) and `HistoryStaysInOrder` (`HistoryInOrder`).
The invariant is `LineShaped /\ TypeOK /\ StringsFit /\ HistoryInOrder`. `LineEndsInZeros` is
about the first terminator, which an insertion may move or destroy; `LineShaped` instead says that there is a
number such that the characters before it are none of them terminators, all behind it are, and the cursor is not
beyond it. It holds for a full line too, which has no terminator. The lemmas
`InsertedShaped`, `RemovedShaped` and `WrittenShaped` show what the loops of the editor make
of such a buffer. `Kept` is what the history, the memory and the capacity owe to each other.

`TypedLineSurvivesHistory` (`TypedLineIsKept`) and `TypedLineStaysBeforeCursor` (`TypedLineStays`) are about steps and
follow from the same invariant. The second compares the buffer before and behind each key up to the cursor;
`VisibleStays`, `BackspaceStays` and `DeleteStays` say it of the keys that write into the buffer.

### `Compiler_proofs`

From `SourcesAssumption` (a source is tokens up to one that the lexer repeats), `NamesAssumption` and
`LimitsAssumption`, for any set of sources, any number of syntax errors in them, and any width of names:

| Theorem | Property |
|---|---|
| `JumpsAlwaysLand` | `JumpsLand` |
| `CallsAlwaysFollowHeaders` | `CallsFollowHeaders` |
| `ScopesAlwaysClose` | `ScopesClose` |
| `BodiesAreKept` | no jump leads into a body or out of one |
| `ChunksAreDeliverable` | a finished chunk is `Deliverable`, which `Interpreter_proofs` builds on |
| `ChunksAreLinear` | `Proportionate`, the part of `OnlyErrorsExhaust` that needs no assumption on the memory: the chunk of a source that ends is at most four units for each token |
| `OnlyErrorsExhaustMemory` | `OnlyErrorsExhaust`, where the memory holds four units a token (`SourcesFit`) |

The compiler keeps no record of the scopes and bodies it is in, so nothing in its state says that
what it opens will be closed. The invariant `IInv` says that there are two functions that do:

* `place` gives each offset of the chunk the number of scopes that are open there and the header of the
  innermost body around it. `Sound` relates it to the instructions: the level is what was entered
  and not left in the same body (`Counted`), the owner is the innermost body that contains the offset
  (`Owned`), and each instruction passes control only to places that agree with its own (`Flows`);
* `plan` gives each task of the agenda the place at which it will begin, whatever the tasks before it write.
  `Planned` says that a task may begin there (`Fits`), that the next one's place follows from
  it (`After`), and that every body that is begun has the task that ends it.

`Paired` matches the distances that are still blank with the tasks that will patch them, one to one;
`Registered` and `Finished` are about the names that count as functions and about the end. `WriteSound` and `PatchSound` extend or
repair `place`, `Replace` builds the plan when a function replaces its task by those it goes on with, and every
action has its `...Keeps` lemma. `IInvSafe` reads the first four theorems off at the end, when the agenda is empty.

`ChunksAreDeliverable` also bounds the values on the stack, and for those there is a third function to find: `depth` gives each offset the
number of values that can be on the stack there. It is a bound and not a count, because an expression that fails writes nothing where its
value should be; the code after it is then one value short, and nothing in the chunk says so. `Raised` says that every instruction keeps to it,
`Heights` that each task of the agenda may begin with a number of values and leaves one for the next, and `Lifted` that the two meet at the
end of the chunk. A task may find fewer values than its height and not more; that is what survives every error path. Each action has
its `...Lifts` or `...Lift` lemma.

The last two theorems are about how much is written. A unit is the width of the longest instruction but a header, and a header has one more
for each name and type. The size of the chunk alone says nothing about the future, so the invariant `Affordable` keeps an account (`Paid`):
every token the parser has yet to pass pays four units (`Left`), every task has a `Price`, namely the units it writes and the prices of the tasks
it goes on with without passing a token, and what is written, what the agenda `Owes` and what the tokens left will pay never exceed the four units a token
of the whole source. Two details make it inductive. A statement or an expression is begun before its first token is passed and may be paid with
that token (`Credit`); no other task can borrow. At the end of the source nothing pays any more, and what is still to be closed there has been paid for: a
failed expression, an unclosed block or condition is then finished by tasks whose price is already owed. Only the loops over parameters and return types go on at the
end (`Endless`), for ever, and they write nothing. Each group of actions has its `...Pays` lemma; `StepSpares` concludes that
a chunk larger than `MaxCode` belongs to a source whose last token is an error.

### `Lexer_proofs`

From `TextsAssumption`, `CharactersAssumption` and `WordsAssumption`, which say of strings what the prover does not know
(a text has a length, no character in it is a terminator, keywords are not empty; TLC evaluates them): `NewlinesProtect`
(`OnlyUnterminatedTextsOverread`) and `TokensFollowTheText` (`TokensInOrder`). The invariant is
`Placed /\ AtRest /\ OnlyUnterminatedTextsOverread`: the lexer is never further than one character behind the terminator,
and there only because the last character was that of an identifier; and when it has told the end, it stands there. For
each branch there is a lemma on where it leaves the lexer (`...Advances`).

### `ProgramInput_proofs`

From `NamesAssumption`, `CommandLinesAssumption` and `ChoicesAssumption`: `ModesAlwaysHaveFiles` (`ModesHaveFiles`) and
`OptionsAreUnderstood` (`OrderedOptions`). The second is about all command lines in the order of the checks: the modes that are
set, the object file and the silence are those the line names, one mode alone is carried out with its own file, and of several
nothing is done that was not asked for. It does not say that all of them are done, because they are not. Its
invariant `Ordered` says that before the k-th check the arguments that are left are exactly the words that the checks from
k on will find (`From`), and that what was noted is what the checks before it found (`Expects`); at the end what was done is
`Asked`, main()'s own order spelled out, which stays inside the proof. `OneThing` and `DoneWasNamed` draw from it what the property says.

### `ObjectFile_proofs`

From `BytesAssumption`, `HeadersAssumption` and `JumpMaxAssumption` (`JumpMax` fits in two bytes), for chunks, texts and
files of any length, and files without any number of their last bytes:

| Theorem | Property |
|---|---|
| `TypeCorrect` | `TypeOK` |
| `ChunksAlwaysPortable` | `ChunksArePortable` |
| `WholeChunksAreListed` | `ListsWhatWasWritten` |
| `CutFilesAreListedTruly` | `CutFilesListAPrefix` |

The invariant `IInv` has two halves. For the compiler, `Laid`: the bytes of each instruction that was written lie at its offset,
the next one begins behind them, and only jumps and headers wait for a distance. `LaidGrow` and `LaidPatch` show that an
instruction more, and the two bytes of a distance, leave it so; `LaidIs` turns it into the equation of `ChunksArePortable`.
For the disassembler, `Agrees`: what is listed is what was written, and the disassembler is where the next
instruction begins; or the last entry is of an instruction that the file has only a part of, and the disassembler and the
end of that instruction are both behind the file.

The second alternative is what makes one argument do for whole and for cut files. Each reading lemma (`NumberRead`,
`TextRead`, `JumpRead`, `HeaderRead`) has the same form: at an instruction of the compiler, the disassembler goes on to its end, or
both are behind the end of the file; and if the instruction is whole, the entry is the instruction. A text is looked for in
the file and in the chunk at once (`FoundInBoth`): up to the end of the file they are equal, so a terminator is found at the
same place in both or in neither. That a text is never read past the end of any file (`WildKeeps`) rests on the zero that
`readFile()` adds (`ZeroEnds`), and for a chunk in memory on the terminators the compiler wrote.

### Only model-checked

* liveness (`StraightCodeHalts`, `CompilationEnds`, `Settles`, `LineEnds`, `ListingEnds`,
  `ArgumentsEnd`, the fairness in `GivesWhatWasWritten`): beyond the prover;
* `FollowsLanguage`, `ProgramsAreWellFormed`, `RunsAsMeant`, `MachineGetsPrograms`: `Language` and
  `Semantics` use recursive operators, and the statements are about all programs by induction on phrases;
* `GivesWhatWasWritten`: its texts are put together from strings, character by character, of which the prover knows nothing.

## 7. Not modelled

* `debugging.c` and the printing functions of `value.c`: output only.
* Freeing of strings at the end of a run, which nothing reads afterwards.
* Escape sequences, drawing and the modes of the terminal in `scline.c`; a key is one step.
* The columns of locations, and `isAssignmentStatement()`, which is never called.
* Reading and writing of files byte by byte: a file is there or not, and may be cut at its end.
* The tests, the manual and the tools were read as references.

## 8. Plan

Done, in this order: `Bytecode` and `VirtualMachine` with proofs, `Compiler`,
`Language` and `Translation`, `VariableLookup` with its refinement and proofs, `CommandLine`;
then `Lexer` and `Writing`, `Interpreter` and `Semantics`, `ObjectFile`, `ChunkMemory` with its refinement
and proofs, `ProgramInput`, the proofs about `CommandLine`, and `CallsHoldScopes`; then the proofs about `Compiler`,
`Lexer`, `ProgramInput` and `ObjectFile`, and of the action properties of `CommandLine`; then
`ChunksAreDeliverable`, the machine on the chunks of broken lines, and the two composed in `EveryPromptIsClean`;
and `OnlyErrorsExhaust` for a memory that grows with the source; then `precedence`, the hangs as states of their own, and the tokens and the programs in one run.

Next:

1. A bound on the C stack: how many tasks the agenda can hold for a source of a given length.
