--------------------------- MODULE VirtualMachine ---------------------------
(***************************************************************************)
(* The stack machine of virtualmachine.c: interpret() loads a compiled     *)
(* chunk, run() executes it one instruction at a time.  One step is one    *)
(* turn of run()'s loop, the operand reads included.                       *)
(*                                                                         *)
(* The arrays of the VM struct are unchecked.  A step that would read or   *)
(* write outside them, or follow a pointer that is not one, ends in an     *)
(* absorbing status named after what went wrong: C promises nothing from   *)
(* there on.  The one instruction run() may never leave turns for ever in  *)
(* a state that is still running: see Spin.                                *)
(***************************************************************************)
EXTENDS Bytecode

CONSTANTS
  Chunks,      \* the chunks compile() may hand over
  Names,       \* the identifiers in them
  Modes,       \* subset of {"VM_MODE_STATIC", "VM_MODE_INTERACTIVE"}
  StackMax,    \* STACK_MAX: value stack, variable tables and call stack alike
  MaxLines,    \* bound: how often interpret() is called
  MaxNumber,   \* bound: numbers saturate at this magnitude
  MaxString,   \* bound: strings are cut at this length
  MaxOutput    \* bound: printed values remembered

TypedChunk(c) ==
  /\ c.size \in Nat
  /\ Starts(c) \subseteq 0 .. c.size - 1
  /\ c.code \in [Starts(c) -> Instruction(Names)]

ASSUME ChunksAssumption == \A c \in Chunks : TypedChunk(c) /\ WellFormed(c)
ASSUME ModesAssumption == Modes \subseteq {"VM_MODE_STATIC", "VM_MODE_INTERACTIVE"}
ASSUME BoundsAssumption ==
  /\ StackMax \in Nat \ {0}
  /\ MaxLines \in Nat
  /\ MaxNumber \in Nat \ {0}
  /\ MaxString \in Nat \ {0}
  /\ MaxOutput \in Nat

VARIABLES
  mode,        \* vm.mode
  chunk,       \* *vm.chunk
  ip,          \* vm.ip, as an offset into the chunk
  stack,       \* vm.stack up to vm.stackTop
  tables,      \* vm.variableTables
  scopeLevel,  \* vm.scopeLevel
  functions,   \* vm.declaredFunctions
  callStack,   \* vm.callStack: the addresses to resume at
  status,      \* where the control is: see Status
  output,      \* what was printed, oldest first
  lines,       \* calls of interpret() so far
  bases,       \* history: the scope level each active call was made at
  mixed        \* history: OP_ADD met operands it has no case for

vars == <<mode, chunk, ip, stack, tables, scopeLevel, functions, callStack,
          status, output, lines, bases, mixed>>

-----------------------------------------------------------------------------
(* Values *)

Wild == 1   \* the "as" of an object value whose pointer bytes were overwritten

(***************************************************************************)
(* value.h: a tag and a union.  A boolean is 0 or 1, a number an integer   *)
(* that stands for a double, an object's characters are a sequence.        *)
(***************************************************************************)
Numbers == -MaxNumber .. MaxNumber
Value == [type : {"VAL_NOT_VALUE", "VAL_BOOLEAN", "VAL_NUMBER", "VAL_OBJECT"},
          as : Numbers, chars : Seq(Nat)]

Clamp(n) == IF n > MaxNumber THEN MaxNumber ELSE IF n < -MaxNumber THEN -MaxNumber ELSE n

NotValue == [type |-> "VAL_NOT_VALUE", as |-> 0, chars |-> <<>>]
Boolean(b) == [type |-> "VAL_BOOLEAN", as |-> IF b THEN 1 ELSE 0, chars |-> <<>>]
Number(n) == [type |-> "VAL_NUMBER", as |-> Clamp(n), chars |-> <<>>]
String(s) ==
  [type |-> "VAL_OBJECT", as |-> 0,
   chars |-> SubSeq(s, 1, IF Len(s) > MaxString THEN MaxString ELSE Len(s))]

IsNumber(v) == v.type = "VAL_NUMBER"
IsObject(v) == v.type = "VAL_OBJECT"
IsWild(v) == IsObject(v) /\ v.as = Wild

\* Reading the union under another tag: a zeroed union reads as zero and false,
\* a boolean read as a number keeps seven unspecified bytes, a number or a
\* pointer read as a boolean is its lowest byte.
AsNumber(v) ==
  IF IsNumber(v) \/ (v.type = "VAL_NOT_VALUE" /\ v.as = 0) THEN {v.as} ELSE Numbers
AsBoolean(v) ==
  IF v.type \in {"VAL_BOOLEAN", "VAL_NOT_VALUE"} THEN {v.as # 0} ELSE BOOLEAN

\* value.c: valueEquality
valueEquality(a, b) ==
  /\ a.type = b.type
  /\ a.type # "VAL_NOT_VALUE"
  /\ IF IsObject(a) THEN a.chars = b.chars ELSE a.as = b.as

-----------------------------------------------------------------------------
(* Where the machine is *)

Faults == {"exit",                \* exit(EXIT_FAILURE) at the top scope
           "underflow",           \* pop() below vm.stack
           "overflow",            \* a STACK_MAX array is full
           "no_such_function",    \* the scan of declaredFunctions runs off its end
           "dangling_function",   \* it reads a function of a freed chunk
           "undefined_wild",      \* lookup of an unknown name in a nested scope
           "wild_pointer"}        \* an object pointer that was overwritten

Status == {"idle", "running", "ok"} \cup Faults

Running == status = "running"

Here == chunk.code[ip]
At(ops) == Running /\ ip \in Starts(chunk) /\ Here.op \in ops
NextIp == ip + Width(Here)

Top == stack[Len(stack)]
Second == stack[Len(stack) - 1]
Drop(k) == SubSeq(stack, 1, Len(stack) - k)
Operands == Len(stack) >= Needs(Here)

Fault(f) ==
  /\ status' = f
  /\ UNCHANGED <<mode, chunk, ip, stack, tables, scopeLevel, functions, callStack,
                 output, lines, bases, mixed>>

\* What the terminal shows; MaxOutput bounds what the model remembers of it.
Show(v) == output' = IF Len(output) < MaxOutput THEN Append(output, v) ELSE output

-----------------------------------------------------------------------------
(* Variable lookup through the scopes *)

EmptyTable == [n \in {} |-> NotValue]
Has(level, name) == name \in DOMAIN tables[level]
Highest(S) == CHOOSE l \in S : \A k \in S : k <= l

\* lookup_add on a table
Bind(table, name, value) ==
  [n \in DOMAIN table \cup {name} |-> IF n = name THEN value ELSE table[n]]

\* OP_GET_VARIABLE looks from the current scope outwards.
Visible(name) == {l \in 0 .. scopeLevel : Has(l, name)}

\* Mutant: a name no enclosing scope knows goes to the outermost one.
AssignedLevel_TopLevel(name) ==
  LET outer == {l \in 0 .. scopeLevel - 1 : Has(l, name)}
  IN  IF outer = {} THEN 0 ELSE Highest(outer)

\* Mutant: the enclosing scopes are not asked.
AssignedLevel_Current(name) == scopeLevel

\* OP_SET_VARIABLE looks at the enclosing scopes first, innermost first, and
\* falls back on the current one.
AssignedLevel(name) ==
  LET outer == {l \in 0 .. scopeLevel - 1 : Has(l, name)}
  IN  IF outer = {} THEN scopeLevel ELSE Highest(outer)

\* What interpretValue() makes of a value instruction.
ValueOf(i) ==
  CASE i.op = "OP_NUMBER"       -> Number(i.n)
    [] i.op = "OP_TRUE"         -> Boolean(TRUE)
    [] i.op = "OP_FALSE"        -> Boolean(FALSE)
    [] i.op = "OP_STRING"       -> String(<<i.n>>)
    [] i.op = "OP_GET_VARIABLE" -> tables[Highest(Visible(i.name))][i.name]

Undefined(i) == i.op = "OP_GET_VARIABLE" /\ Visible(i.name) = {}

-----------------------------------------------------------------------------
(* interpret() and initVM() *)

Init ==
  /\ mode \in Modes
  /\ chunk = [code |-> [o \in {} |-> Simple("OP_RETURN")], size |-> 0]
  /\ ip = 0
  /\ stack = <<>>
  /\ tables = [l \in 0 .. StackMax - 1 |-> EmptyTable]
  /\ scopeLevel = 0
  /\ functions = <<>>
  /\ callStack = <<>>
  /\ status = "idle"
  /\ output = <<>>
  /\ lines = 0
  /\ bases = <<0>>
  /\ mixed = FALSE

\* compile() and typecheck() always succeed; a script is one call, the REPL one
\* call for each line.  Nothing but the chunk and ip is reset between calls.
Interpret(c) ==
  /\ status \in {"idle", "ok"}
  /\ lines < MaxLines
  /\ mode = "VM_MODE_STATIC" => lines = 0
  /\ chunk' = c
  /\ ip' = 0
  /\ status' = "running"
  /\ lines' = lines + 1
  /\ UNCHANGED <<mode, stack, tables, scopeLevel, functions, callStack, output,
                 bases, mixed>>

-----------------------------------------------------------------------------
(* Values and operators *)

PushValue ==
  /\ At(ValueOps)
  /\ ~Undefined(Here)
  /\ Len(stack) < StackMax
  /\ stack' = Append(stack, ValueOf(Here))
  /\ ip' = NextIp
  /\ UNCHANGED <<mode, chunk, tables, scopeLevel, functions, callStack, status,
                 output, lines, bases, mixed>>

\* The pointers an instruction follows.
WildRead ==
  CASE Here.op = "OP_PRINT" -> IsWild(Top)
    [] Here.op = "OP_POP"   -> mode = "VM_MODE_INTERACTIVE" /\ IsWild(Top)
    [] Here.op = "OP_ADD"   -> IsObject(Second) /\ (IsWild(Second) \/ IsWild(Top))
    [] Here.op = "OP_EQUALS" ->
         IsObject(Second) /\ IsObject(Top) /\ (IsWild(Second) \/ IsWild(Top))
    [] OTHER -> FALSE

\* OP_NEGATE and OP_NOT write into the union and leave the tag alone.
UnaryResult(op, v) ==
  CASE IsObject(v) -> [v EXCEPT !.as = Wild]
    [] IsNumber(v) -> IF op = "OP_NEGATE" THEN Number(-v.as) ELSE v
    [] v.type \in {"VAL_BOOLEAN", "VAL_NOT_VALUE"} ->
         IF op = "OP_NOT" THEN [v EXCEPT !.as = IF @ = 0 THEN 1 ELSE 0] ELSE v

\* Mutant: the operands come off the stack the wrong way round.
OfNumbers_Swapped(op, x, y) ==
  CASE op = "OP_SUBTRACT" -> Number(y - x)
    [] op = "OP_MULTIPLY" -> Number(x * y)
    [] op = "OP_GREATER"  -> Boolean(y > x)
    [] op = "OP_LESSER"   -> Boolean(y < x)

OfNumbers(op, x, y) ==
  CASE op = "OP_SUBTRACT" -> Number(x - y)
    [] op = "OP_MULTIPLY" -> Number(x * y)
    [] op = "OP_GREATER"  -> Boolean(x > y)
    [] op = "OP_LESSER"   -> Boolean(x < y)

OfBooleans(op, x, y) ==
  CASE op = "OP_AND" -> Boolean(x /\ y)
    [] op = "OP_OR"  -> Boolean(x \/ y)
    [] op = "OP_XOR" -> Boolean(x # y)

BinaryResults(op, a, b) ==
  CASE op = "OP_ADD" -> {IF IsNumber(a) THEN Number(a.as + b.as) ELSE String(a.chars \o b.chars)}
    [] op \in {"OP_DIVIDE", "OP_MODULO"} -> {Number(n) : n \in Numbers}
    [] op = "OP_EQUALS" -> {Boolean(valueEquality(a, b))}
    [] op \in {"OP_SUBTRACT", "OP_MULTIPLY", "OP_GREATER", "OP_LESSER"} ->
         {OfNumbers(op, x, y) : x \in AsNumber(a), y \in AsNumber(b)}
    [] op \in {"OP_AND", "OP_OR", "OP_XOR"} ->
         {OfBooleans(op, x, y) : x \in AsBoolean(a), y \in AsBoolean(b)}

UnaryOp ==
  /\ At(UnaryOps)
  /\ Operands
  /\ stack' = Append(Drop(1), UnaryResult(Here.op, Top))
  /\ ip' = NextIp
  /\ UNCHANGED <<mode, chunk, tables, scopeLevel, functions, callStack, status,
                 output, lines, bases, mixed>>

Addable(a, b) == (IsNumber(a) /\ IsNumber(b)) \/ (IsObject(a) /\ IsObject(b))

BinaryOp ==
  /\ At(BinaryOps)
  /\ Operands
  /\ ~WildRead
  /\ Here.op = "OP_ADD" => Addable(Second, Top)
  /\ \E v \in BinaryResults(Here.op, Second, Top) : stack' = Append(Drop(2), v)
  /\ ip' = NextIp
  /\ UNCHANGED <<mode, chunk, tables, scopeLevel, functions, callStack, status,
                 output, lines, bases, mixed>>

\* OP_ADD pops its operands first, and has no branch for anything but two
\* numbers or two strings: it then pushes nothing.
AddMixed ==
  /\ At({"OP_ADD"})
  /\ Operands
  /\ ~WildRead
  /\ ~Addable(Second, Top)
  /\ stack' = Drop(2)
  /\ mixed' = TRUE
  /\ ip' = NextIp
  /\ UNCHANGED <<mode, chunk, tables, scopeLevel, functions, callStack, status,
                 output, lines, bases>>

PopValue ==
  /\ At({"OP_POP"})
  /\ Operands
  /\ ~WildRead
  /\ stack' = Drop(1)
  /\ IF mode = "VM_MODE_INTERACTIVE" /\ Top.type # "VAL_NOT_VALUE"
       THEN Show(Top)
       ELSE UNCHANGED output
  /\ ip' = NextIp
  /\ UNCHANGED <<mode, chunk, tables, scopeLevel, functions, callStack, status,
                 lines, bases, mixed>>

PrintValue ==
  /\ At({"OP_PRINT"})
  /\ Operands
  /\ ~WildRead
  /\ stack' = Drop(1)
  /\ Show(Top)
  /\ ip' = NextIp
  /\ UNCHANGED <<mode, chunk, tables, scopeLevel, functions, callStack, status,
                 lines, bases, mixed>>

-----------------------------------------------------------------------------
(* Scopes and variables *)

\* Mutant: the last variable table is taken to have a successor.
EnterScope_PastTheTables ==
  /\ At({"OP_ENTER_SCOPE"})
  /\ scopeLevel' = scopeLevel + 1
  /\ ip' = NextIp
  /\ UNCHANGED <<mode, chunk, stack, tables, functions, callStack, status, output,
                 lines, bases, mixed>>

EnterScope ==
  /\ At({"OP_ENTER_SCOPE"})
  /\ scopeLevel + 1 < StackMax
  /\ scopeLevel' = scopeLevel + 1
  /\ ip' = NextIp
  /\ UNCHANGED <<mode, chunk, stack, tables, functions, callStack, status, output,
                 lines, bases, mixed>>

\* Mutant: the table of the scope that ends is not replaced.
ExitScope_KeepsTable ==
  /\ At({"OP_EXIT_SCOPE"})
  /\ scopeLevel # 0
  /\ scopeLevel' = scopeLevel - 1
  /\ ip' = NextIp
  /\ UNCHANGED <<mode, chunk, stack, tables, functions, callStack, status, output,
                 lines, bases, mixed>>

ExitScope ==
  /\ At({"OP_EXIT_SCOPE"})
  /\ IF scopeLevel = 0
       THEN /\ status' = "exit"
            /\ UNCHANGED <<tables, scopeLevel, ip>>
       ELSE /\ tables' = [tables EXCEPT ![scopeLevel] = EmptyTable]
            /\ scopeLevel' = scopeLevel - 1
            /\ ip' = NextIp
            /\ UNCHANGED status
  /\ UNCHANGED <<mode, chunk, stack, functions, callStack, output, lines, bases, mixed>>

DefVariable ==
  /\ At({"OP_DEF_VARIABLE"})
  /\ tables' = [tables EXCEPT ![scopeLevel] = Bind(@, Here.name, NotValue)]
  /\ ip' = NextIp
  /\ UNCHANGED <<mode, chunk, stack, scopeLevel, functions, callStack, status,
                 output, lines, bases, mixed>>

SetVariable ==
  /\ At({"OP_SET_VARIABLE"})
  /\ Operands
  /\ stack' = Drop(1)
  /\ tables' = [tables EXCEPT ![AssignedLevel(Here.name)] = Bind(@, Here.name, Top)]
  /\ ip' = NextIp
  /\ UNCHANGED <<mode, chunk, scopeLevel, functions, callStack, status, output,
                 lines, bases, mixed>>

-----------------------------------------------------------------------------
(* Jumps *)

Jump ==
  /\ At({"OP_JUMP", "OP_LOOP"})
  /\ ip' = JumpTarget(ip, Here)
  /\ UNCHANGED <<mode, chunk, stack, tables, scopeLevel, functions, callStack,
                 status, output, lines, bases, mixed>>

\* Mutant: the condition is looked at, not popped.
JumpIfFalse_Peeks ==
  /\ At({"OP_JUMP_IF_FALSE"})
  /\ Operands
  /\ \E holds \in AsBoolean(Top) : ip' = IF holds THEN NextIp ELSE JumpTarget(ip, Here)
  /\ UNCHANGED <<mode, chunk, stack, tables, scopeLevel, functions, callStack, status,
                 output, lines, bases, mixed>>

JumpIfFalse ==
  /\ At({"OP_JUMP_IF_FALSE"})
  /\ Operands
  /\ stack' = Drop(1)
  /\ \E holds \in AsBoolean(Top) : ip' = IF holds THEN NextIp ELSE JumpTarget(ip, Here)
  /\ UNCHANGED <<mode, chunk, tables, scopeLevel, functions, callStack, status,
                 output, lines, bases, mixed>>

-----------------------------------------------------------------------------
(* Functions *)

\* decodeFunc(), and the jump over the body.
DecFunction ==
  /\ At({"OP_DEC_FUNCTION"})
  /\ functions' = Append(functions,
       [name |-> Here.name, params |-> Here.params, start |-> FunctionStart(ip, Here),
        line |-> lines])
  /\ ip' = AfterBody(ip, Here)
  /\ UNCHANGED <<mode, chunk, stack, tables, scopeLevel, callStack, status, output,
                 lines, bases, mixed>>

\* The name and the start of a function are pointers into the chunk of the call of
\* interpret() that declared it, which is freed when that call returns.
Freed(f) == f.line # lines

\* The scan of declaredFunctions stops at the first function of that name, or at
\* the first whose name lies in a chunk that was freed.
Scan(name) ==
  LET hits == {k \in 1 .. Len(functions) : functions[k].name = name \/ Freed(functions[k])}
  IN  {k \in hits : \A j \in hits : k <= j}

\* Mutant: the address is pushed before the name of the function is passed.
ResumeAddress_AtName == ip + 1

\* What is pushed on the call stack: the address behind the call, where the
\* arguments are.
ResumeAddress == NextIp

Argument(x) == chunk.code[ArgumentAt(chunk, NextIp, x)]

CallOverflows(f) ==
  \/ scopeLevel + 1 = StackMax
  \/ Len(callStack) = StackMax
  \/ Len(stack) = StackMax /\ f.params # <<>>

\* One value instruction follows the call for each parameter.
Supplied(f) == InlineArguments(chunk, NextIp, Len(f.params))

\* An argument that is there names a variable nobody has set.
Unset(f) ==
  \E x \in 1 .. Len(f.params) :
    InlineArguments(chunk, NextIp, x) /\ Undefined(Argument(x))

\* A fresh table one level up takes the arguments; the body's OP_ENTER_SCOPE
\* makes it the current one.  The resume address is that of the arguments.
FunctionCall ==
  /\ At({"OP_FUNCTION_CALL"})
  /\ \E k \in Scan(Here.name) :
       LET f == functions[k]
           arity == Len(f.params)
           Last(n) == CHOOSE x \in 1 .. arity :
                        f.params[x] = n /\ \A y \in x + 1 .. arity : f.params[y] # n
       IN  /\ ~Freed(f)
           /\ ~CallOverflows(f)
           /\ Supplied(f)
           /\ ~Unset(f)
           /\ tables' = [tables EXCEPT ![scopeLevel + 1] =
                [n \in {f.params[x] : x \in 1 .. arity} |-> ValueOf(Argument(Last(n)))]]
           /\ ip' = f.start
  /\ callStack' = Append(callStack, ResumeAddress)
  /\ bases' = Append(bases, scopeLevel)
  /\ UNCHANGED <<mode, chunk, stack, scopeLevel, functions, status, output, lines, mixed>>

\* Mutant: the resume address is read and stays on the call stack.
ReturnToCaller_KeepsFrame ==
  /\ At({"OP_RETURN"})
  /\ callStack # <<>>
  /\ ip' = callStack[Len(callStack)]
  /\ UNCHANGED <<mode, chunk, stack, tables, scopeLevel, functions, callStack, status,
                 output, lines, bases, mixed>>

\* Mutant: the resume address is that of the outermost call.
ReturnToCaller_Outermost ==
  /\ At({"OP_RETURN"})
  /\ callStack # <<>>
  /\ ip' = callStack[1]
  /\ callStack' = SubSeq(callStack, 1, Len(callStack) - 1)
  /\ bases' = SubSeq(bases, 1, Len(bases) - 1)
  /\ UNCHANGED <<mode, chunk, stack, tables, scopeLevel, functions, status, output,
                 lines, mixed>>

ReturnToCaller ==
  /\ At({"OP_RETURN"})
  /\ callStack # <<>>
  /\ ip' = callStack[Len(callStack)]
  /\ callStack' = SubSeq(callStack, 1, Len(callStack) - 1)
  /\ bases' = SubSeq(bases, 1, Len(bases) - 1)
  /\ UNCHANGED <<mode, chunk, stack, tables, scopeLevel, functions, status, output,
                 lines, mixed>>

\* run() returns INTERPRET_OK and interpret() frees the chunk: the functions it
\* declared stay in the table and keep their pointers into it.
Finish ==
  /\ At({"OP_RETURN"})
  /\ callStack = <<>>
  /\ status' = "ok"
  /\ UNCHANGED <<mode, chunk, ip, stack, tables, scopeLevel, functions, callStack,
                 output, lines, bases, mixed>>

-----------------------------------------------------------------------------
(* What C leaves undefined *)

\* interpretValue() pushes nothing for an instruction that is no value, and the
\* pop() that follows runs on the empty stack.
MissingArgument ==
  /\ At({"OP_FUNCTION_CALL"})
  /\ \E k \in Scan(Here.name) :
       /\ ~Freed(functions[k])
       /\ ~CallOverflows(functions[k])
       /\ ~Unset(functions[k])
       /\ ~Supplied(functions[k])

\* Fewer values than the instruction pops.
MissingValue == (At(OpCode) /\ ~Operands) \/ MissingArgument

Underflow == MissingValue /\ Fault("underflow")

Overflow ==
  /\ \/ At(ValueOps) /\ ~Undefined(Here) /\ Len(stack) = StackMax
     \/ At({"OP_ENTER_SCOPE"}) /\ scopeLevel + 1 = StackMax
     \/ /\ At({"OP_FUNCTION_CALL"})
        /\ \E k \in Scan(Here.name) : ~Freed(functions[k]) /\ CallOverflows(functions[k])
  /\ Fault("overflow")

NoSuchFunction ==
  /\ At({"OP_FUNCTION_CALL"})
  /\ Scan(Here.name) = {}
  /\ Fault("no_such_function")

DanglingFunction ==
  /\ At({"OP_FUNCTION_CALL"})
  /\ \E k \in Scan(Here.name) : Freed(functions[k])
  /\ Fault("dangling_function")

\* The instruction reads a variable nobody has set, itself or for an argument.
ReadsUnset ==
  \/ At(ValueOps) /\ Undefined(Here)
  \/ /\ At({"OP_FUNCTION_CALL"})
     /\ \E k \in Scan(Here.name) :
          /\ ~Freed(functions[k])
          /\ ~CallOverflows(functions[k])
          /\ Unset(functions[k])

\* In a nested scope the search goes on below the table of the top level.
UndefinedVariable == ReadsUnset /\ scopeLevel # 0 /\ Fault("undefined_wild")

\* At the top level it searches the one table again and again, reports that the
\* variable is not defined each time, and run() never returns.
Spinning == ReadsUnset /\ scopeLevel = 0
Spin == Spinning /\ UNCHANGED vars

WildPointer == At(OpCode) /\ Operands /\ WildRead /\ Fault("wild_pointer")

-----------------------------------------------------------------------------
Execute ==
  \/ PushValue \/ UnaryOp \/ BinaryOp \/ AddMixed \/ PopValue \/ PrintValue
  \/ EnterScope \/ ExitScope \/ DefVariable \/ SetVariable
  \/ Jump \/ JumpIfFalse
  \/ DecFunction \/ FunctionCall \/ ReturnToCaller \/ Finish
  \/ Underflow \/ Overflow \/ NoSuchFunction \/ DanglingFunction
  \/ UndefinedVariable \/ WildPointer

\* The program has ended, or the REPL waits for a line.
Rest == ~Running /\ UNCHANGED vars

Next == (\E c \in Chunks : Interpret(c)) \/ Execute \/ Spin \/ Rest

\* run() loops until it returns: a machine that is running takes its next step, if
\* the instruction it is at ever ends.
Spec == Init /\ [][Next]_vars /\ WF_vars(Execute)

-----------------------------------------------------------------------------
(* Properties *)

IsTable(t) == DOMAIN t \subseteq Names /\ \A n \in DOMAIN t : t[n] \in Value
Function == [name : Names, params : Seq(Names), start : Nat, line : Nat]

\* Every variable has its type, and the arrays their bounds.
TypeOK ==
  /\ mode \in Modes
  /\ TypedChunk(chunk)
  /\ ip \in Nat
  /\ stack \in Seq(Value) /\ Len(stack) <= StackMax
  /\ DOMAIN tables = 0 .. StackMax - 1
  /\ \A l \in 0 .. StackMax - 1 : IsTable(tables[l])
  /\ scopeLevel \in 0 .. StackMax - 1
  /\ functions \in Seq(Function)
  /\ callStack \in Seq(Nat) /\ Len(callStack) <= StackMax
  /\ status \in Status
  /\ output \in Seq(Value)
  /\ lines \in 0 .. MaxLines
  /\ bases \in Seq(Nat) /\ Len(bases) = Len(callStack) + 1
  /\ mixed \in BOOLEAN

\* The base of the running call and the scopes opened since account for the scope
\* counter at every instruction, through every call, return, jump and loop: the
\* check of OP_EXIT_SCOPE for the top-level scope never fires, and a program
\* leaves the counter where it found it.
ScopesBalanced ==
  /\ Running => /\ ip \in Starts(chunk)
                /\ scopeLevel = bases[Len(bases)] + Levels(chunk)[ip]
  /\ status # "exit"
  /\ status = "ok" => scopeLevel = 0 /\ callStack = <<>>

\* pop() is never called on an empty stack and no value is left behind, unless
\* OP_ADD met operands it has no case for; from then on the stack is short, and
\* the program cannot end normally.
StackBalanced ==
  /\ Running /\ ~mixed => Len(stack) = Depths(chunk)[ip]
  /\ Running /\ mixed => Len(stack) < Depths(chunk)[ip]
  /\ status = "underflow" => mixed
  /\ status = "ok" => stack = <<>> /\ ~mixed

\* No scope ever starts with variables of a block or a call that is over: the
\* tables above the current one are empty, but for the arguments of the call
\* being made.
FreshScopes ==
  \A l \in scopeLevel + 1 .. StackMax - 1 :
    \/ tables[l] = EmptyTable
    \/ /\ Running
       /\ l = scopeLevel + 1
       /\ \E k \in 1 .. Len(functions) : ~Freed(functions[k]) /\ ip = functions[k].start

\* vm.ip and the resume addresses are addresses of instructions of the chunk that
\* is running, whatever was called and whatever chunks were run and freed before.
\* So is the start of every function this chunk has declared, and a script, which
\* runs one chunk, has no others: its scan never meets the name of a function
\* whose chunk is gone.  At the prompt the scan may (dangling_function), as the
\* functions of earlier lines stay in the table.
PointersStayInChunk ==
  /\ Running =>
       /\ ip \in Starts(chunk)
       /\ \A k \in 1 .. Len(callStack) : callStack[k] \in Starts(chunk)
       /\ \A k \in 1 .. Len(functions) : mode = "VM_MODE_STATIC" \/ ~Freed(functions[k]) =>
            \E h \in Headers(chunk) : /\ chunk.code[h].name = functions[k].name
                                     /\ functions[k].start = FunctionStart(h, chunk.code[h])
                                     /\ functions[k].start \in Starts(chunk)
  /\ mode = "VM_MODE_STATIC" => status # "dangling_function"

\* A call can only fail for want of room in the variable tables before it fails
\* for want of room in the call stack: every call in progress holds a scope.
CallsHoldScopes == Len(callStack) <= scopeLevel + 1

\* A step adds no name to an enclosing scope, and none is lost from a scope that
\* stays open, whatever is assigned, called or left in between.
OpenScopesKeepTheirNames ==
  [][\A l \in 0 .. StackMax - 1 :
       /\ l < scopeLevel => DOMAIN tables'[l] \subseteq DOMAIN tables[l]
       /\ l <= scopeLevel /\ l <= scopeLevel' => DOMAIN tables[l] \subseteq DOMAIN tables'[l]]_vars

\* No loop, and calls only of functions whose definition is over.
Straight(c) ==
  \A o \in Starts(c) :
    /\ c.code[o].op # "OP_LOOP"
    /\ c.code[o].op = "OP_FUNCTION_CALL" =>
         \A h \in Headers(c) : c.code[h].name = c.code[o].name =>
                                 AfterBody(h, c.code[h]) <= o

\* A chunk without loops and recursion comes to an end, or hangs in a lookup at the
\* top level: jumps over branches, function bodies and returns never bring control
\* back to where it was, and no other instruction can keep run() for ever.
StraightCodeHalts ==
  \A c \in Chunks : Straight(c) => (Running /\ chunk = c ~> ~Running \/ Spinning)

\* The manual: "To declare a variable use the var keyword, followed by an
\* identifier, an equals sign, and the value you wish to bind to the variable.
\* After a variable is declared, you may reference the variable's value" -
\* what is stored under a declared name is what a reference in that scope reads.
AssignmentIsVisible ==
  [][SetVariable /\ Visible(Here.name) # {} =>
       tables'[Highest(Visible(Here.name))][Here.name] = Top]_vars

-----------------------------------------------------------------------------
(* The inductive invariant *)

\* Where control is, against the static levels and depths of the chunk.
Aligned ==
  Running =>
    /\ chunk \in Chunks
    /\ ip \in Starts(chunk)
    /\ scopeLevel = bases[Len(bases)] + Levels(chunk)[ip]
    /\ mixed => Len(stack) < Depths(chunk)[ip]
    /\ ~mixed => Len(stack) = Depths(chunk)[ip]

\* Each call resumes at a statement of its caller, in the scope it was made in.
FramesAligned ==
  /\ bases[1] = 0
  /\ Running => \A k \in 1 .. Len(callStack) :
       /\ callStack[k] \in Starts(chunk)
       /\ Depths(chunk)[callStack[k]] = 0
       /\ bases[k + 1] = bases[k] + Levels(chunk)[callStack[k]]

\* A function of the running chunk was declared by one of its headers.
Declares(h, f) ==
  /\ chunk.code[h].name = f.name
  /\ chunk.code[h].params = f.params
  /\ f.start = FunctionStart(h, chunk.code[h])

FunctionsDeclared ==
  \A k \in 1 .. Len(functions) :
    Running /\ ~Freed(functions[k]) => \E h \in Headers(chunk) : Declares(h, functions[k])

\* Between two calls of interpret() nothing is left behind but variables and the
\* functions of earlier calls.
QuietBetweenLines ==
  status \in {"idle", "ok"} =>
    /\ scopeLevel = 0
    /\ callStack = <<>>
    /\ stack = <<>>
    /\ ~mixed

\* The only stops that can happen, and the functions a script can see.
StopsExplained ==
  /\ status # "exit"
  /\ status = "underflow" => mixed
  /\ lines = 0 => functions = <<>> /\ status = "idle"
  /\ mode = "VM_MODE_STATIC" =>
       /\ status # "dangling_function"
       /\ Running => \A k \in 1 .. Len(functions) : ~Freed(functions[k])

\* No function was declared by a call of interpret() that is yet to come.
FunctionsDated == \A k \in 1 .. Len(functions) : functions[k].line <= lines

IInv ==
  /\ TypeOK
  /\ FunctionsDated
  /\ Aligned
  /\ FramesAligned
  /\ FunctionsDeclared
  /\ QuietBetweenLines
  /\ StopsExplained
  /\ FreshScopes

\* All calls but the first were made inside of a function body, in a scope of its
\* own, so that each of them started at least one level above the one before.
CallsNested ==
  /\ \A k \in 1 .. Len(bases) : bases[k] >= k - 2
  /\ Running /\ callStack # <<>> => Body(chunk, ip) # -1
  /\ Running => \A k \in 2 .. Len(callStack) : Body(chunk, callStack[k]) # -1
=============================================================================
