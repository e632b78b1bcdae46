------------------------------ MODULE Bytecode ------------------------------
(***************************************************************************)
(* The instruction set that compiler.c writes and virtualmachine.c reads   *)
(* (chunk.h, bytecodeconsumers.c), and what it means for a chunk of it to  *)
(* be well formed.                                                         *)
(*                                                                         *)
(* A chunk is the byte array of chunk.h seen as a partial function from    *)
(* the offset of each opcode to the instruction that starts there.  The    *)
(* operand bytes are not modelled one by one, their NUMBER is: every jump  *)
(* distance and resume address of the code is a sum of widths.             *)
(*                                                                         *)
(* The virtual machine trusts its input: push, pop, the scope counter and  *)
(* the instruction pointer are not checked.  WellFormed says, instruction  *)
(* by instruction, what it relies on.                                      *)
(***************************************************************************)
EXTENDS Integers, Sequences, FiniteSets

CONSTANT NameBytes   \* strlen + 1 of every name and string literal

ASSUME NameBytesAssumption == NameBytes \in Nat \ {0}

-----------------------------------------------------------------------------
(* Opcodes *)

ValueOps == {"OP_NUMBER", "OP_TRUE", "OP_FALSE", "OP_STRING", "OP_GET_VARIABLE"}
UnaryOps == {"OP_NEGATE", "OP_NOT"}
BinaryOps == {"OP_ADD", "OP_SUBTRACT", "OP_MULTIPLY", "OP_DIVIDE", "OP_MODULO",
              "OP_EQUALS", "OP_GREATER", "OP_LESSER", "OP_AND", "OP_OR", "OP_XOR"}
JumpOps == {"OP_JUMP", "OP_JUMP_IF_FALSE", "OP_LOOP"}
NameOps == {"OP_GET_VARIABLE", "OP_SET_VARIABLE", "OP_DEF_VARIABLE", "OP_FUNCTION_CALL"}
ScopeOps == {"OP_ENTER_SCOPE", "OP_EXIT_SCOPE"}
ConsumerOps == {"OP_POP", "OP_PRINT", "OP_SET_VARIABLE", "OP_JUMP_IF_FALSE"}

OpCode == ValueOps \cup UnaryOps \cup BinaryOps \cup JumpOps \cup NameOps
            \cup ScopeOps \cup ConsumerOps \cup {"OP_DEC_FUNCTION", "OP_RETURN"}

(***************************************************************************)
(* One shape for every instruction.  n is the number or string literal,    *)
(* the jump distance or the length of a function's body; params and rets   *)
(* are the parameter names and the number of return types of a function.   *)
(***************************************************************************)
Instruction(Names) ==
  [op : OpCode, n : Nat, name : Names, params : Seq(Names), rets : Nat]

Simple(op) == [op |-> op, n |-> 0, name |-> "", params |-> <<>>, rets |-> 0]
Literal(op, n) == [Simple(op) EXCEPT !.n = n]
Named(op, name) == [Simple(op) EXCEPT !.name = name]
Header(name, params, rets, bodyLength) ==
  [op |-> "OP_DEC_FUNCTION", n |-> bodyLength, name |-> name,
   params |-> params, rets |-> rets]

\* The bytes an instruction takes, its opcode included.
Width(i) ==
  CASE i.op = "OP_NUMBER"            -> 9
    [] i.op \in {"OP_STRING"} \cup NameOps -> 1 + NameBytes
    [] i.op \in JumpOps              -> 3
    [] i.op = "OP_DEC_FUNCTION"      ->
         1 + 2 + NameBytes + 1 + Len(i.params) * (1 + NameBytes) + 1 + i.rets
    [] OTHER                         -> 1

\* BrashFunc.functionStart and BrashFunc.afterBody for the header at offset o:
\* the body length counts from the length field itself, one byte past the opcode.
FunctionStart(o, i) == o + Width(i)
AfterBody(o, i) == o + 1 + i.n

\* Where a taken jump at offset o lands.  run() has already read the opcode:
\* ip += distance - 1 forwards, ip -= distance + 1 backwards.
JumpTarget(o, i) == IF i.op = "OP_LOOP" THEN o - i.n ELSE o + i.n

-----------------------------------------------------------------------------
(* What an instruction does to the value stack and to the scope counter *)

Needs(i) ==
  CASE i.op \in BinaryOps -> 2
    [] i.op \in UnaryOps \cup ConsumerOps -> 1
    [] OTHER -> 0

StackEffect(i) ==
  CASE i.op \in ValueOps -> 1
    [] i.op \in BinaryOps \cup ConsumerOps -> -1
    [] OTHER -> 0

ScopeEffect(i) ==
  CASE i.op = "OP_ENTER_SCOPE" -> 1
    [] i.op = "OP_EXIT_SCOPE" -> -1
    [] OTHER -> 0

-----------------------------------------------------------------------------
(* Well-formed chunks *)

Starts(c) == DOMAIN c.code

Headers(c) == {h \in Starts(c) : c.code[h].op = "OP_DEC_FUNCTION"}

\* The innermost function body around offset p, as the offset of its header;
\* -1 outside every body.
Body(c, p) ==
  LET around == {h \in Headers(c) :
                   FunctionStart(h, c.code[h]) <= p /\ p < AfterBody(h, c.code[h])}
  IN  IF around = {} THEN -1 ELSE CHOOSE h \in around : \A g \in around : g <= h

\* The instructions that come before offset p in the same body.
Before(c, p) == {q \in Starts(c) : q < p /\ Body(c, q) = Body(c, p)}

Count(c, p, ops) == Cardinality({q \in Before(c, p) : c.code[q].op \in ops})

\* How many scopes are open, and how many values are on the stack, when control
\* reaches offset p, counted from the entry of the body p belongs to.
Levels(c) ==
  [p \in Starts(c) |-> Count(c, p, {"OP_ENTER_SCOPE"}) - Count(c, p, {"OP_EXIT_SCOPE"})]
Depths(c) ==
  [p \in Starts(c) |-> Count(c, p, ValueOps) - Count(c, p, BinaryOps \cup ConsumerOps)]

\* The x-th instruction from offset o on.
ArgumentAt(c, o, x) ==
  CHOOSE q \in Starts(c) :
    q >= o /\ Cardinality({r \in Starts(c) : o <= r /\ r < q}) = x - 1

\* A call names its arguments inline: one value instruction for each parameter.
InlineArguments(c, o, arity) ==
  /\ Cardinality({q \in Starts(c) : q >= o}) >= arity
  /\ \A x \in 1 .. arity : /\ ArgumentAt(c, o, x) \in Starts(c)
                           /\ c.code[ArgumentAt(c, o, x)].op \in ValueOps

\* Control may pass from o to p with the given effects.
Edge(level, depth, o, p, scopes, values) ==
  /\ p \in DOMAIN level
  /\ level[p] = level[o] + scopes
  /\ depth[p] = depth[o] + values

FallsThrough(i) == i.op \notin {"OP_RETURN", "OP_JUMP", "OP_LOOP", "OP_DEC_FUNCTION"}

(***************************************************************************)
(* The local condition on the instruction at offset o, for an assignment   *)
(* of scope levels and stack depths to the offsets of the chunk.           *)
(***************************************************************************)
Admissible(c, level, depth, o) ==
  LET i == c.code[o]
      E(p, scopes, values) == Edge(level, depth, o, p, scopes, values)
  IN
  /\ level[o] \in Nat
  /\ depth[o] \in Nat
  /\ depth[o] >= Needs(i)
  /\ FallsThrough(i) => E(o + Width(i), ScopeEffect(i), StackEffect(i))
  /\ i.op \in JumpOps => E(JumpTarget(o, i), 0, StackEffect(i))
  /\ i.op = "OP_EXIT_SCOPE" => level[o] >= 1
  /\ i.op = "OP_RETURN" => level[o] = 0 /\ depth[o] = 0
  /\ i.op = "OP_DEC_FUNCTION" =>
       /\ E(AfterBody(o, i), 0, 0)
       /\ FunctionStart(o, i) \in Starts(c)
       /\ level[FunctionStart(o, i)] = 0
       /\ depth[FunctionStart(o, i)] = 0
       /\ c.code[FunctionStart(o, i)].op = "OP_ENTER_SCOPE"
  /\ i.op = "OP_FUNCTION_CALL" =>
       /\ depth[o] = 0
       /\ \A h \in Headers(c) :
            c.code[h].name = i.name =>
              InlineArguments(c, o + Width(i), Len(c.code[h].params))

\* Control leaves a function body only by OP_RETURN and enters it only at its
\* start, and inside of a body there are calls only in the scope the body opens.
StaysInBody(c, level, o) ==
  LET i == c.code[o]
      Same(p) == Body(c, p) = Body(c, o)
  IN
  /\ FallsThrough(i) => Same(o + Width(i))
  /\ i.op \in JumpOps => Same(JumpTarget(o, i))
  /\ i.op = "OP_DEC_FUNCTION" => /\ Same(AfterBody(o, i))
                                 /\ Body(c, FunctionStart(o, i)) = o
  /\ i.op = "OP_FUNCTION_CALL" => Body(c, o) = -1 \/ level[o] >= 1

WellFormed(c) ==
  LET level == Levels(c)
      depth == Depths(c)
  IN  /\ 0 \in Starts(c)
      /\ level[0] = 0
      /\ depth[0] = 0
      /\ \A o \in Starts(c) : /\ Admissible(c, level, depth, o)
                               /\ StaysInBody(c, level, o)

\* The scope half of WellFormed: the machine enters and leaves scopes in pairs
\* along every path, and returns from the scope it was called in.
ScopeSafe(c) ==
  LET level == Levels(c)
      Same(o, p, effect) == p \in Starts(c) /\ level[p] = level[o] + effect
  IN
  \A o \in Starts(c) :
    LET i == c.code[o] IN
    /\ level[o] \in Nat
    /\ i.op = "OP_EXIT_SCOPE" => level[o] >= 1
    /\ i.op = "OP_RETURN" => level[o] = 0
    /\ FallsThrough(i) => Same(o, o + Width(i), ScopeEffect(i))
    /\ i.op \in JumpOps => Same(o, JumpTarget(o, i), 0)
    /\ i.op = "OP_DEC_FUNCTION" =>
         /\ Same(o, AfterBody(o, i), 0)
         /\ FunctionStart(o, i) \in Starts(c)
         /\ level[FunctionStart(o, i)] = 0
         /\ c.code[FunctionStart(o, i)].op = "OP_ENTER_SCOPE"

\* The stack half of it for the chunks of broken sources, in which operands may be missing:
\* a bound at each offset on the values that can be on the stack there, which leaves none
\* where a function is called or returns.
Bounds(c, depth) ==
  /\ depth \in [Starts(c) -> Nat]
  /\ \A o \in Starts(c) :
       LET i == c.code[o] IN
       /\ FallsThrough(i) => depth[o] + StackEffect(i) <= depth[o + Width(i)]
       /\ i.op \in JumpOps => depth[o] + StackEffect(i) <= depth[JumpTarget(o, i)]
       /\ i.op = "OP_DEC_FUNCTION" => depth[o] <= depth[AfterBody(o, i)]
       /\ i.op \in {"OP_FUNCTION_CALL", "OP_RETURN"} => depth[o] = 0

\* What compile() delivers of any source.
Deliverable(c) ==
  /\ 0 \in Starts(c)
  /\ ScopeSafe(c)
  /\ \A o \in Starts(c) : StaysInBody(c, Levels(c), o)
  /\ \E depth : Bounds(c, depth)

-----------------------------------------------------------------------------
(* Chunks as sequences of instructions *)

\* The chunk that writing the instructions one after the other leaves.
Assemble(instructions) ==
  LET offset[k \in 1 .. Len(instructions) + 1] ==
        IF k = 1 THEN 0 ELSE offset[k - 1] + Width(instructions[k - 1])
      At(o) == CHOOSE k \in 1 .. Len(instructions) : offset[k] = o
  IN  [code |-> [o \in {offset[k] : k \in 1 .. Len(instructions)} |-> instructions[At(o)]],
       size |-> offset[Len(instructions) + 1]]
=============================================================================
