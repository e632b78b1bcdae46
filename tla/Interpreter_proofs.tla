-------------------------- MODULE Interpreter_proofs --------------------------
(***************************************************************************)
(* Proofs about the virtual machine, for every set of chunks and every     *)
(* size of its arrays, and about the sessions the compiler feeds it in,    *)
(* for every set of lines.                                                 *)
(***************************************************************************)
EXTENDS Interpreter, FiniteSetTheorems, WellFoundedInduction, SequenceTheorems, TLAPS

USE DEF Freed

-----------------------------------------------------------------------------
(* Values *)

LEMMA ClampType == \A n \in Int : Clamp(n) \in Numbers
  BY BoundsAssumption DEF Clamp, Numbers

LEMMA ConstructorTypes ==
  /\ NotValue \in Value
  /\ \A b \in BOOLEAN : Boolean(b) \in Value
  /\ \A n \in Int : Number(n) \in Value
  /\ \A s \in Seq(Nat) : String(s) \in Value
<1>1. NotValue \in Value
  BY BoundsAssumption DEF NotValue, Value, Numbers
<1>2. \A b \in BOOLEAN : Boolean(b) \in Value
  BY BoundsAssumption DEF Boolean, Value, Numbers
<1>3. \A n \in Int : Number(n) \in Value
  BY ClampType DEF Number, Value
<1>4. ASSUME NEW s \in Seq(Nat) PROVE String(s) \in Value
  <2>1. 0 \in Numbers
    BY BoundsAssumption DEF Numbers
  <2>2. SubSeq(s, 1, IF Len(s) > MaxString THEN MaxString ELSE Len(s)) \in Seq(Nat)
    BY BoundsAssumption
  <2>. QED  BY <2>1, <2>2 DEF String, Value
<1>. QED  BY <1>1, <1>2, <1>3, <1>4

LEMMA UnaryResultType ==
  ASSUME NEW op \in UnaryOps, NEW v \in Value
  PROVE  UnaryResult(op, v) \in Value
<1>1. Wild \in Numbers /\ 0 \in Numbers /\ 1 \in Numbers
  BY BoundsAssumption DEF Wild, Numbers
<1>2. CASE v.type = "VAL_OBJECT"
  BY <1>1, <1>2 DEF UnaryResult, Value, IsObject, IsNumber
<1>3. CASE v.type = "VAL_NUMBER"
  <2>1. -v.as \in Int
    BY BoundsAssumption DEF Value, Numbers
  <2>. QED  BY <1>3, <2>1, ConstructorTypes DEF UnaryResult, IsObject, IsNumber
<1>4. CASE v.type \in {"VAL_BOOLEAN", "VAL_NOT_VALUE"}
  BY <1>1, <1>4 DEF UnaryResult, Value, IsObject, IsNumber
<1>. QED  BY <1>2, <1>3, <1>4 DEF Value

LEMMA BinaryResultsType ==
  ASSUME NEW op \in BinaryOps, NEW a \in Value, NEW b \in Value,
         NEW r \in BinaryResults(op, a, b)
  PROVE  r \in Value
<1>. USE ConstructorTypes
<1>1. a.as \in Int /\ b.as \in Int /\ a.chars \in Seq(Nat) /\ b.chars \in Seq(Nat)
  BY BoundsAssumption DEF Value, Numbers
<1>2. AsNumber(a) \subseteq Int /\ AsNumber(b) \subseteq Int
  BY <1>1, BoundsAssumption DEF AsNumber, Numbers
<1>3. AsBoolean(a) \subseteq BOOLEAN /\ AsBoolean(b) \subseteq BOOLEAN
  BY DEF AsBoolean
<1>4. CASE op = "OP_ADD"
  <2>1. r = IF IsNumber(a) THEN Number(a.as + b.as) ELSE String(a.chars \o b.chars)
    BY <1>4 DEF BinaryResults
  <2>2. a.as + b.as \in Int /\ a.chars \o b.chars \in Seq(Nat)
    BY <1>1
  <2>. QED  BY <2>1, <2>2
<1>5. CASE op \in {"OP_DIVIDE", "OP_MODULO"}
  <2>1. Numbers \subseteq Int
    BY BoundsAssumption DEF Numbers
  <2>. QED  BY <1>5, <2>1 DEF BinaryResults
<1>6. CASE op = "OP_EQUALS"
  <2>1. valueEquality(a, b) \in BOOLEAN
    BY DEF valueEquality
  <2>. QED  BY <1>6, <2>1 DEF BinaryResults
<1>7. CASE op \in {"OP_SUBTRACT", "OP_MULTIPLY", "OP_GREATER", "OP_LESSER"}
  <2>1. PICK x \in AsNumber(a), y \in AsNumber(b) : r = OfNumbers(op, x, y)
    BY <1>7 DEF BinaryResults
  <2>2. x \in Int /\ y \in Int /\ x - y \in Int /\ x * y \in Int
    BY <1>2
  <2>3. Number(x - y) \in Value /\ Number(x * y) \in Value
    BY <2>2
  <2>4. Boolean(x > y) \in Value /\ Boolean(x < y) \in Value
    <3>1. (x > y) \in BOOLEAN /\ (x < y) \in BOOLEAN
      OBVIOUS
    <3>. QED  BY <3>1
  <2>. QED  BY <1>7, <2>1, <2>3, <2>4 DEF OfNumbers
<1>8. CASE op \in {"OP_AND", "OP_OR", "OP_XOR"}
  <2>1. PICK x \in AsBoolean(a), y \in AsBoolean(b) : r = OfBooleans(op, x, y)
    BY <1>8 DEF BinaryResults
  <2>. QED  BY <1>3, <1>8, <2>1 DEF OfBooleans
<1>. QED  BY <1>4, <1>5, <1>6, <1>7, <1>8 DEF BinaryOps

-----------------------------------------------------------------------------
(* Well-formed chunks *)

LEMMA WidthType == \A i \in Instruction(Names) : Width(i) \in Nat
<1>. SUFFICES ASSUME NEW i \in Instruction(Names)
              PROVE  Width(i) \in Nat
  OBVIOUS
<1>1. Len(i.params) \in Nat /\ i.rets \in Nat
  BY DEF Instruction
<1>2. NameBytes \in Nat
  BY NameBytesAssumption
<1>3. Len(i.params) * (1 + NameBytes) \in Nat
  <2>1. \A m, n \in Nat : m * n \in Nat
    OBVIOUS
  <2>2. 1 + NameBytes \in Nat
    BY <1>2
  <2>. QED  BY <1>1, <2>1, <2>2
<1>. QED  BY <1>1, <1>2, <1>3 DEF Width

\* What the tables of the instruction set say of each kind of instruction.
LEMMA Effects ==
  ASSUME NEW i
  PROVE  /\ i.op \in ValueOps => FallsThrough(i) /\ ScopeEffect(i) = 0 /\ StackEffect(i) = 1
         /\ i.op \in UnaryOps =>
              FallsThrough(i) /\ ScopeEffect(i) = 0 /\ StackEffect(i) = 0 /\ Needs(i) = 1
         /\ i.op \in BinaryOps =>
              FallsThrough(i) /\ ScopeEffect(i) = 0 /\ StackEffect(i) = -1 /\ Needs(i) = 2
         /\ i.op \in ConsumerOps =>
              FallsThrough(i) /\ ScopeEffect(i) = 0 /\ StackEffect(i) = -1 /\ Needs(i) = 1
         /\ i.op \in ScopeOps => FallsThrough(i) /\ StackEffect(i) = 0
         /\ i.op = "OP_ENTER_SCOPE" => ScopeEffect(i) = 1
         /\ i.op = "OP_EXIT_SCOPE" => ScopeEffect(i) = -1
         /\ i.op = "OP_DEF_VARIABLE" =>
              FallsThrough(i) /\ ScopeEffect(i) = 0 /\ StackEffect(i) = 0
         /\ i.op = "OP_FUNCTION_CALL" =>
              FallsThrough(i) /\ ScopeEffect(i) = 0 /\ StackEffect(i) = 0
         /\ i.op \in {"OP_JUMP", "OP_LOOP"} => StackEffect(i) = 0
<1>. USE DEF ValueOps, UnaryOps, BinaryOps, ConsumerOps, ScopeOps
<1>1. i.op \in ValueOps => FallsThrough(i) /\ ScopeEffect(i) = 0 /\ StackEffect(i) = 1
  BY DEF FallsThrough, ScopeEffect, StackEffect
<1>2. i.op \in UnaryOps =>
        FallsThrough(i) /\ ScopeEffect(i) = 0 /\ StackEffect(i) = 0 /\ Needs(i) = 1
  BY DEF FallsThrough, ScopeEffect, StackEffect, Needs
<1>3. i.op \in BinaryOps =>
        FallsThrough(i) /\ ScopeEffect(i) = 0 /\ StackEffect(i) = -1 /\ Needs(i) = 2
  BY DEF FallsThrough, ScopeEffect, StackEffect, Needs
<1>4. i.op \in ConsumerOps =>
        FallsThrough(i) /\ ScopeEffect(i) = 0 /\ StackEffect(i) = -1 /\ Needs(i) = 1
  BY DEF FallsThrough, ScopeEffect, StackEffect, Needs
<1>5. /\ i.op \in ScopeOps => FallsThrough(i) /\ StackEffect(i) = 0
      /\ i.op = "OP_ENTER_SCOPE" => ScopeEffect(i) = 1
      /\ i.op = "OP_EXIT_SCOPE" => ScopeEffect(i) = -1
  BY DEF FallsThrough, ScopeEffect, StackEffect
<1>6. i.op \in {"OP_DEF_VARIABLE", "OP_FUNCTION_CALL"} =>
        FallsThrough(i) /\ ScopeEffect(i) = 0 /\ StackEffect(i) = 0
  BY DEF FallsThrough, ScopeEffect, StackEffect
<1>7. i.op \in {"OP_JUMP", "OP_LOOP"} => StackEffect(i) = 0
  BY DEF StackEffect
<1>. QED  BY <1>1, <1>2, <1>3, <1>4, <1>5, <1>6, <1>7

LEMMA LevelsDomain ==
  ASSUME NEW c
  PROVE  DOMAIN Levels(c) = Starts(c) /\ DOMAIN Depths(c) = Starts(c)
  BY DEF Levels, Depths

-----------------------------------------------------------------------------
(* The invariant of the machine, for any chunk that compile() may deliver *)

\* A bound on the values that can be on the stack.
Room(c) == CHOOSE depth : Bounds(c, depth)

\* Where control is, against the scope levels of the running chunk and the room it needs.
Placed ==
  Running =>
    /\ Deliverable(chunk)
    /\ ip \in Starts(chunk)
    /\ scopeLevel = bases[Len(bases)] + Levels(chunk)[ip]
    /\ Len(stack) <= Room(chunk)[ip]

\* Each call resumes at an instruction of its caller, in the scope it was made in.
FramesPlaced ==
  /\ bases[1] = 0
  /\ Running => \A k \in 1 .. Len(callStack) :
       /\ callStack[k] \in Starts(chunk)
       /\ bases[k + 1] = bases[k] + Levels(chunk)[callStack[k]]

\* Between two calls of interpret() nothing is left behind.
Quiet ==
  /\ status \in {"idle", "ok"} =>
       /\ scopeLevel = 0
       /\ callStack = <<>>
       /\ stack = <<>>
  /\ FunctionsDated

Sound ==
  /\ TypeOK
  /\ Placed
  /\ FramesPlaced
  /\ FunctionsDeclared
  /\ Quiet
  /\ status # "exit"
  /\ FreshScopes

\* At the first instruction no scope has been opened.
LEMMA LevelsAtStart ==
  ASSUME NEW c, TypedChunk(c), 0 \in Starts(c)
  PROVE  Levels(c)[0] = 0
<1>1. Before(c, 0) = {}
  BY DEF Before, TypedChunk
<1>2. \A ops : Count(c, 0, ops) = 0
  BY <1>1, FS_EmptySet DEF Count
<1>. QED  BY <1>2 DEF Levels

\* A chunk that some bound fits is fitted by its room.
LEMMA RoomFits ==
  ASSUME NEW c, Deliverable(c)
  PROVE  Bounds(c, Room(c))
  BY DEF Deliverable, Room

(***************************************************************************)
(* What is known of the instruction that is about to be executed.          *)
(***************************************************************************)
LEMMA LocalFacts ==
  ASSUME TypeOK, Placed, Running
  PROVE  /\ ip \in Starts(chunk)
         /\ Here \in Instruction(Names)
         /\ NextIp \in Nat
         /\ ScopeSafe(chunk) /\ Bounds(chunk, Room(chunk))
         /\ \A o \in Starts(chunk) :
              o \in Nat /\ Levels(chunk)[o] \in Nat /\ Room(chunk)[o] \in Nat
<1>1. Deliverable(chunk) /\ ip \in Starts(chunk) /\ TypedChunk(chunk)
  BY DEF Placed, TypeOK
<1>2. ScopeSafe(chunk) /\ Bounds(chunk, Room(chunk))
  BY <1>1, RoomFits DEF Deliverable
<1>3. Here \in Instruction(Names) /\ ip \in Nat
  BY <1>1 DEF TypedChunk, Here
<1>4. NextIp \in Nat
  BY <1>3, WidthType DEF NextIp
<1>5. ASSUME NEW o \in Starts(chunk)
      PROVE  o \in Nat /\ Levels(chunk)[o] \in Nat /\ Room(chunk)[o] \in Nat
  <2>1. o \in Nat
    BY <1>1 DEF TypedChunk
  <2>2. Levels(chunk)[o] \in Nat
    BY <1>2 DEF ScopeSafe
  <2>3. Room(chunk) \in [Starts(chunk) -> Nat]
    BY <1>2 DEF Bounds
  <2>. QED  BY <2>1, <2>2, <2>3
<1>. QED  BY <1>1, <1>2, <1>3, <1>4, <1>5

\* Whatever of the scopes and the bound concerns one instruction.
LEMMA ScopesHere ==
  ASSUME TypeOK, Placed, Running
  PROVE  /\ Here.op = "OP_EXIT_SCOPE" => Levels(chunk)[ip] >= 1
         /\ Here.op = "OP_RETURN" => Levels(chunk)[ip] = 0
         /\ FallsThrough(Here) =>
              /\ NextIp \in Starts(chunk)
              /\ Levels(chunk)[NextIp] = Levels(chunk)[ip] + ScopeEffect(Here)
         /\ Here.op \in JumpOps =>
              /\ JumpTarget(ip, Here) \in Starts(chunk)
              /\ Levels(chunk)[JumpTarget(ip, Here)] = Levels(chunk)[ip] + 0
         /\ Here.op = "OP_DEC_FUNCTION" =>
              /\ AfterBody(ip, Here) \in Starts(chunk)
              /\ Levels(chunk)[AfterBody(ip, Here)] = Levels(chunk)[ip] + 0
              /\ FunctionStart(ip, Here) \in Starts(chunk)
  BY LocalFacts DEF ScopeSafe, Here, NextIp

LEMMA RoomHere ==
  ASSUME TypeOK, Placed, Running
  PROVE  /\ FallsThrough(Here) => Room(chunk)[ip] + StackEffect(Here) <= Room(chunk)[NextIp]
         /\ Here.op \in JumpOps =>
              Room(chunk)[ip] + StackEffect(Here) <= Room(chunk)[JumpTarget(ip, Here)]
         /\ Here.op = "OP_DEC_FUNCTION" => Room(chunk)[ip] <= Room(chunk)[AfterBody(ip, Here)]
         /\ Here.op \in {"OP_FUNCTION_CALL", "OP_RETURN"} => Room(chunk)[ip] = 0
  BY LocalFacts DEF Bounds, Here, NextIp

\* An instruction that falls through leads to the next one.
LEMMA FallThrough ==
  ASSUME TypeOK, Placed, Running, FallsThrough(Here)
  PROVE  /\ NextIp \in Starts(chunk)
         /\ Levels(chunk)[NextIp] = Levels(chunk)[ip] + ScopeEffect(Here)
         /\ Room(chunk)[ip] + StackEffect(Here) <= Room(chunk)[NextIp]
  BY ScopesHere, RoomHere

\* So does a taken jump to its target.
LEMMA JumpLands ==
  ASSUME TypeOK, Placed, Running, Here.op \in JumpOps
  PROVE  /\ JumpTarget(ip, Here) \in Starts(chunk)
         /\ Levels(chunk)[JumpTarget(ip, Here)] = Levels(chunk)[ip]
         /\ Room(chunk)[ip] + StackEffect(Here) <= Room(chunk)[JumpTarget(ip, Here)]
<1>1. JumpTarget(ip, Here) \in Starts(chunk) /\ Levels(chunk)[ip] \in Nat
  BY LocalFacts, ScopesHere
<1>2. Levels(chunk)[JumpTarget(ip, Here)] = Levels(chunk)[ip]
  BY <1>1, ScopesHere
<1>. QED  BY <1>1, <1>2, RoomHere

\* No value is on the stack where a function is called or returns.
LEMMA StackIsEmpty ==
  ASSUME TypeOK, Placed, Running, Here.op \in {"OP_FUNCTION_CALL", "OP_RETURN"}
  PROVE  stack = <<>>
<1>1. Len(stack) <= 0
  BY RoomHere DEF Placed
<1>2. Len(stack) \in Nat /\ (Len(stack) = 0 => stack = <<>>)
  BY DEF TypeOK
<1>. QED  BY <1>1, <1>2

-----------------------------------------------------------------------------
(* What most steps have in common *)

\* A function of the running chunk starts with its scope, at level zero.
LEMMA FunctionEntry ==
  ASSUME TypeOK, Placed, FunctionsDeclared, Running,
         NEW k \in 1 .. Len(functions), functions[k].line = lines
  PROVE  /\ functions[k].start \in Starts(chunk)
         /\ Levels(chunk)[functions[k].start] = 0
         /\ chunk.code[functions[k].start].op = "OP_ENTER_SCOPE"
<1>1. PICK h \in Headers(chunk) : Declares(h, functions[k])
  BY DEF FunctionsDeclared
<1>2. h \in Starts(chunk) /\ chunk.code[h].op = "OP_DEC_FUNCTION"
  BY DEF Headers
<1>3. /\ FunctionStart(h, chunk.code[h]) \in Starts(chunk)
      /\ Levels(chunk)[FunctionStart(h, chunk.code[h])] = 0
      /\ chunk.code[FunctionStart(h, chunk.code[h])].op = "OP_ENTER_SCOPE"
  BY <1>2, LocalFacts DEF ScopeSafe
<1>. QED  BY <1>1, <1>3 DEF Declares

\* Except at the entry of a function, every table above the current one is empty.
LEMMA TablesAboveEmpty ==
  ASSUME TypeOK, Placed, FunctionsDeclared, FreshScopes, Running,
         Here.op # "OP_ENTER_SCOPE",
         NEW l \in scopeLevel + 1 .. StackMax - 1
  PROVE  tables[l] = EmptyTable
<1>1. \A k \in 1 .. Len(functions) : functions[k].line = lines => ip # functions[k].start
  BY FunctionEntry DEF Here
<1>. QED  BY <1>1 DEF FreshScopes

\* A step inside a line that declares, calls and returns from nothing.
LEMMA PlainStep ==
  ASSUME Sound, Running,
         UNCHANGED <<chunk, functions, callStack, status, bases, lines>>
  PROVE  FramesPlaced' /\ FunctionsDeclared' /\ Quiet' /\ status' # "exit"
<1>. USE DEF Sound, Running
<1>1. FramesPlaced'
  BY DEF FramesPlaced
<1>2. FunctionsDeclared'
  BY DEF FunctionsDeclared, Declares
<1>3. Quiet'
  BY DEF Quiet, FunctionsDated
<1>. QED  BY <1>1, <1>2, <1>3

\* The variables of a step that touches neither tables nor scope counter.
LEMMA FreshStep ==
  ASSUME Sound, Running, Here.op # "OP_ENTER_SCOPE", UNCHANGED <<tables, scopeLevel>>
  PROVE  FreshScopes'
<1>1. \A l \in scopeLevel + 1 .. StackMax - 1 : tables[l] = EmptyTable
  BY TablesAboveEmpty DEF Sound
<1>. QED  BY <1>1 DEF FreshScopes, EmptyTable

LEMMA StaysBelow ==
  \A a, b, r, q \in Nat : \A e \in Int :
    a <= b + e /\ b <= r /\ r + e <= q => a <= q
  OBVIOUS

\* A step to the next instruction keeps scopes and stack in line with the code.
LEMMA FallPlaced ==
  ASSUME Sound, Running, FallsThrough(Here), ip' = NextIp,
         UNCHANGED <<chunk, bases, status>>,
         scopeLevel' = scopeLevel + ScopeEffect(Here),
         Len(stack') \in Nat, Len(stack') <= Len(stack) + StackEffect(Here)
  PROVE  Placed'
<1>1. /\ NextIp \in Starts(chunk)
      /\ Levels(chunk)[NextIp] = Levels(chunk)[ip] + ScopeEffect(Here)
      /\ Room(chunk)[ip] + StackEffect(Here) <= Room(chunk)[NextIp]
  BY FallThrough DEF Sound
<1>2. /\ Levels(chunk)[ip] \in Nat /\ Room(chunk)[ip] \in Nat /\ Room(chunk)[NextIp] \in Nat
      /\ scopeLevel \in Nat /\ Len(stack) \in Nat /\ bases[Len(bases)] \in Nat
  <2>1. /\ Levels(chunk)[ip] \in Nat /\ Room(chunk)[ip] \in Nat
        /\ Room(chunk)[NextIp] \in Nat
    BY <1>1, LocalFacts DEF Sound
  <2>2. /\ scopeLevel \in Nat /\ Len(stack) \in Nat /\ bases[Len(bases)] \in Nat
    BY DEF Sound, TypeOK
  <2>. QED  BY <2>1, <2>2
<1>3. ScopeEffect(Here) \in Int /\ StackEffect(Here) \in Int
  BY DEF ScopeEffect, StackEffect
<1>4. /\ Deliverable(chunk)
      /\ scopeLevel = bases[Len(bases)] + Levels(chunk)[ip]
      /\ Len(stack) <= Room(chunk)[ip]
  BY DEF Placed, Sound
<1>5. scopeLevel' = bases[Len(bases)] + Levels(chunk)[NextIp]
  BY <1>1, <1>2, <1>3, <1>4, SMTT(40)
<1>6. Len(stack') <= Room(chunk)[NextIp]
  BY <1>1, <1>2, <1>3, <1>4, StaysBelow, ZenonT(30)
<1>. QED  BY <1>1, <1>4, <1>5, <1>6 DEF Placed

LEMMA StackFacts ==
  ASSUME TypeOK
  PROVE  /\ Len(stack) \in Nat
         /\ \A k \in 1 .. 2 : Len(stack) >= k =>
              /\ Drop(k) \in Seq(Value)
              /\ Len(Drop(k)) = Len(stack) - k
         /\ Len(stack) >= 1 => Top \in Value
         /\ Len(stack) >= 2 => Second \in Value
<1>1. stack \in Seq(Value) /\ Len(stack) \in Nat
  BY DEF TypeOK
<1>2. ASSUME NEW k \in 1 .. 2, Len(stack) >= k
      PROVE  Drop(k) \in Seq(Value) /\ Len(Drop(k)) = Len(stack) - k
  BY <1>1, <1>2 DEF Drop
<1>3. ASSUME Len(stack) >= 1 PROVE Top \in Value
  BY <1>1, <1>3 DEF Top
<1>4. ASSUME Len(stack) >= 2 PROVE Second \in Value
  BY <1>1, <1>4 DEF Second
<1>. QED  BY <1>1, <1>2, <1>3, <1>4

-----------------------------------------------------------------------------
(* Variable lookup *)

\* A bounded set of scope levels that is not empty has an innermost one.
LEMMA HighestExists ==
  ASSUME NEW n \in Nat, NEW S \in SUBSET (0 .. n), S # {}
  PROVE  Highest(S) \in S /\ \A k \in S : k <= Highest(S)
<1>. DEFINE T == {n - k : k \in S}
            R == OpToRel(<, Nat)
<1>0. \A k \in S : n - k \in Nat /\ k \in Nat
  OBVIOUS
<1>1. T \subseteq Nat /\ T # {}
  BY <1>0
<1>2. PICK x \in T : \A y \in T : ~ (<<y, x>> \in R)
  <2>. HIDE DEF T, R
  <2>1. IsWellFoundedOn(R, Nat)
    BY NatLessThanWellFounded DEF R
  <2>. QED  BY <1>1, <2>1, WFMin
<1>3. \A y \in T : ~(y < x)
  BY <1>1, <1>2 DEF OpToRel
<1>4. PICK m \in S : x = n - m
  OBVIOUS
<1>5. ASSUME NEW k \in S PROVE k <= m
  <2>1. n - k \in T /\ ~(n - k < n - m)
    BY <1>3, <1>4
  <2>2. k \in Int /\ m \in Int /\ n \in Int
    BY <1>0
  <2>. HIDE DEF T
  <2>. QED  BY <2>1, <2>2
<1>. QED  BY <1>5 DEF Highest

LEMMA VisibleLevel ==
  ASSUME TypeOK, NEW name, Visible(name) # {}
  PROVE  /\ Highest(Visible(name)) \in 0 .. scopeLevel
         /\ tables[Highest(Visible(name))][name] \in Value
<1>1. scopeLevel \in Nat /\ scopeLevel < StackMax
  BY BoundsAssumption DEF TypeOK
<1>2. Highest(Visible(name)) \in Visible(name)
  BY <1>1, HighestExists DEF Visible
<1>3. IsTable(tables[Highest(Visible(name))])
  BY <1>1, <1>2, BoundsAssumption DEF TypeOK, Visible
<1>. QED  BY <1>2, <1>3 DEF Visible, Has, IsTable

LEMMA AssignedLevelType ==
  ASSUME TypeOK, NEW name
  PROVE  AssignedLevel(name) \in 0 .. scopeLevel
<1>. DEFINE outer == {l \in 0 .. scopeLevel - 1 : Has(l, name)}
<1>1. scopeLevel \in Nat
  BY BoundsAssumption DEF TypeOK
<1>2. CASE outer = {}
  BY <1>1, <1>2 DEF AssignedLevel
<1>3. CASE outer # {}
  <2>1. outer \in SUBSET (0 .. scopeLevel)
    BY <1>1
  <2>2. Highest(outer) \in outer
    BY <1>1, <1>3, <2>1, HighestExists
  <2>. QED  BY <1>1, <1>3, <2>2 DEF AssignedLevel
<1>. QED  BY <1>2, <1>3

LEMMA ValueOfType ==
  ASSUME TypeOK, NEW i \in Instruction(Names), i.op \in ValueOps, ~Undefined(i)
  PROVE  ValueOf(i) \in Value
<1>. USE ConstructorTypes
<1>1. i.n \in Nat /\ i.n \in Int /\ <<i.n>> \in Seq(Nat)
  BY DEF Instruction
<1>2. CASE i.op = "OP_NUMBER"
  BY <1>1, <1>2 DEF ValueOf
<1>3. CASE i.op \in {"OP_TRUE", "OP_FALSE"}
  BY <1>3 DEF ValueOf
<1>4. CASE i.op = "OP_STRING"
  BY <1>1, <1>4 DEF ValueOf
<1>5. CASE i.op = "OP_GET_VARIABLE"
  BY <1>5, VisibleLevel DEF ValueOf, Undefined
<1>. QED  BY <1>2, <1>3, <1>4, <1>5 DEF ValueOps

LEMMA BindType ==
  ASSUME NEW t, IsTable(t), NEW name \in Names, NEW v \in Value
  PROVE  /\ IsTable(Bind(t, name, v))
         /\ DOMAIN Bind(t, name, v) = DOMAIN t \cup {name}
  BY DEF IsTable, Bind

-----------------------------------------------------------------------------
(* One lemma for each action: values and operators *)

LEMMA PushValueStep ==
  ASSUME Sound, PushValue
  PROVE  Sound'
<1>1. Running /\ Here.op \in ValueOps /\ ip \in Starts(chunk)
  BY DEF PushValue, At
<1>2. Here \in Instruction(Names) /\ NextIp \in Nat
  BY <1>1, LocalFacts DEF Sound
<1>3. ValueOf(Here) \in Value
  BY <1>1, <1>2, ValueOfType DEF Sound, PushValue
<1>4. /\ stack' \in Seq(Value)
      /\ Len(stack') = Len(stack) + 1
      /\ Len(stack') <= StackMax
  BY <1>3, BoundsAssumption DEF Sound, TypeOK, PushValue
<1>5. TypeOK'
  BY <1>2, <1>4 DEF Sound, TypeOK, PushValue
<1>6. Placed'
  <2>1. FallsThrough(Here) /\ ScopeEffect(Here) = 0 /\ StackEffect(Here) = 1
    BY <1>1, Effects
  <2>2. scopeLevel' = scopeLevel + ScopeEffect(Here)
    BY <2>1, BoundsAssumption DEF Sound, TypeOK, PushValue
  <2>. QED  BY <1>1, <1>4, <2>1, <2>2, FallPlaced DEF PushValue
<1>7. FreshScopes'
  BY <1>1, FreshStep DEF PushValue, ValueOps
<1>. QED  BY <1>1, <1>5, <1>6, <1>7, PlainStep DEF PushValue, Sound

LEMMA UnaryOpStep ==
  ASSUME Sound, UnaryOp
  PROVE  Sound'
<1>1. Running /\ Here.op \in UnaryOps /\ Len(stack) >= 1
  BY Effects DEF UnaryOp, At, Operands
<1>2. NextIp \in Nat
  BY <1>1, LocalFacts DEF Sound
<1>3. /\ stack' \in Seq(Value)
      /\ Len(stack') = Len(stack)
  <2>1. Drop(1) \in Seq(Value) /\ Len(Drop(1)) = Len(stack) - 1 /\ Len(stack) \in Nat
    BY <1>1, StackFacts DEF Sound
  <2>2. UnaryResult(Here.op, Top) \in Value
    BY <1>1, StackFacts, UnaryResultType DEF Sound
  <2>. QED  BY <2>1, <2>2 DEF UnaryOp
<1>4. TypeOK'
  BY <1>2, <1>3 DEF Sound, TypeOK, UnaryOp
<1>5. Placed'
  <2>1. FallsThrough(Here) /\ ScopeEffect(Here) = 0 /\ StackEffect(Here) = 0
    BY <1>1, Effects
  <2>2. /\ scopeLevel' = scopeLevel + ScopeEffect(Here)
        /\ Len(stack') \in Nat /\ Len(stack') <= Len(stack) + StackEffect(Here)
    BY <1>3, <2>1, BoundsAssumption DEF Sound, TypeOK, UnaryOp
  <2>. QED  BY <1>1, <2>1, <2>2, FallPlaced DEF UnaryOp
<1>6. FreshScopes'
  BY <1>1, FreshStep DEF UnaryOp, UnaryOps
<1>. QED  BY <1>1, <1>4, <1>5, <1>6, PlainStep DEF UnaryOp, Sound

LEMMA BinaryOpStep ==
  ASSUME Sound, BinaryOp
  PROVE  Sound'
<1>1. Running /\ Here.op \in BinaryOps /\ Len(stack) >= 2
  BY Effects DEF BinaryOp, At, Operands
<1>2. NextIp \in Nat
  BY <1>1, LocalFacts DEF Sound
<1>3. /\ stack' \in Seq(Value)
      /\ Len(stack') = Len(stack) - 1
      /\ Len(stack) \in Nat
  <2>1. Drop(2) \in Seq(Value) /\ Len(Drop(2)) = Len(stack) - 2 /\ Len(stack) \in Nat
    BY <1>1, StackFacts DEF Sound
  <2>2. Second \in Value /\ Top \in Value
    BY <1>1, <2>1, StackFacts DEF Sound
  <2>3. PICK v \in BinaryResults(Here.op, Second, Top) : stack' = Append(Drop(2), v)
    BY DEF BinaryOp
  <2>4. v \in Value
    BY <1>1, <2>2, BinaryResultsType
  <2>. QED  BY <2>1, <2>3, <2>4
<1>4. TypeOK'
  BY <1>2, <1>3, BoundsAssumption DEF Sound, TypeOK, BinaryOp
<1>5. Placed'
  <2>1. FallsThrough(Here) /\ ScopeEffect(Here) = 0 /\ StackEffect(Here) = -1
    BY <1>1, Effects
  <2>2. /\ scopeLevel' = scopeLevel + ScopeEffect(Here)
        /\ Len(stack') \in Nat /\ Len(stack') <= Len(stack) + StackEffect(Here)
    BY <1>3, <2>1, BoundsAssumption DEF Sound, TypeOK, BinaryOp
  <2>. QED  BY <1>1, <2>1, <2>2, FallPlaced DEF BinaryOp
<1>6. FreshScopes'
  BY <1>1, FreshStep DEF BinaryOp, BinaryOps
<1>. QED  BY <1>1, <1>4, <1>5, <1>6, PlainStep DEF BinaryOp, Sound

\* A mixed addition leaves the stack one value short of what the code says.
LEMMA AddMixedStep ==
  ASSUME Sound, AddMixed
  PROVE  Sound'
<1>1. Running /\ Here.op = "OP_ADD" /\ Here.op \in BinaryOps /\ Len(stack) >= 2
  BY Effects DEF AddMixed, At, Operands, BinaryOps
<1>2. NextIp \in Nat
  BY <1>1, LocalFacts DEF Sound
<1>3. /\ stack' \in Seq(Value)
      /\ Len(stack') = Len(stack) - 2
      /\ Len(stack) \in Nat
  BY <1>1, StackFacts DEF Sound, AddMixed
<1>4. TypeOK'
  BY <1>2, <1>3, BoundsAssumption DEF Sound, TypeOK, AddMixed
<1>5. Placed'
  <2>1. FallsThrough(Here) /\ ScopeEffect(Here) = 0 /\ StackEffect(Here) = -1
    BY <1>1, Effects
  <2>2. /\ scopeLevel' = scopeLevel + ScopeEffect(Here)
        /\ Len(stack') \in Nat /\ Len(stack') <= Len(stack) + StackEffect(Here)
    BY <1>1, <1>3, <2>1, BoundsAssumption DEF Sound, TypeOK, AddMixed
  <2>. QED  BY <1>1, <2>1, <2>2, FallPlaced DEF AddMixed
<1>6. FreshScopes'
  BY <1>1, FreshStep DEF AddMixed, BinaryOps
<1>. QED  BY <1>1, <1>4, <1>5, <1>6, PlainStep DEF AddMixed, Sound

LEMMA ShowType ==
  ASSUME output \in Seq(Value), NEW v \in Value,
         Show(v) \/ UNCHANGED output
  PROVE  output' \in Seq(Value)
<1>1. CASE UNCHANGED output
  BY <1>1
<1>2. CASE Show(v)
  BY <1>2 DEF Show
<1>. QED  BY <1>1, <1>2

LEMMA PopValueStep ==
  ASSUME Sound, PopValue
  PROVE  Sound'
<1>1. Running /\ Here.op = "OP_POP" /\ Here.op \in ConsumerOps /\ Len(stack) >= 1
  BY Effects DEF PopValue, At, Operands, ConsumerOps
<1>2. NextIp \in Nat
  BY <1>1, LocalFacts DEF Sound
<1>3. /\ stack' \in Seq(Value)
      /\ Len(stack') = Len(stack) - 1
      /\ Len(stack) \in Nat
      /\ Top \in Value
  BY <1>1, StackFacts DEF Sound, PopValue
<1>4. output' \in Seq(Value)
  BY <1>3, ShowType DEF PopValue, Sound, TypeOK
<1>5. TypeOK'
  BY <1>2, <1>3, <1>4, BoundsAssumption DEF Sound, TypeOK, PopValue
<1>6. Placed'
  <2>1. FallsThrough(Here) /\ ScopeEffect(Here) = 0 /\ StackEffect(Here) = -1
    BY <1>1, Effects
  <2>2. /\ scopeLevel' = scopeLevel + ScopeEffect(Here)
        /\ Len(stack') \in Nat /\ Len(stack') <= Len(stack) + StackEffect(Here)
    BY <1>3, <2>1, BoundsAssumption DEF Sound, TypeOK, PopValue
  <2>. QED  BY <1>1, <2>1, <2>2, FallPlaced DEF PopValue
<1>7. FreshScopes'
  BY <1>1, FreshStep DEF PopValue
<1>. QED  BY <1>1, <1>5, <1>6, <1>7, PlainStep DEF PopValue, Sound

LEMMA PrintValueStep ==
  ASSUME Sound, PrintValue
  PROVE  Sound'
<1>1. Running /\ Here.op = "OP_PRINT" /\ Here.op \in ConsumerOps /\ Len(stack) >= 1
  BY Effects DEF PrintValue, At, Operands, ConsumerOps
<1>2. NextIp \in Nat
  BY <1>1, LocalFacts DEF Sound
<1>3. /\ stack' \in Seq(Value)
      /\ Len(stack') = Len(stack) - 1
      /\ Len(stack) \in Nat
      /\ Top \in Value
  BY <1>1, StackFacts DEF Sound, PrintValue
<1>4. output' \in Seq(Value)
  BY <1>3, ShowType DEF PrintValue, Sound, TypeOK
<1>5. TypeOK'
  BY <1>2, <1>3, <1>4, BoundsAssumption DEF Sound, TypeOK, PrintValue
<1>6. Placed'
  <2>1. FallsThrough(Here) /\ ScopeEffect(Here) = 0 /\ StackEffect(Here) = -1
    BY <1>1, Effects
  <2>2. /\ scopeLevel' = scopeLevel + ScopeEffect(Here)
        /\ Len(stack') \in Nat /\ Len(stack') <= Len(stack) + StackEffect(Here)
    BY <1>3, <2>1, BoundsAssumption DEF Sound, TypeOK, PrintValue
  <2>. QED  BY <1>1, <2>1, <2>2, FallPlaced DEF PrintValue
<1>7. FreshScopes'
  BY <1>1, FreshStep DEF PrintValue
<1>. QED  BY <1>1, <1>5, <1>6, <1>7, PlainStep DEF PrintValue, Sound

-----------------------------------------------------------------------------
(* Scopes and variables *)

LEMMA EnterScopeStep ==
  ASSUME Sound, EnterScope
  PROVE  Sound'
<1>1. Running /\ Here.op = "OP_ENTER_SCOPE" /\ Here.op \in ScopeOps
  BY DEF EnterScope, At, ScopeOps
<1>2. NextIp \in Nat /\ scopeLevel \in Nat /\ StackMax \in Nat
  BY <1>1, LocalFacts, BoundsAssumption DEF Sound, TypeOK
<1>3. TypeOK'
  BY <1>2 DEF Sound, TypeOK, EnterScope
<1>4. Placed'
  <2>1. FallsThrough(Here) /\ ScopeEffect(Here) = 1 /\ StackEffect(Here) = 0
    BY <1>1, Effects
  <2>2. Len(stack') \in Nat /\ Len(stack') <= Len(stack) + StackEffect(Here)
    BY <2>1, StackFacts DEF Sound, EnterScope
  <2>3. scopeLevel' = scopeLevel + ScopeEffect(Here)
    BY <2>1 DEF EnterScope
  <2>. QED  BY <1>1, <2>1, <2>2, <2>3, FallPlaced DEF EnterScope
<1>5. FreshScopes'
  <2>1. ASSUME NEW l \in scopeLevel + 2 .. StackMax - 1
        PROVE  tables[l] = EmptyTable
    BY <1>2 DEF Sound, FreshScopes
  <2>. QED  BY <1>2, <2>1 DEF FreshScopes, EmptyTable, EnterScope
<1>. QED  BY <1>1, <1>3, <1>4, <1>5, PlainStep DEF EnterScope, Sound

\* The check for the top-level scope never fires: the level is at least one here.
LEMMA ExitScopeStep ==
  ASSUME Sound, ExitScope
  PROVE  Sound' /\ scopeLevel # 0
<1>1. Running /\ Here.op = "OP_EXIT_SCOPE" /\ Here.op \in ScopeOps
  BY DEF ExitScope, At, ScopeOps
<1>2. NextIp \in Nat /\ scopeLevel \in Nat /\ StackMax \in Nat
  BY <1>1, LocalFacts, BoundsAssumption DEF Sound, TypeOK
<1>3. scopeLevel # 0
  <2>1. Levels(chunk)[ip] >= 1 /\ Levels(chunk)[ip] \in Nat
    BY <1>1, LocalFacts, ScopesHere DEF Sound
  <2>2. bases[Len(bases)] \in Nat
    BY DEF Sound, TypeOK
  <2>. QED  BY <1>1, <1>2, <2>1, <2>2 DEF Sound, Placed
<1>4. /\ tables' = [tables EXCEPT ![scopeLevel] = EmptyTable]
      /\ scopeLevel' = scopeLevel - 1
      /\ ip' = NextIp
      /\ UNCHANGED <<mode, chunk, stack, functions, callStack, status, output, lines,
                     bases, mixed>>
  BY <1>3 DEF ExitScope
<1>5. TypeOK'
  <2>1. IsTable(EmptyTable)
    BY DEF IsTable, EmptyTable
  <2>2. \A l \in 0 .. StackMax - 1 : IsTable(tables'[l])
    BY <1>4, <2>1 DEF Sound, TypeOK
  <2>. QED  BY <1>2, <1>3, <1>4, <2>2 DEF Sound, TypeOK
<1>6. Placed'
  <2>1. FallsThrough(Here) /\ ScopeEffect(Here) = -1 /\ StackEffect(Here) = 0
    BY <1>1, Effects
  <2>2. Len(stack') \in Nat /\ Len(stack') <= Len(stack) + StackEffect(Here)
    BY <1>4, <2>1, StackFacts DEF Sound
  <2>3. scopeLevel' = scopeLevel + ScopeEffect(Here)
    BY <1>2, <1>4, <2>1
  <2>. QED  BY <1>1, <1>4, <2>1, <2>2, <2>3, FallPlaced
<1>7. FreshScopes'
  <2>1. ASSUME NEW l \in scopeLevel + 1 .. StackMax - 1
        PROVE  tables[l] = EmptyTable
    BY <1>1, TablesAboveEmpty DEF Sound
  <2>2. ASSUME NEW l \in scopeLevel .. StackMax - 1
        PROVE  tables'[l] = EmptyTable
    BY <1>2, <1>4, <2>1 DEF Sound, TypeOK
  <2>3. scopeLevel' + 1 = scopeLevel
    BY <1>2, <1>4
  <2>. QED  BY <2>2, <2>3 DEF FreshScopes, EmptyTable
<1>. QED  BY <1>1, <1>3, <1>4, <1>5, <1>6, <1>7, PlainStep DEF Sound

\* Writing a variable of an open scope leaves the tables above alone.
LEMMA WriteTable ==
  ASSUME Sound, Running, Here.op # "OP_ENTER_SCOPE",
         NEW level \in 0 .. scopeLevel, NEW v \in Value,
         tables' = [tables EXCEPT ![level] = Bind(@, Here.name, v)],
         UNCHANGED scopeLevel
  PROVE  /\ DOMAIN tables' = 0 .. StackMax - 1
         /\ \A l \in 0 .. StackMax - 1 : IsTable(tables'[l])
         /\ FreshScopes'
<1>1. scopeLevel \in Nat /\ scopeLevel < StackMax /\ StackMax \in Nat
  BY BoundsAssumption DEF Sound, TypeOK
<1>2. Here.name \in Names
  BY LocalFacts DEF Sound, Instruction
<1>3. /\ DOMAIN tables = 0 .. StackMax - 1
      /\ \A l \in 0 .. StackMax - 1 : IsTable(tables[l])
  BY DEF Sound, TypeOK
<1>4. IsTable(Bind(tables[level], Here.name, v))
  <2>1. IsTable(tables[level])
    BY <1>1, <1>3
  <2>. QED  BY <1>2, <2>1, BindType
<1>5. ASSUME NEW l \in scopeLevel + 1 .. StackMax - 1
      PROVE  tables'[l] = EmptyTable
  <2>1. tables[l] = EmptyTable
    BY TablesAboveEmpty DEF Sound
  <2>. QED  BY <1>1, <1>3, <2>1
<1>. QED  BY <1>1, <1>3, <1>4, <1>5 DEF FreshScopes, EmptyTable

LEMMA DefVariableStep ==
  ASSUME Sound, DefVariable
  PROVE  Sound'
<1>1. Running /\ Here.op = "OP_DEF_VARIABLE"
  BY DEF DefVariable, At
<1>2. NextIp \in Nat /\ scopeLevel \in 0 .. scopeLevel
  BY <1>1, LocalFacts, BoundsAssumption DEF Sound, TypeOK
<1>3. /\ DOMAIN tables' = 0 .. StackMax - 1
      /\ \A l \in 0 .. StackMax - 1 : IsTable(tables'[l])
      /\ FreshScopes'
  BY <1>1, <1>2, WriteTable, ConstructorTypes DEF DefVariable
<1>4. TypeOK'
  BY <1>2, <1>3 DEF Sound, TypeOK, DefVariable
<1>5. Placed'
  <2>1. FallsThrough(Here) /\ ScopeEffect(Here) = 0 /\ StackEffect(Here) = 0
    BY <1>1, Effects
  <2>2. /\ scopeLevel' = scopeLevel + ScopeEffect(Here)
        /\ Len(stack') \in Nat /\ Len(stack') <= Len(stack) + StackEffect(Here)
    BY <1>2, <2>1, StackFacts DEF Sound, DefVariable
  <2>. QED  BY <1>1, <2>1, <2>2, FallPlaced DEF DefVariable
<1>. QED  BY <1>1, <1>3, <1>4, <1>5, PlainStep DEF DefVariable, Sound

LEMMA SetVariableStep ==
  ASSUME Sound, SetVariable
  PROVE  Sound'
<1>1. Running /\ Here.op = "OP_SET_VARIABLE" /\ Here.op \in ConsumerOps /\ Len(stack) >= 1
  BY Effects DEF SetVariable, At, Operands, ConsumerOps
<1>2. NextIp \in Nat /\ scopeLevel \in Nat
  BY <1>1, LocalFacts, BoundsAssumption DEF Sound, TypeOK
<1>3. /\ stack' \in Seq(Value)
      /\ Len(stack') = Len(stack) - 1
      /\ Len(stack) \in Nat
      /\ Top \in Value
  BY <1>1, StackFacts DEF Sound, SetVariable
<1>4. AssignedLevel(Here.name) \in 0 .. scopeLevel
  BY AssignedLevelType DEF Sound
<1>5. /\ DOMAIN tables' = 0 .. StackMax - 1
      /\ \A l \in 0 .. StackMax - 1 : IsTable(tables'[l])
      /\ FreshScopes'
  BY <1>1, <1>3, <1>4, WriteTable DEF SetVariable
<1>6. TypeOK'
  BY <1>2, <1>3, <1>5, BoundsAssumption DEF Sound, TypeOK, SetVariable
<1>7. Placed'
  <2>1. FallsThrough(Here) /\ ScopeEffect(Here) = 0 /\ StackEffect(Here) = -1
    BY <1>1, Effects
  <2>2. /\ scopeLevel' = scopeLevel + ScopeEffect(Here)
        /\ Len(stack') \in Nat /\ Len(stack') <= Len(stack) + StackEffect(Here)
    BY <1>2, <1>3, <2>1 DEF SetVariable
  <2>. QED  BY <1>1, <2>1, <2>2, FallPlaced DEF SetVariable
<1>. QED  BY <1>1, <1>5, <1>6, <1>7, PlainStep DEF SetVariable, Sound

-----------------------------------------------------------------------------
(* Jumps *)

\* A taken jump keeps scopes and stack in line with the code.
LEMMA JumpPlaced ==
  ASSUME Sound, Running, Here.op \in JumpOps, ip' = JumpTarget(ip, Here),
         UNCHANGED <<chunk, bases, status, scopeLevel>>,
         Len(stack') \in Nat, Len(stack') <= Len(stack) + StackEffect(Here)
  PROVE  Placed' /\ ip' \in Nat
<1>1. /\ ip' \in Starts(chunk)
      /\ Levels(chunk)[ip'] = Levels(chunk)[ip]
      /\ Room(chunk)[ip] + StackEffect(Here) <= Room(chunk)[ip']
  BY JumpLands DEF Sound
<1>2. /\ Room(chunk)[ip] \in Nat /\ Room(chunk)[ip'] \in Nat
      /\ Len(stack) \in Nat /\ StackEffect(Here) \in Int /\ ip' \in Nat
  BY <1>1, LocalFacts, StackFacts DEF Sound, StackEffect
<1>3. /\ Deliverable(chunk)
      /\ scopeLevel = bases[Len(bases)] + Levels(chunk)[ip]
      /\ Len(stack) <= Room(chunk)[ip]
  BY DEF Placed, Sound
<1>4. Len(stack') <= Room(chunk)[ip']
  BY <1>1, <1>2, <1>3
<1>. QED  BY <1>1, <1>2, <1>3, <1>4 DEF Placed

LEMMA JumpStep ==
  ASSUME Sound, Jump
  PROVE  Sound'
<1>1. Running /\ Here.op \in {"OP_JUMP", "OP_LOOP"} /\ Here.op \in JumpOps
  BY DEF Jump, At, JumpOps
<1>2. Len(stack') \in Nat /\ Len(stack') <= Len(stack) + StackEffect(Here)
  BY <1>1, Effects, StackFacts DEF Sound, Jump
<1>3. Placed' /\ ip' \in Nat
  BY <1>1, <1>2, JumpPlaced DEF Jump
<1>4. TypeOK'
  BY <1>3 DEF Sound, TypeOK, Jump
<1>5. FreshScopes'
  BY <1>1, FreshStep DEF Jump
<1>. QED  BY <1>1, <1>3, <1>4, <1>5, PlainStep DEF Jump, Sound

LEMMA JumpIfFalseStep ==
  ASSUME Sound, JumpIfFalse
  PROVE  Sound'
<1>1. /\ Running /\ Here.op = "OP_JUMP_IF_FALSE" /\ Len(stack) >= 1
      /\ Here.op \in JumpOps /\ Here.op \in ConsumerOps
  BY Effects DEF JumpIfFalse, At, Operands, JumpOps, ConsumerOps
<1>2. /\ FallsThrough(Here) /\ ScopeEffect(Here) = 0 /\ StackEffect(Here) = -1
      /\ scopeLevel \in Nat
  BY <1>1, Effects, BoundsAssumption DEF Sound, TypeOK
<1>3. /\ stack' \in Seq(Value)
      /\ Len(stack') \in Nat /\ Len(stack') <= Len(stack) + StackEffect(Here)
      /\ Len(stack') <= StackMax
  <2>1. /\ stack' \in Seq(Value)
        /\ Len(stack') = Len(stack) - 1
        /\ Len(stack) \in Nat
    BY <1>1, StackFacts DEF Sound, JumpIfFalse
  <2>. QED  BY <1>2, <2>1, BoundsAssumption DEF Sound, TypeOK
<1>4. Placed' /\ ip' \in Nat
  <2>1. CASE ip' = NextIp
    <3>1. scopeLevel' = scopeLevel + ScopeEffect(Here)
      BY <1>2 DEF JumpIfFalse
    <3>2. NextIp \in Nat
      BY <1>1, LocalFacts DEF Sound
    <3>. QED  BY <1>1, <1>2, <1>3, <2>1, <3>1, <3>2, FallPlaced DEF JumpIfFalse
  <2>2. CASE ip' = JumpTarget(ip, Here)
    BY <1>1, <1>3, <2>2, JumpPlaced DEF JumpIfFalse
  <2>. QED  BY <2>1, <2>2 DEF JumpIfFalse
<1>5. TypeOK'
  BY <1>3, <1>4 DEF Sound, TypeOK, JumpIfFalse
<1>6. FreshScopes'
  BY <1>1, FreshStep DEF JumpIfFalse
<1>. QED  BY <1>1, <1>4, <1>5, <1>6, PlainStep DEF JumpIfFalse, Sound

-----------------------------------------------------------------------------
(* Functions *)

LEMMA DecFunctionStep ==
  ASSUME Sound, DecFunction
  PROVE  Sound'
<1>. DEFINE f == [name |-> Here.name, params |-> Here.params,
                  start |-> FunctionStart(ip, Here), line |-> lines]
<1>1. Running /\ Here.op = "OP_DEC_FUNCTION" /\ ip \in Starts(chunk)
  BY DEF DecFunction, At
<1>2. /\ AfterBody(ip, Here) \in Starts(chunk)
      /\ Levels(chunk)[AfterBody(ip, Here)] = Levels(chunk)[ip]
      /\ Room(chunk)[ip] <= Room(chunk)[AfterBody(ip, Here)]
      /\ FunctionStart(ip, Here) \in Nat
      /\ AfterBody(ip, Here) \in Nat
      /\ Room(chunk)[ip] \in Nat /\ Room(chunk)[AfterBody(ip, Here)] \in Nat
  <2>1. /\ AfterBody(ip, Here) \in Starts(chunk) /\ FunctionStart(ip, Here) \in Starts(chunk)
        /\ Levels(chunk)[AfterBody(ip, Here)] = Levels(chunk)[ip] + 0
    BY <1>1, ScopesHere DEF Sound
  <2>2. Levels(chunk)[ip] \in Nat /\ Room(chunk)[ip] <= Room(chunk)[AfterBody(ip, Here)]
    BY <1>1, LocalFacts, RoomHere DEF Sound
  <2>. QED  BY <1>1, <2>1, <2>2, LocalFacts DEF Sound
<1>3. /\ f \in Function
      /\ functions \in Seq(Function)
  <2>1. Here \in Instruction(Names)
    BY <1>1, LocalFacts DEF Sound
  <2>2. Here.name \in Names /\ Here.params \in Seq(Names)
    BY <2>1 DEF Instruction
  <2>3. lines \in Nat /\ functions \in Seq(Function)
    BY DEF Sound, TypeOK
  <2>4. FunctionStart(ip, Here) \in Nat
    BY <1>2
  <2>. QED  BY <2>2, <2>3, <2>4 DEF Function
<1>4. /\ functions' \in Seq(Function)
      /\ Len(functions') = Len(functions) + 1
      /\ \A k \in 1 .. Len(functions) : functions'[k] = functions[k]
      /\ functions'[Len(functions) + 1] = f
      /\ Len(functions) \in Nat
  <2>. HIDE DEF f
  <2>. QED  BY <1>3, AppendProperties DEF DecFunction, f
<1>5. TypeOK'
  BY <1>2, <1>4 DEF Sound, TypeOK, DecFunction
<1>6. Placed'
  <2>1. Len(stack) <= Room(chunk)[AfterBody(ip, Here)]
    <3>1. Len(stack) <= Room(chunk)[ip] /\ Len(stack) \in Nat
      BY <1>1, StackFacts DEF Sound, Placed
    <3>. QED  BY <1>2, <3>1
  <2>. QED  BY <1>1, <1>2, <2>1 DEF Sound, Placed, DecFunction, Running
<1>7. FramesPlaced'
  BY <1>1 DEF Sound, FramesPlaced, DecFunction, Running
<1>8. FunctionsDeclared'
  <2>1. ip \in Headers(chunk) /\ Declares(ip, f)
    BY <1>1 DEF Headers, Declares, Here
  <2>2. ASSUME NEW k \in 1 .. Len(functions), functions[k].line = lines
        PROVE  \E h \in Headers(chunk) : Declares(h, functions[k])
    BY <1>1, <2>2 DEF Sound, FunctionsDeclared
  <2>3. ASSUME NEW k \in 1 .. Len(functions'), functions'[k].line = lines'
        PROVE  \E h \in Headers(chunk) : Declares(h, functions'[k])
    <3>1. CASE k = Len(functions) + 1
      BY <1>4, <2>1, <3>1
    <3>2. CASE k \in 1 .. Len(functions)
      BY <1>4, <2>2, <2>3, <3>2 DEF DecFunction
    <3>. QED  BY <1>4, <3>1, <3>2
  <2>. QED  BY <2>3 DEF FunctionsDeclared, Declares, DecFunction
<1>9. Quiet'
  <2>1. lines' = lines /\ status' = "running" /\ lines \in Nat
    BY <1>1, BoundsAssumption DEF DecFunction, Running, Sound, TypeOK
  <2>2. ASSUME NEW k \in 1 .. Len(functions')
        PROVE  functions'[k].line <= lines'
    <3>1. CASE k = Len(functions) + 1
      BY <1>4, <2>1, <3>1
    <3>2. CASE k \in 1 .. Len(functions)
      BY <1>4, <2>1, <3>2 DEF Sound, Quiet, FunctionsDated
    <3>. QED  BY <1>4, <3>1, <3>2
  <2>. QED  BY <2>1, <2>2 DEF Quiet, FunctionsDated
<1>10. status' # "exit"
  BY <1>1 DEF DecFunction, Running
<1>11. FreshScopes'
  BY <1>1, FreshStep DEF DecFunction
<1>. QED  BY <1>5, <1>6, <1>7, <1>8, <1>9, <1>10, <1>11 DEF Sound

\* The arguments of a call are value instructions of the chunk.
LEMMA ArgumentType ==
  ASSUME Sound, NEW n, InlineArguments(chunk, NextIp, n), NEW x \in 1 .. n
  PROVE  Argument(x) \in Instruction(Names) /\ Argument(x).op \in ValueOps
<1>1. /\ ArgumentAt(chunk, NextIp, x) \in Starts(chunk)
      /\ chunk.code[ArgumentAt(chunk, NextIp, x)].op \in ValueOps
  BY DEF InlineArguments
<1>2. TypedChunk(chunk)
  BY DEF Sound, TypeOK
<1>. QED  BY <1>1, <1>2 DEF Argument, TypedChunk

\* Where all arguments are there, the first of them are.
LEMMA ArgumentsBefore ==
  ASSUME Sound, Running, NEW n \in Nat, InlineArguments(chunk, NextIp, n), NEW x \in 1 .. n
  PROVE  InlineArguments(chunk, NextIp, x)
<1>. DEFINE m == Cardinality({q \in Starts(chunk) : q >= NextIp})
<1>1. m >= n
  BY DEF InlineArguments<1>2. m \in Nat
  <2>1. Starts(chunk) \subseteq 0 .. chunk.size - 1 /\ chunk.size \in Nat
    BY DEF Sound, TypeOK, TypedChunk
  <2>2. IsFiniteSet(0 .. chunk.size - 1)
    BY <2>1, FS_Interval, SMTT(40)
  <2>3. IsFiniteSet({q \in Starts(chunk) : q >= NextIp})
    <3>1. {q \in Starts(chunk) : q >= NextIp} \subseteq 0 .. chunk.size - 1
      BY <2>1
    <3>. QED  BY <2>2, <3>1, FS_Subset
  <2>. QED  BY <2>3, FS_CardinalityType
<1>3. m >= x /\ \A y \in 1 .. x : y \in 1 .. n
  <2>. HIDE DEF m
  <2>. QED  BY <1>1, <1>2
<1>. QED  BY <1>3 DEF InlineArguments

LEMMA FunctionCallStep ==
  ASSUME Sound, FunctionCall
  PROVE  Sound'
<1>1. Running /\ Here.op = "OP_FUNCTION_CALL" /\ ip \in Starts(chunk)
  BY DEF FunctionCall, At
<1>2. PICK k \in Scan(Here.name) :
        LET f == functions[k]
            arity == Len(f.params)
            Last(n) == CHOOSE x \in 1 .. arity :
                         f.params[x] = n /\ \A y \in x + 1 .. arity : f.params[y] # n
        IN  /\ f.line = lines
            /\ ~CallOverflows(f)
            /\ Supplied(f)
            /\ ~Unset(f)
            /\ tables' = [tables EXCEPT ![scopeLevel + 1] =
                 [n \in {f.params[x] : x \in 1 .. arity} |-> ValueOf(Argument(Last(n)))]]
            /\ ip' = f.start
  BY DEF FunctionCall
<1>. DEFINE f == functions[k]
            arity == Len(f.params)
            Last(n) == CHOOSE x \in 1 .. arity :
                         f.params[x] = n /\ \A y \in x + 1 .. arity : f.params[y] # n
            t == [n \in {f.params[x] : x \in 1 .. arity} |-> ValueOf(Argument(Last(n)))]
<1>3. k \in 1 .. Len(functions) /\ f.line = lines /\ f.name = Here.name /\ ip' = f.start
  BY <1>2 DEF Scan
<1>4. /\ scopeLevel \in Nat /\ StackMax \in Nat /\ scopeLevel + 1 < StackMax
      /\ Len(callStack) \in Nat /\ Len(callStack) < StackMax
      /\ Len(bases) = Len(callStack) + 1
      /\ bases \in Seq(Nat) /\ callStack \in Seq(Nat)
  BY <1>2, BoundsAssumption DEF Sound, TypeOK, CallOverflows
<1>5. /\ NextIp \in Starts(chunk) /\ NextIp \in Nat
      /\ Levels(chunk)[NextIp] = Levels(chunk)[ip]
      /\ Levels(chunk)[ip] \in Nat
  <2>1. FallsThrough(Here) /\ ScopeEffect(Here) = 0
    BY <1>1, Effects
  <2>2. Levels(chunk)[ip] \in Nat /\ NextIp \in Nat
    BY <1>1, LocalFacts DEF Sound
  <2>3. /\ NextIp \in Starts(chunk)
        /\ Levels(chunk)[NextIp] = Levels(chunk)[ip] + 0
    BY <1>1, <2>1, FallThrough DEF Sound
  <2>. QED  BY <2>2, <2>3
<1>6. stack = <<>>
  BY <1>1, StackIsEmpty DEF Sound
<1>7. /\ f.start \in Starts(chunk) /\ f.start \in Nat
      /\ Levels(chunk)[f.start] = 0
      /\ Room(chunk)[f.start] \in Nat
  BY <1>1, <1>3, FunctionEntry, LocalFacts DEF Sound
<1>8. /\ callStack' \in Seq(Nat) /\ bases' \in Seq(Nat)
      /\ Len(callStack') = Len(callStack) + 1 /\ Len(bases') = Len(bases) + 1
      /\ \A j \in 1 .. Len(callStack) : callStack'[j] = callStack[j]
      /\ \A j \in 1 .. Len(bases) : bases'[j] = bases[j]
      /\ callStack'[Len(callStack) + 1] = NextIp
      /\ bases'[Len(bases) + 1] = scopeLevel
  BY <1>4, <1>5, AppendProperties DEF FunctionCall, ResumeAddress
<1>9. tables' = [tables EXCEPT ![scopeLevel + 1] = t]
  BY <1>2
<1>10. IsTable(t)
  <2>1. f \in Function
    BY <1>3 DEF Sound, TypeOK
  <2>2. f.params \in Seq(Names) /\ arity \in Nat
    BY <2>1 DEF Function
  <2>3. {f.params[x] : x \in 1 .. arity} \subseteq Names
    BY <2>2
  <2>4. ASSUME NEW n \in {f.params[x] : x \in 1 .. arity}
        PROVE  ValueOf(Argument(Last(n))) \in Value
    <3>1. Last(n) \in 1 .. arity
      <4>. DEFINE S == {x \in 1 .. arity : f.params[x] = n}
      <4>1. S \in SUBSET (0 .. arity) /\ S # {}
        BY <2>2
      <4>2. Highest(S) \in S /\ \A x \in S : x <= Highest(S)
        BY <2>2, <4>1, HighestExists
      <4>3. \A y \in Highest(S) + 1 .. arity : f.params[y] # n
        <5>1. SUFFICES ASSUME NEW y \in Highest(S) + 1 .. arity, f.params[y] = n
                       PROVE  FALSE
          OBVIOUS
        <5>2. Highest(S) \in 1 .. arity
          BY <4>2
        <5>3. y \in S /\ y > Highest(S)
          BY <2>2, <5>1, <5>2
        <5>. QED  BY <2>2, <4>2, <5>2, <5>3
      <4>4. \E x \in 1 .. arity : f.params[x] = n /\ \A y \in x + 1 .. arity : f.params[y] # n
        BY <4>2, <4>3
      <4>. HIDE DEF S
      <4>. QED  BY <4>4
    <3>. HIDE DEF Last
    <3>2. InlineArguments(chunk, NextIp, Last(n))
      BY <1>1, <1>2, <2>2, <3>1, ArgumentsBefore DEF Supplied
    <3>3. ~Undefined(Argument(Last(n)))
      BY <1>2, <3>1, <3>2 DEF Unset
    <3>4. Argument(Last(n)) \in Instruction(Names) /\ Argument(Last(n)).op \in ValueOps
      <4>1. Last(n) \in 1 .. Last(n)
        BY <3>1
      <4>. QED  BY <3>2, <4>1, ArgumentType
    <3>. QED  BY <3>3, <3>4, ValueOfType DEF Sound
  <2>. QED  BY <2>3, <2>4 DEF IsTable
<1>. HIDE DEF f, t
<1>11. TypeOK'
  <2>1. /\ DOMAIN tables = 0 .. StackMax - 1
        /\ \A l \in 0 .. StackMax - 1 : IsTable(tables[l])
    BY DEF Sound, TypeOK
  <2>2. /\ DOMAIN tables' = 0 .. StackMax - 1
        /\ \A l \in 0 .. StackMax - 1 : IsTable(tables'[l])
    BY <1>4, <1>9, <1>10, <2>1
  <2>3. /\ Len(callStack') <= StackMax
        /\ Len(bases') = Len(callStack') + 1
        /\ ip' \in Nat
    BY <1>3, <1>4, <1>7, <1>8
  <2>4. UNCHANGED <<mode, chunk, stack, scopeLevel, functions, status, output, lines, mixed>>
    BY DEF FunctionCall
  <2>. QED  BY <1>8, <2>2, <2>3, <2>4 DEF Sound, TypeOK
<1>12. Placed'
  <2>1. bases'[Len(bases')] = scopeLevel
    BY <1>8
  <2>2. Deliverable(chunk)
    BY <1>1 DEF Sound, Placed
  <2>3. scopeLevel = scopeLevel + 0 /\ Len(stack) <= Room(chunk)[f.start]
    BY <1>4, <1>6, <1>7
  <2>. QED  BY <1>3, <1>7, <2>1, <2>2, <2>3 DEF Placed, FunctionCall
<1>13. FramesPlaced'
  <2>1. ASSUME NEW j \in 1 .. Len(callStack')
        PROVE  /\ callStack'[j] \in Starts(chunk)
               /\ bases'[j + 1] = bases'[j] + Levels(chunk)[callStack'[j]]
    <3>1. CASE j \in 1 .. Len(callStack)
      <4>1. /\ callStack[j] \in Starts(chunk)
            /\ bases[j + 1] = bases[j] + Levels(chunk)[callStack[j]]
        BY <1>1, <3>1 DEF Sound, FramesPlaced
      <4>2. j \in 1 .. Len(bases) /\ j + 1 \in 1 .. Len(bases)
        BY <1>4, <3>1
      <4>. QED  BY <1>8, <3>1, <4>1, <4>2
    <3>2. CASE j = Len(callStack) + 1
      <4>1. scopeLevel = bases[Len(bases)] + Levels(chunk)[ip]
        BY <1>1 DEF Sound, Placed
      <4>2. j = Len(bases) /\ j \in 1 .. Len(bases)
        BY <1>4, <3>2
      <4>3. bases'[j + 1] = scopeLevel /\ bases'[j] = bases[Len(bases)]
        BY <1>8, <4>2
      <4>4. callStack'[j] = NextIp
        BY <1>8, <3>2
      <4>. QED  BY <1>5, <4>1, <4>3, <4>4
    <3>. QED  BY <1>4, <1>8, <3>1, <3>2
  <2>2. bases'[1] = 0
    BY <1>4, <1>8, SMTT(40) DEF Sound, FramesPlaced
  <2>. QED  BY <2>1, <2>2 DEF FramesPlaced, FunctionCall
<1>14. FunctionsDeclared'
  BY <1>1 DEF Sound, FunctionsDeclared, Declares, FunctionCall, Running
<1>15. Quiet'
  BY <1>1 DEF Sound, Quiet, FunctionsDated, FunctionCall, Running
<1>16. status' # "exit"
  BY <1>1 DEF FunctionCall, Running
<1>17. FreshScopes'
  <2>1. ASSUME NEW l \in scopeLevel + 1 .. StackMax - 1, l # scopeLevel + 1
        PROVE  tables'[l] = EmptyTable
    <3>1. tables[l] = EmptyTable
      BY <1>1, TablesAboveEmpty DEF Sound
    <3>. QED  BY <1>4, <1>9, <2>1, <3>1 DEF Sound, TypeOK
  <2>2. functions[k].line = lines /\ ip' = functions[k].start /\ k \in 1 .. Len(functions)
    BY <1>3 DEF f
  <2>. QED  BY <1>1, <2>1, <2>2 DEF FreshScopes, EmptyTable, FunctionCall, Running
<1>. QED  BY <1>11, <1>12, <1>13, <1>14, <1>15, <1>16, <1>17 DEF Sound

\* The beginning of a sequence of addresses.
LEMMA Prefix ==
  ASSUME NEW s \in Seq(Nat), NEW m \in Nat, m <= Len(s)
  PROVE  /\ SubSeq(s, 1, m) \in Seq(Nat) /\ Len(SubSeq(s, 1, m)) = m
         /\ \A j \in 1 .. m : SubSeq(s, 1, m)[j] = s[j]
<1>1. Len(s) \in Nat
  BY LenProperties
<1>2. \A j \in 1 .. m : s[j] \in Nat
  BY <1>1, ElementOfSeq
<1>3. 1 <= m => m - 1 + 1 = m
  OBVIOUS
<1>4. /\ SubSeq(s, 1, m) \in Seq(Nat)
      /\ Len(SubSeq(s, 1, m)) = IF 1 <= m THEN m - 1 + 1 ELSE 0
      /\ \A j \in 1 .. m - 1 + 1 : SubSeq(s, 1, m)[j] = s[1 + j - 1]
  BY <1>2, SubSeqProperties
<1>. QED  BY <1>3, <1>4

\* Returning reinstates the statement of the caller and the scope it was in.
LEMMA ReturnToCallerStep ==
  ASSUME Sound, ReturnToCaller
  PROVE  Sound'
<1>. DEFINE n == Len(callStack)
<1>1. /\ Running /\ Here.op = "OP_RETURN" /\ ip \in Starts(chunk)
      /\ callStack # <<>>
      /\ ip' = callStack[n]
      /\ UNCHANGED <<mode, chunk, stack, tables, scopeLevel, functions, status, output,
                     lines, mixed>>
  BY DEF ReturnToCaller, At
<1>2. /\ n \in Nat \ {0} /\ n <= StackMax /\ n = Len(callStack) /\ StackMax \in Nat
      /\ Len(bases) = n + 1
      /\ bases \in Seq(Nat) /\ callStack \in Seq(Nat)
      /\ callStack[n] \in Nat /\ bases[n] \in Nat /\ bases[n + 1] \in Nat
      /\ scopeLevel \in Nat
  BY <1>1, BoundsAssumption, SMTT(40) DEF Sound, TypeOK
<1>. HIDE DEF n
<1>3. /\ callStack' \in Seq(Nat) /\ Len(callStack') = n - 1
      /\ \A j \in 1 .. n - 1 : callStack'[j] = callStack[j]
      /\ bases' \in Seq(Nat) /\ Len(bases') = n
      /\ \A j \in 1 .. n : bases'[j] = bases[j]
  <2>1. callStack' = SubSeq(callStack, 1, n - 1)
    BY <1>2 DEF ReturnToCaller
  <2>2. bases' = SubSeq(bases, 1, n)
    BY <1>2 DEF ReturnToCaller
  <2>3. /\ n - 1 \in Nat /\ n - 1 <= Len(callStack)
        /\ n \in Nat /\ n <= Len(bases)
    BY <1>2
  <2>. QED  BY <1>2, <2>1, <2>2, <2>3, Prefix, SMTT(40)
<1>4. Levels(chunk)[ip] = 0
  BY <1>1, ScopesHere DEF Sound
<1>5. stack = <<>>
  BY <1>1, StackIsEmpty DEF Sound
<1>6. /\ callStack[n] \in Starts(chunk)
      /\ bases[n + 1] = bases[n] + Levels(chunk)[callStack[n]]
      /\ Room(chunk)[callStack[n]] \in Nat
  <2>1. /\ callStack[n] \in Starts(chunk)
        /\ bases[n + 1] = bases[n] + Levels(chunk)[callStack[n]]
    BY <1>1, <1>2 DEF Sound, FramesPlaced
  <2>. QED  BY <1>1, <2>1, LocalFacts DEF Sound
<1>7. TypeOK'
  BY <1>1, <1>2, <1>3 DEF Sound, TypeOK
<1>8. Placed'
  <2>1. scopeLevel = bases[n + 1] + 0 /\ Deliverable(chunk)
    BY <1>1, <1>2, <1>4 DEF Sound, Placed
  <2>2. bases'[Len(bases')] = bases[n]
    BY <1>2, <1>3, SMTT(40)
  <2>3. scopeLevel = bases[n] + Levels(chunk)[callStack[n]]
    BY <1>2, <1>6, <2>1
  <2>4. Len(stack) <= Room(chunk)[callStack[n]]
    BY <1>5, <1>6
  <2>. QED  BY <1>1, <1>6, <2>1, <2>2, <2>3, <2>4 DEF Placed
<1>9. FramesPlaced'
  <2>1. bases'[1] = 0
    BY <1>2, <1>3, SMTT(40) DEF Sound, FramesPlaced
  <2>2. ASSUME NEW j \in 1 .. Len(callStack')
        PROVE  /\ callStack'[j] \in Starts(chunk)
               /\ bases'[j + 1] = bases'[j] + Levels(chunk)[callStack'[j]]
    <3>1. j \in 1 .. n /\ j \in 1 .. n - 1 /\ j + 1 \in 1 .. n
      BY <1>2, <1>3
    <3>2. /\ callStack[j] \in Starts(chunk)
          /\ bases[j + 1] = bases[j] + Levels(chunk)[callStack[j]]
      BY <1>1, <1>2, <3>1 DEF Sound, FramesPlaced
    <3>. QED  BY <1>3, <3>1, <3>2
  <2>. QED  BY <1>1, <2>1, <2>2 DEF FramesPlaced
<1>10. FunctionsDeclared' /\ Quiet' /\ status' # "exit"
  BY <1>1 DEF Sound, FunctionsDeclared, Declares, Quiet, FunctionsDated, Running
<1>11. FreshScopes'
  BY <1>1, FreshStep
<1>. QED  BY <1>7, <1>8, <1>9, <1>10, <1>11 DEF Sound

\* A program that ends leaves the machine as it found it.
LEMMA FinishStep ==
  ASSUME Sound, Finish
  PROVE  Sound'
<1>1. /\ Running /\ Here.op = "OP_RETURN" /\ ip \in Starts(chunk)
      /\ callStack = <<>>
      /\ status' = "ok" /\ ~Running'
      /\ UNCHANGED <<mode, chunk, ip, stack, tables, scopeLevel, functions, callStack,
                     output, lines, bases, mixed>>
  BY DEF Finish, At, Running
<1>2. Levels(chunk)[ip] = 0
  BY <1>1, ScopesHere DEF Sound
<1>3. stack = <<>>
  BY <1>1, StackIsEmpty DEF Sound
<1>5. TypeOK'
  BY <1>1 DEF Sound, TypeOK, Status
<1>6. scopeLevel = 0
  <2>1. Len(bases) = 1 /\ bases[1] = 0
    BY <1>1 DEF Sound, TypeOK, FramesPlaced
  <2>2. scopeLevel = bases[Len(bases)] + 0
    BY <1>1, <1>2 DEF Sound, Placed
  <2>. QED  BY <2>1, <2>2
<1>7. Placed' /\ FramesPlaced' /\ FunctionsDeclared'
  BY <1>1 DEF Sound, Placed, FramesPlaced, FunctionsDeclared
<1>8. Quiet'
  BY <1>1, <1>3, <1>6 DEF Sound, Quiet, FunctionsDated
<1>9. status' # "exit"
  BY <1>1
<1>10. FreshScopes'
  <2>1. \A l \in scopeLevel + 1 .. StackMax - 1 : tables[l] = EmptyTable
    BY <1>1, TablesAboveEmpty DEF Sound
  <2>. QED  BY <1>1, <2>1 DEF FreshScopes, EmptyTable
<1>. QED  BY <1>5, <1>7, <1>8, <1>9, <1>10 DEF Sound

-----------------------------------------------------------------------------
(* Faults, the next line, and rest *)

LEMMA FaultStep ==
  ASSUME Sound, Running, NEW f \in Faults \ {"exit"}, Fault(f),
         Here.op # "OP_ENTER_SCOPE" \/ scopeLevel + 1 = StackMax
  PROVE  Sound'
<1>1. /\ status' = f /\ ~Running' /\ f \notin {"idle", "running", "ok"} /\ f # "exit"
      /\ f \in Status
      /\ UNCHANGED <<mode, chunk, ip, stack, tables, scopeLevel, functions, callStack,
                     output, lines, bases, mixed>>
  BY DEF Fault, Running, Faults, Status
<1>2. TypeOK'
  BY <1>1 DEF Sound, TypeOK
<1>3. Placed' /\ FramesPlaced' /\ FunctionsDeclared' /\ Quiet'
  BY <1>1 DEF Sound, Placed, FramesPlaced, FunctionsDeclared, Quiet, FunctionsDated
<1>4. FreshScopes'
  <2>1. CASE Here.op # "OP_ENTER_SCOPE"
    <3>1. \A l \in scopeLevel + 1 .. StackMax - 1 : tables[l] = EmptyTable
      BY <2>1, TablesAboveEmpty DEF Sound
    <3>. QED  BY <1>1, <3>1 DEF FreshScopes, EmptyTable
  <2>2. CASE scopeLevel + 1 = StackMax
    <3>1. \A l \in scopeLevel + 1 .. StackMax - 1 : FALSE
      BY <2>2, BoundsAssumption
    <3>. QED  BY <1>1, <3>1 DEF FreshScopes
  <2>. QED  BY <2>1, <2>2
<1>. QED  BY <1>1, <1>2, <1>3, <1>4 DEF Sound

LEMMA UnderflowStep ==
  ASSUME Sound, Underflow
  PROVE  Sound'
<1>1. Running /\ Fault("underflow")
  BY DEF Underflow, MissingValue, MissingArgument, At
<1>2. Here.op # "OP_ENTER_SCOPE"
  <2>. SUFFICES ASSUME Here.op = "OP_ENTER_SCOPE", ~Operands PROVE FALSE
    BY DEF Underflow, MissingValue, MissingArgument, At
  <2>1. Here.op = "OP_ENTER_SCOPE" => Needs(Here) = 0
    BY DEF Needs, BinaryOps, UnaryOps, ConsumerOps
  <2>2. Len(stack) \in Nat
    BY StackFacts DEF Sound
  <2>. QED  BY <2>1, <2>2 DEF Operands
<1>. QED  BY <1>1, <1>2, FaultStep DEF Faults

LEMMA OverflowStep ==
  ASSUME Sound, Overflow
  PROVE  Sound'
<1>1. Running /\ Fault("overflow")
  BY DEF Overflow, At
<1>2. Here.op # "OP_ENTER_SCOPE" \/ scopeLevel + 1 = StackMax
  BY DEF Overflow, At, ValueOps
<1>. QED  BY <1>1, <1>2, FaultStep DEF Faults

LEMMA CallFaultStep ==
  ASSUME Sound, NoSuchFunction \/ DanglingFunction
  PROVE  Sound'
<1>1. Running /\ Here.op = "OP_FUNCTION_CALL"
  BY DEF NoSuchFunction, DanglingFunction, At
<1>2. PICK f \in Faults \ {"exit"} : Fault(f)
  BY DEF NoSuchFunction, DanglingFunction, Faults
<1>. QED  BY <1>1, <1>2, FaultStep

LEMMA UndefinedVariableStep ==
  ASSUME Sound, UndefinedVariable
  PROVE  Sound'
<1>1. Running /\ Here.op # "OP_ENTER_SCOPE" /\ Fault("undefined_wild")
  BY DEF UndefinedVariable, ReadsUnset, At, ValueOps
<1>. QED  BY <1>1, FaultStep DEF Faults

LEMMA WildPointerStep ==
  ASSUME Sound, WildPointer
  PROVE  Sound'
<1>1. Running /\ WildRead /\ Fault("wild_pointer")
  BY DEF WildPointer, At
<1>2. Here.op # "OP_ENTER_SCOPE"
  BY <1>1 DEF WildRead
<1>. QED  BY <1>1, <1>2, FaultStep DEF Faults

LEMMA InterpretStep ==
  ASSUME Sound, NEW c, TypedChunk(c), Deliverable(c), Interpret(c)
  PROVE  Sound'
<1>1. /\ status \in {"idle", "ok"} /\ ~Running
      /\ lines < MaxLines
      /\ chunk' = c /\ ip' = 0 /\ status' = "running" /\ lines' = lines + 1
      /\ UNCHANGED <<mode, stack, tables, scopeLevel, functions, callStack, output,
                     bases, mixed>>
  BY DEF Interpret, Running
<1>2. 0 \in Starts(c) /\ Levels(c)[0] = 0 /\ Room(c)[0] \in Nat
  <2>1. 0 \in Starts(c)
    BY DEF Deliverable
  <2>2. Levels(c)[0] = 0
    BY <2>1, LevelsAtStart
  <2>3. Room(c) \in [Starts(c) -> Nat]
    BY RoomFits DEF Bounds
  <2>. QED  BY <2>1, <2>2, <2>3
<1>3. lines \in Nat /\ lines' \in 0 .. MaxLines
  BY <1>1, BoundsAssumption DEF Sound, TypeOK
<1>4. /\ scopeLevel = 0 /\ callStack = <<>> /\ stack = <<>>
      /\ \A k \in 1 .. Len(functions) : functions[k].line <= lines /\ functions[k].line \in Nat
  <2>1. ASSUME NEW k \in 1 .. Len(functions)
        PROVE  functions[k].line \in Nat
    <3>1. functions[k] \in Function
      BY DEF Sound, TypeOK
    <3>. QED  BY <3>1 DEF Function
  <2>. QED  BY <1>1, <2>1 DEF Sound, Quiet, FunctionsDated
<1>5. TypeOK'
  BY <1>1, <1>3 DEF Sound, TypeOK, Status
<1>6. Placed'
  <2>1. Len(bases) = 1 /\ bases[1] = 0
    BY <1>4 DEF Sound, TypeOK, FramesPlaced
  <2>2. Len(stack) <= Room(c)[0]
    BY <1>2, <1>4
  <2>. QED  BY <1>1, <1>2, <1>4, <2>1, <2>2 DEF Placed
<1>7. FramesPlaced' /\ FunctionsDeclared'
  <2>1. \A k \in 1 .. Len(functions) : functions[k].line # lines'
    BY <1>1, <1>3, <1>4
  <2>. QED  BY <1>1, <1>4, <2>1 DEF Sound, FramesPlaced, FunctionsDeclared
<1>8. Quiet' /\ status' # "exit"
  <2>1. \A k \in 1 .. Len(functions) : functions[k].line <= lines'
    BY <1>1, <1>3, <1>4
  <2>. QED  BY <1>1, <2>1 DEF Quiet, FunctionsDated
<1>9. FreshScopes'
  <2>1. \A l \in scopeLevel + 1 .. StackMax - 1 : tables[l] = EmptyTable
    BY <1>1 DEF Sound, FreshScopes
  <2>. QED  BY <1>1, <2>1 DEF FreshScopes, EmptyTable
<1>. QED  BY <1>5, <1>6, <1>7, <1>8, <1>9 DEF Sound

LEMMA StutterStep ==
  ASSUME Sound, UNCHANGED vars
  PROVE  Sound'
<1>1. TypeOK' /\ Placed' /\ FramesPlaced'
  BY DEF Sound, vars, TypeOK, Placed, FramesPlaced, Running
<1>2. FunctionsDeclared' /\ Quiet' /\ status' # "exit"
  BY DEF Sound, vars, FunctionsDeclared, Declares, Quiet, FunctionsDated, Running
<1>3. FreshScopes'
  BY DEF Sound, vars, FreshScopes, Running
<1>. QED  BY <1>1, <1>2, <1>3 DEF Sound

-----------------------------------------------------------------------------
(* The invariant *)

LEMMA InitSound == Init => Sound
<1>. SUFFICES ASSUME Init PROVE Sound
  OBVIOUS
<1>1. TypeOK
  <2>1. TypedChunk(chunk)
    BY DEF Init, TypedChunk, Starts
  <2>2. IsTable(EmptyTable)
    BY DEF IsTable, EmptyTable
  <2>3. 0 \in 0 .. StackMax - 1 /\ 0 \in 0 .. MaxLines /\ 0 <= StackMax
    BY BoundsAssumption
  <2>4. bases \in Seq(Nat) /\ Len(bases) = 1
    BY DEF Init
  <2>5. /\ stack \in Seq(Value) /\ Len(stack) = 0
        /\ functions \in Seq(Function)
        /\ callStack \in Seq(Nat) /\ Len(callStack) = 0
        /\ output \in Seq(Value)
    BY EmptySeq DEF Init
  <2>6. /\ DOMAIN tables = 0 .. StackMax - 1
        /\ \A l \in 0 .. StackMax - 1 : IsTable(tables[l])
    BY <2>2 DEF Init
  <2>7. /\ mode \in Modes /\ ip \in Nat /\ scopeLevel \in 0 .. StackMax - 1
        /\ status \in Status /\ lines \in 0 .. MaxLines /\ mixed \in BOOLEAN
    BY <2>3 DEF Init, Status
  <2>. QED  BY <2>1, <2>3, <2>4, <2>5, <2>6, <2>7 DEF TypeOK
<1>2. ~Running
  BY DEF Init, Running
<1>3. Placed /\ FramesPlaced /\ FunctionsDeclared
  BY <1>2 DEF Init, Placed, FramesPlaced, FunctionsDeclared
<1>4. Quiet /\ status # "exit"
  <2>1. Len(functions) = 0
    BY DEF Init
  <2>. QED  BY <1>2, <2>1 DEF Init, Quiet, FunctionsDated
<1>5. FreshScopes
  BY BoundsAssumption DEF Init, FreshScopes
<1>. QED  BY <1>1, <1>3, <1>4, <1>5 DEF Sound

\* Every instruction keeps it, whatever the chunk.
LEMMA ExecuteSound == Sound /\ Execute => Sound'
<1>. SUFFICES ASSUME Sound, Execute PROVE Sound'
  OBVIOUS
<1>1. CASE PushValue \/ UnaryOp \/ BinaryOp \/ AddMixed \/ PopValue \/ PrintValue
  BY <1>1, PushValueStep, UnaryOpStep, BinaryOpStep, AddMixedStep, PopValueStep, PrintValueStep
<1>2. CASE EnterScope \/ ExitScope \/ DefVariable \/ SetVariable
  BY <1>2, EnterScopeStep, ExitScopeStep, DefVariableStep, SetVariableStep
<1>3. CASE Jump \/ JumpIfFalse
  BY <1>3, JumpStep, JumpIfFalseStep
<1>4. CASE DecFunction \/ FunctionCall \/ ReturnToCaller \/ Finish
  BY <1>4, DecFunctionStep, FunctionCallStep, ReturnToCallerStep, FinishStep
<1>5. CASE Underflow \/ Overflow \/ NoSuchFunction \/ DanglingFunction
             \/ UndefinedVariable \/ WildPointer
  BY <1>5, UnderflowStep, OverflowStep, CallFaultStep, UndefinedVariableStep, WildPointerStep
<1>. QED  BY <1>1, <1>2, <1>3, <1>4, <1>5 DEF Execute

\* A well-formed chunk is one that may be delivered.
LEMMA ChunksDeliverable ==
  ASSUME NEW c \in Chunks
  PROVE  TypedChunk(c) /\ WellFormed(c) /\ Deliverable(c)
<1>1. TypedChunk(c) /\ WellFormed(c)
  BY ChunksAssumption
<1>2. /\ 0 \in Starts(c)
      /\ \A o \in Starts(c) : Admissible(c, Levels(c), Depths(c), o)
      /\ \A o \in Starts(c) : StaysInBody(c, Levels(c), o)
  BY <1>1 DEF WellFormed
<1>3. ScopeSafe(c)
  BY <1>2, LevelsDomain DEF ScopeSafe, Admissible, Edge
<1>4. Bounds(c, Depths(c))
  <2>1. \A o \in Starts(c) : Depths(c)[o] \in Nat
    BY <1>2 DEF Admissible
  <2>2. Depths(c) \in [Starts(c) -> Nat]
    BY <2>1 DEF Depths
  <2>3. ASSUME NEW o \in Starts(c)
        PROVE  LET i == c.code[o] IN
               /\ FallsThrough(i) => Depths(c)[o] + StackEffect(i) <= Depths(c)[o + Width(i)]
               /\ i.op \in JumpOps =>
                    Depths(c)[o] + StackEffect(i) <= Depths(c)[JumpTarget(o, i)]
               /\ i.op = "OP_DEC_FUNCTION" => Depths(c)[o] <= Depths(c)[AfterBody(o, i)]
               /\ i.op \in {"OP_FUNCTION_CALL", "OP_RETURN"} => Depths(c)[o] = 0
    <3>. DEFINE i == c.code[o]
    <3>1. StackEffect(i) \in Int /\ Depths(c)[o] \in Nat
      BY <2>1 DEF StackEffect
    <3>2. /\ FallsThrough(i) => Depths(c)[o + Width(i)] = Depths(c)[o] + StackEffect(i)
          /\ i.op \in JumpOps => Depths(c)[JumpTarget(o, i)] = Depths(c)[o] + StackEffect(i)
          /\ i.op = "OP_DEC_FUNCTION" => Depths(c)[AfterBody(o, i)] = Depths(c)[o] + 0
          /\ i.op \in {"OP_FUNCTION_CALL", "OP_RETURN"} => Depths(c)[o] = 0
      BY <1>2 DEF Admissible, Edge
    <3>. QED  BY <3>1, <3>2
  <2>. QED  BY <2>2, <2>3 DEF Bounds
<1>. QED  BY <1>1, <1>2, <1>3, <1>4 DEF Deliverable

LEMMA NextSound == Sound /\ [Next]_vars => Sound'
<1>. SUFFICES ASSUME Sound, [Next]_vars PROVE Sound'
  OBVIOUS
<1>1. CASE \E c \in Chunks : Interpret(c)
  BY <1>1, InterpretStep, ChunksDeliverable
<1>2. CASE Execute
  BY <1>2, ExecuteSound
<1>3. CASE Spin \/ Rest \/ UNCHANGED vars
  BY <1>3, StutterStep DEF Spin, Rest
<1>. QED  BY <1>1, <1>2, <1>3 DEF Next

-----------------------------------------------------------------------------
(* The stack, for well-formed chunks *)

\* The stack holds what the code says, one value less after a mixed addition, and
\* nothing where a call resumes.
Exact ==
  /\ Running =>
       /\ chunk \in Chunks
       /\ mixed => Len(stack) < Depths(chunk)[ip]
       /\ ~mixed => Len(stack) = Depths(chunk)[ip]
       /\ \A k \in 1 .. Len(callStack) : Depths(chunk)[callStack[k]] = 0
  /\ status \in {"idle", "ok"} => ~mixed
  /\ StopsExplained

(***************************************************************************)
(* The stack is never deeper than the code says, so that an instruction    *)
(* with operands to spare finds them unless an addition went wrong.        *)
(***************************************************************************)
LEMMA ExactFacts ==
  ASSUME Sound, Exact, Running
  PROVE  /\ ip \in Starts(chunk) /\ Len(stack) \in Nat /\ mixed \in BOOLEAN
         /\ \A o \in Starts(chunk) : /\ Admissible(chunk, Levels(chunk), Depths(chunk), o)
                                     /\ Depths(chunk)[o] \in Nat
         /\ ~mixed => Operands
         /\ Depths(chunk)[ip] = 0 => ~mixed /\ stack = <<>>
<1>1. ip \in Starts(chunk) /\ chunk \in Chunks
  BY DEF Sound, Placed, Exact
<1>2. \A o \in Starts(chunk) : /\ Admissible(chunk, Levels(chunk), Depths(chunk), o)
                               /\ Depths(chunk)[o] \in Nat
  BY <1>1, ChunksDeliverable DEF WellFormed, Admissible
<1>3. Depths(chunk)[ip] \in Nat /\ Depths(chunk)[ip] >= Needs(Here)
  BY <1>1, <1>2 DEF Admissible, Here
<1>4. /\ Len(stack) \in Nat /\ (Len(stack) = 0 => stack = <<>>)
      /\ mixed \in BOOLEAN
  BY DEF Sound, TypeOK
<1>5. Needs(Here) \in Nat
  BY DEF Needs
<1>. QED  BY <1>1, <1>2, <1>3, <1>4, <1>5 DEF Exact, Operands

\* A step of a line that declares, calls and returns from nothing, to an
\* instruction at the depth the stack comes to have.
LEMMA ExactMove ==
  ASSUME Sound, Exact, Running,
         UNCHANGED <<mode, chunk, functions, callStack, status, lines, mixed>>,
         Depths(chunk)[ip'] = Depths(chunk)[ip] + StackEffect(Here),
         Len(stack') = Len(stack) + StackEffect(Here)
  PROVE  Exact'
<1>1. /\ Depths(chunk)[ip] \in Nat /\ Len(stack) \in Nat /\ StackEffect(Here) \in Int
  BY ExactFacts DEF StackEffect
<1>2. mixed => Len(stack') < Depths(chunk)[ip']
  BY <1>1 DEF Exact
<1>3. ~mixed => Len(stack') = Depths(chunk)[ip']
  BY <1>1 DEF Exact
<1>. QED  BY <1>2, <1>3 DEF Exact, StopsExplained, Running

\* Where an instruction that falls through or jumps leads to.
LEMMA ExactLands ==
  ASSUME Sound, Exact, Running
  PROVE  /\ FallsThrough(Here) => Depths(chunk)[NextIp] = Depths(chunk)[ip] + StackEffect(Here)
         /\ Here.op \in JumpOps =>
              Depths(chunk)[JumpTarget(ip, Here)] = Depths(chunk)[ip] + StackEffect(Here)
  BY ExactFacts DEF Admissible, Edge, Here, NextIp

\* The instructions that go on to the next one, and what they do to the stack.
LEMMA Fallers ==
  ASSUME Sound,
         \/ PushValue \/ UnaryOp \/ BinaryOp \/ PopValue \/ PrintValue
         \/ EnterScope \/ ExitScope \/ DefVariable \/ SetVariable
  PROVE  /\ Running /\ FallsThrough(Here) /\ ip' = NextIp
         /\ UNCHANGED <<mode, chunk, functions, callStack, status, lines, mixed>>
         /\ Len(stack') = Len(stack) + StackEffect(Here)
<1>. USE DEF At, ConsumerOps, ScopeOps
<1>1. Len(stack) \in Nat /\ stack \in Seq(Value)
  BY DEF Sound, TypeOK
<1>2. ASSUME NEW k \in 1 .. 2, Len(stack) >= k
      PROVE  /\ Drop(k) \in Seq(Value) /\ Len(Drop(k)) = Len(stack) - k
             /\ \A v : Len(Append(Drop(k), v)) = Len(stack) - k + 1
  <2>1. Drop(k) \in Seq(Value) /\ Len(Drop(k)) = Len(stack) - k
    BY <1>2, StackFacts DEF Sound
  <2>. QED  BY <2>1
<1>3. 1 \in 1 .. 2 /\ 2 \in 1 .. 2
  OBVIOUS
<1>4. CASE PushValue
  <2>1. FallsThrough(Here) /\ StackEffect(Here) = 1
    BY <1>4, Effects DEF PushValue
  <2>2. Len(stack') = Len(stack) + 1
    BY <1>1, <1>4 DEF PushValue
  <2>. QED  BY <1>4, <2>1, <2>2 DEF PushValue
<1>5. CASE UnaryOp
  <2>1. FallsThrough(Here) /\ StackEffect(Here) = 0 /\ Len(stack) >= 1
    BY <1>5, Effects DEF UnaryOp, Operands
  <2>2. Len(stack') = Len(stack) - 1 + 1
    BY <1>2, <1>3, <1>5, <2>1 DEF UnaryOp
  <2>3. Len(stack') = Len(stack) + 0
    BY <1>1, <2>2
  <2>. QED  BY <1>5, <2>1, <2>3 DEF UnaryOp
<1>6. CASE BinaryOp
  <2>1. FallsThrough(Here) /\ StackEffect(Here) = -1 /\ Len(stack) >= 2
    BY <1>6, Effects DEF BinaryOp, Operands
  <2>2. Len(stack') = Len(stack) - 2 + 1
    BY <1>2, <1>3, <1>6, <2>1 DEF BinaryOp
  <2>3. Len(stack') = Len(stack) + (-1)
    BY <1>1, <2>2
  <2>. QED  BY <1>6, <2>1, <2>3 DEF BinaryOp
<1>7. CASE PopValue \/ PrintValue \/ SetVariable
  <2>1. Here.op \in ConsumerOps /\ Len(stack) >= Needs(Here)
    BY <1>7 DEF PopValue, PrintValue, SetVariable, Operands
  <2>2. FallsThrough(Here) /\ StackEffect(Here) = -1 /\ Len(stack) >= 1
    BY <2>1, Effects
  <2>3. stack' = Drop(1)
    BY <1>7 DEF PopValue, PrintValue, SetVariable
  <2>4. Len(stack') = Len(stack) + (-1)
    BY <1>1, <1>2, <1>3, <2>2, <2>3
  <2>. QED  BY <1>7, <2>2, <2>4 DEF PopValue, PrintValue, SetVariable
<1>8. CASE EnterScope \/ ExitScope \/ DefVariable
  <2>1. /\ Running /\ FallsThrough(Here) /\ StackEffect(Here) = 0
        /\ UNCHANGED <<mode, chunk, functions, callStack, lines, mixed, stack>>
    BY <1>8, Effects DEF EnterScope, ExitScope, DefVariable
  <2>2. ip' = NextIp /\ UNCHANGED status
    BY <1>8, ExitScopeStep DEF EnterScope, ExitScope, DefVariable
  <2>3. Len(stack') = Len(stack) + 0
    BY <1>1, <2>1
  <2>. QED  BY <2>1, <2>2, <2>3
<1>. QED  BY <1>4, <1>5, <1>6, <1>7, <1>8

\* Instructions that neither call nor return.
LEMMA ExactLocal ==
  ASSUME Sound, Exact,
         \/ PushValue \/ UnaryOp \/ BinaryOp \/ AddMixed \/ PopValue \/ PrintValue
         \/ EnterScope \/ ExitScope \/ DefVariable \/ SetVariable
         \/ Jump \/ JumpIfFalse \/ DecFunction
  PROVE  Exact'
<1>1. CASE \/ PushValue \/ UnaryOp \/ BinaryOp \/ PopValue \/ PrintValue
           \/ EnterScope \/ ExitScope \/ DefVariable \/ SetVariable
  BY <1>1, Fallers, ExactLands, ExactMove
<1>2. CASE AddMixed
  <2>1. Running /\ Here.op \in BinaryOps /\ Len(stack) >= 2 /\ ip' = NextIp /\ mixed'
    BY <1>2, Effects DEF AddMixed, At, Operands, BinaryOps
  <2>2. Len(stack') = Len(stack) - 2 /\ Len(stack) \in Nat
    BY <1>2, <2>1, StackFacts DEF Sound, AddMixed
  <2>3. FallsThrough(Here) /\ StackEffect(Here) = -1
    BY <2>1, Effects
  <2>4. Depths(chunk)[NextIp] = Depths(chunk)[ip] + (-1) /\ Depths(chunk)[ip] \in Nat
    BY <2>1, <2>3, ExactLands, ExactFacts
  <2>5. Len(stack) <= Depths(chunk)[ip]
    BY <2>1, <2>2, <2>4 DEF Exact
  <2>6. Len(stack') < Depths(chunk)[NextIp]
    BY <2>2, <2>4, <2>5
  <2>7. UNCHANGED <<mode, chunk, functions, callStack, status, lines>>
    BY <1>2 DEF AddMixed
  <2>. QED  BY <2>1, <2>6, <2>7 DEF Exact, StopsExplained, Running
<1>3. CASE Jump
  <2>1. /\ Running /\ Here.op \in {"OP_JUMP", "OP_LOOP"} /\ Here.op \in JumpOps
        /\ ip' = JumpTarget(ip, Here)
        /\ UNCHANGED <<mode, chunk, functions, callStack, status, lines, mixed, stack>>
    BY <1>3 DEF Jump, At, JumpOps
  <2>2. Len(stack') = Len(stack) + StackEffect(Here)
    BY <2>1, Effects, StackFacts DEF Sound
  <2>. QED  BY <2>1, <2>2, ExactLands, ExactMove
<1>4. CASE JumpIfFalse
  <2>1. /\ Running /\ Here.op \in JumpOps /\ Here.op \in ConsumerOps /\ Len(stack) >= 1
        /\ ip' \in {NextIp, JumpTarget(ip, Here)}
        /\ UNCHANGED <<mode, chunk, functions, callStack, status, lines, mixed>>
        /\ stack' = Drop(1)
    BY <1>4, Effects DEF JumpIfFalse, At, Operands, JumpOps, ConsumerOps
  <2>2. FallsThrough(Here) /\ StackEffect(Here) = -1
    BY <2>1, Effects
  <2>3. Len(stack') = Len(stack) + StackEffect(Here)
    BY <2>1, <2>2, StackFacts DEF Sound
  <2>. QED  BY <2>1, <2>2, <2>3, ExactLands, ExactMove
<1>5. CASE DecFunction
  <2>. DEFINE f == [name |-> Here.name, params |-> Here.params,
                    start |-> FunctionStart(ip, Here), line |-> lines]
  <2>1. /\ Running /\ Here.op = "OP_DEC_FUNCTION" /\ ip' = AfterBody(ip, Here)
        /\ UNCHANGED <<mode, chunk, callStack, status, lines, mixed, stack>>
        /\ functions' = Append(functions, f)
    BY <1>5 DEF DecFunction, At
  <2>2. Depths(chunk)[AfterBody(ip, Here)] = Depths(chunk)[ip] + 0 /\ Depths(chunk)[ip] \in Nat
    BY <2>1, ExactFacts DEF Admissible, Edge, Here
  <2>3. functions \in Seq(Function) /\ Len(functions) \in Nat
    BY DEF Sound, TypeOK
  <2>4. /\ Len(functions') = Len(functions) + 1
        /\ \A k \in 1 .. Len(functions) : functions'[k] = functions[k]
        /\ functions'[Len(functions) + 1] = f
    <3>. HIDE DEF f
    <3>. QED  BY <2>1, <2>3
  <2>5. lines # 0
    BY <2>1 DEF Exact, StopsExplained, Running
  <2>6. ASSUME mode = "VM_MODE_STATIC", NEW k \in 1 .. Len(functions')
        PROVE  functions'[k].line = lines'
    <3>1. CASE k = Len(functions) + 1
      BY <2>1, <2>4, <3>1
    <3>2. CASE k \in 1 .. Len(functions)
      BY <2>1, <2>4, <2>6, <3>2 DEF Exact, StopsExplained
    <3>. QED  BY <2>3, <2>4, <3>1, <3>2
  <2>. HIDE DEF f
  <2>7. StopsExplained'
    BY <2>1, <2>5, <2>6 DEF Exact, StopsExplained, Running
  <2>8. /\ chunk \in Chunks
        /\ mixed => Len(stack) < Depths(chunk)[AfterBody(ip, Here)]
        /\ ~mixed => Len(stack) = Depths(chunk)[AfterBody(ip, Here)]
    BY <2>1, <2>2 DEF Exact
  <2>. QED  BY <2>1, <2>7, <2>8 DEF Exact, Running
<1>. QED  BY <1>1, <1>2, <1>3, <1>4, <1>5

\* A call and a return find the stack empty.
LEMMA ExactCall ==
  ASSUME Sound, Exact, FunctionCall \/ ReturnToCaller
  PROVE  Exact'
<1>. DEFINE n == Len(callStack)
<1>1. /\ Running /\ Here.op \in {"OP_FUNCTION_CALL", "OP_RETURN"} /\ ip \in Starts(chunk)
      /\ UNCHANGED <<mode, chunk, functions, status, lines, mixed, stack>>
  BY DEF FunctionCall, ReturnToCaller, At
<1>2. /\ Depths(chunk)[ip] = 0 /\ ~mixed /\ stack = <<>> /\ chunk \in Chunks
  <2>1. Depths(chunk)[ip] = 0
    BY <1>1, ExactFacts DEF Admissible, Here
  <2>. QED  BY <1>1, <2>1, ExactFacts DEF Exact
<1>3. n \in Nat /\ callStack \in Seq(Nat)
  BY DEF Sound, TypeOK
<1>4. StopsExplained'
  BY <1>1 DEF Exact, StopsExplained, Running
<1>5. CASE FunctionCall
  <2>1. PICK k \in 1 .. Len(functions) : functions[k].line = lines /\ ip' = functions[k].start
    BY <1>5 DEF FunctionCall, Scan
  <2>2. Depths(chunk)[ip'] = 0
    <3>1. PICK h \in Headers(chunk) : Declares(h, functions[k])
      BY <1>1, <2>1 DEF Sound, FunctionsDeclared
    <3>. QED  BY <1>1, <2>1, <3>1, ExactFacts DEF Admissible, Declares, Headers
  <2>3. Depths(chunk)[NextIp] = 0
    <3>1. FallsThrough(Here) /\ StackEffect(Here) = 0
      BY <1>5, Effects DEF FunctionCall, At
    <3>. QED  BY <1>1, <1>2, <3>1, ExactLands
  <2>4. callStack' = Append(callStack, NextIp) /\ NextIp \in Nat
    BY <1>1, <1>5, LocalFacts DEF FunctionCall, ResumeAddress, Sound
  <2>5. \A k2 \in 1 .. Len(callStack') : Depths(chunk)[callStack'[k2]] = 0
    <3>1. /\ Len(callStack') = n + 1
          /\ \A j \in 1 .. n : callStack'[j] = callStack[j]
          /\ callStack'[n + 1] = NextIp
      BY <1>3, <2>4, AppendProperties
    <3>2. \A j \in 1 .. n : Depths(chunk)[callStack[j]] = 0
      BY <1>1 DEF Exact
    <3>. QED  BY <1>3, <2>3, <3>1, <3>2
  <2>. QED  BY <1>1, <1>2, <1>4, <2>2, <2>5 DEF Exact, Running
<1>6. CASE ReturnToCaller
  <2>1. /\ callStack # <<>> /\ ip' = callStack[n]
        /\ callStack' = SubSeq(callStack, 1, n - 1)
    BY <1>6 DEF ReturnToCaller
  <2>2. n \in 1 .. n /\ n - 1 \in Nat /\ n - 1 <= n
    BY <1>3, <2>1
  <2>3. \A j \in 1 .. n : Depths(chunk)[callStack[j]] = 0
    BY <1>1 DEF Exact
  <2>4. /\ Len(callStack') = n - 1
        /\ \A j \in 1 .. n - 1 : callStack'[j] = callStack[j]
    BY <1>3, <2>1, <2>2, Prefix
  <2>5. \A j \in 1 .. n - 1 : j \in 1 .. n
    BY <1>3
  <2>6. \A j \in 1 .. Len(callStack') : Depths(chunk)[callStack'[j]] = 0
    BY <2>3, <2>4, <2>5
  <2>. QED  BY <1>1, <1>2, <1>4, <2>1, <2>2, <2>3, <2>6 DEF Exact, Running
<1>. QED  BY <1>5, <1>6

\* A run that ends, well or not.
LEMMA ExactStop ==
  ASSUME Sound, Exact,
         \/ Finish \/ Underflow \/ Overflow \/ NoSuchFunction \/ DanglingFunction
         \/ UndefinedVariable \/ WildPointer
  PROVE  Exact'
<1>1. Running /\ UNCHANGED <<mode, lines, mixed>>
  BY DEF Finish, Underflow, Overflow, NoSuchFunction, DanglingFunction, UndefinedVariable,
         ReadsUnset, MissingValue, MissingArgument, WildPointer, Fault, At
<1>2. lines # 0
  BY <1>1 DEF Exact, StopsExplained, Running
<1>3. CASE Finish
  <2>1. /\ Here.op = "OP_RETURN" /\ status' = "ok"
    BY <1>3 DEF Finish, At
  <2>2. Depths(chunk)[ip] = 0
    BY <1>1, <2>1, ExactFacts DEF Admissible, Here
  <2>3. ~mixed
    BY <1>1, <2>2, ExactFacts
  <2>. QED  BY <1>1, <1>2, <2>1, <2>3 DEF Exact, StopsExplained, Running
<1>4. ASSUME NEW f \in Faults \ {"exit"}, Fault(f),
             f = "underflow" => mixed,
             f = "dangling_function" => mode # "VM_MODE_STATIC"
      PROVE  Exact'
  <2>1. /\ status' = f /\ f \notin {"idle", "running", "ok", "exit"}
    BY <1>4 DEF Fault, Faults
  <2>. QED  BY <1>1, <1>2, <1>4, <2>1 DEF Exact, StopsExplained, Running
<1>5. CASE Underflow
  <2>1. ~MissingArgument
    <3>. SUFFICES ASSUME MissingArgument PROVE FALSE
      OBVIOUS
    <3>1. PICK k \in Scan(Here.name) : functions[k].line = lines /\ ~Supplied(functions[k])
      BY DEF MissingArgument
    <3>2. k \in 1 .. Len(functions) /\ functions[k].name = Here.name
      BY <3>1 DEF Scan
    <3>3. PICK h \in Headers(chunk) : Declares(h, functions[k])
      BY <1>1, <3>1, <3>2 DEF Sound, FunctionsDeclared
    <3>4. Here.op = "OP_FUNCTION_CALL"
      BY DEF MissingArgument, At
    <3>5. InlineArguments(chunk, NextIp, Len(chunk.code[h].params))
      BY <1>1, <3>2, <3>3, <3>4, ExactFacts DEF Admissible, Here, NextIp, Declares
    <3>. QED  BY <3>1, <3>3, <3>5 DEF Supplied, Declares
  <2>2. mixed
    BY <1>1, <1>5, <2>1, ExactFacts DEF Underflow, MissingValue
  <2>. QED  BY <1>4, <1>5, <2>2 DEF Underflow, Faults
<1>6. CASE Overflow \/ NoSuchFunction \/ WildPointer
  BY <1>4, <1>6 DEF Overflow, NoSuchFunction, WildPointer, Faults
<1>7. CASE UndefinedVariable
  BY <1>4, <1>7 DEF UndefinedVariable, Faults
<1>8. CASE DanglingFunction
  <2>1. PICK k \in 1 .. Len(functions) : functions[k].line # lines
    BY <1>8 DEF DanglingFunction, Scan
  <2>2. mode # "VM_MODE_STATIC"
    BY <1>1, <2>1 DEF Exact, StopsExplained
  <2>. QED  BY <1>4, <1>8, <2>2 DEF DanglingFunction, Faults
<1>. QED  BY <1>3, <1>5, <1>6, <1>7, <1>8

LEMMA ExactInterpret ==
  ASSUME Sound, Exact, NEW c \in Chunks, Interpret(c)
  PROVE  Exact'
<1>1. /\ status \in {"idle", "ok"} /\ status # "running"
      /\ mode = "VM_MODE_STATIC" => lines = 0
      /\ chunk' = c /\ ip' = 0 /\ status' = "running" /\ lines' = lines + 1
      /\ UNCHANGED <<mode, stack, functions, callStack, mixed>>
  BY DEF Interpret
<1>2. Depths(c)[0] = 0
  BY ChunksDeliverable DEF WellFormed
<1>3. callStack = <<>> /\ stack = <<>> /\ ~mixed
  BY <1>1 DEF Sound, Quiet, Exact
<1>4. lines \in Nat /\ lines' # 0
  BY <1>1, BoundsAssumption DEF Sound, TypeOK
<1>5. StopsExplained'
  <2>1. mode = "VM_MODE_STATIC" => functions = <<>>
    BY <1>1 DEF Exact, StopsExplained
  <2>. QED  BY <1>1, <1>4, <2>1 DEF StopsExplained, Running
<1>. QED  BY <1>1, <1>2, <1>3, <1>5 DEF Exact, Running

LEMMA NextExact == Sound /\ Exact /\ [Next]_vars => Exact'
<1>. SUFFICES ASSUME Sound, Exact, [Next]_vars PROVE Exact'
  OBVIOUS
<1>1. CASE \E c \in Chunks : Interpret(c)
  BY <1>1, ExactInterpret
<1>2. CASE Execute
  BY <1>2, ExactLocal, ExactCall, ExactStop DEF Execute
<1>3. CASE Spin \/ Rest \/ UNCHANGED vars
  <2>1. UNCHANGED vars
    BY <1>3 DEF Spin, Rest
  <2>. QED  BY <2>1 DEF vars, Exact, StopsExplained, Running
<1>. QED  BY <1>1, <1>2, <1>3 DEF Next

LEMMA BothGiveInvariant == Sound /\ Exact => IInv
<1>. SUFFICES ASSUME Sound, Exact PROVE IInv
  OBVIOUS
<1>1. Aligned /\ FramesAligned
  BY DEF Sound, Exact, Placed, FramesPlaced, Aligned, FramesAligned
<1>2. QuietBetweenLines /\ FunctionsDated /\ StopsExplained
  BY DEF Sound, Exact, Quiet, QuietBetweenLines
<1>. QED  BY <1>1, <1>2 DEF Sound, IInv

-----------------------------------------------------------------------------
(* What always holds of the machine *)

LEMMA AlwaysSound == Spec => [](Sound /\ Exact)
<1>1. Init => Exact
  BY DEF Init, Exact, StopsExplained, Running
<1>. QED  BY <1>1, InitSound, NextSound, NextExact, PTL DEF Spec

THEOREM Invariant == Spec => []IInv
  BY AlwaysSound, BothGiveInvariant, PTL

\* Every variable keeps its type: ip, the stack and the scope counter stay within
\* the arrays of the VM struct.
THEOREM TypeCorrect == Spec => []TypeOK
<1>1. IInv => TypeOK
  BY DEF IInv
<1>. QED  BY <1>1, Invariant, PTL

\* No well-formed chunk makes the scope counter drift: "cannot exit top-level
\* scope" is never printed, and a program ends in the scope it started in.
THEOREM ScopesStayBalanced == Spec => []ScopesBalanced
<1>1. IInv => ScopesBalanced
  BY DEF IInv, ScopesBalanced, Aligned, StopsExplained, QuietBetweenLines
<1>. QED  BY <1>1, Invariant, PTL

\* No well-formed chunk pops an empty stack or leaves a value on it, except after
\* an addition of operands OP_ADD has no case for.
THEOREM StackStaysBalanced == Spec => []StackBalanced
<1>1. IInv => StackBalanced
  BY DEF IInv, StackBalanced, Aligned, StopsExplained, QuietBetweenLines
<1>. QED  BY <1>1, Invariant, PTL

\* A scope starts empty, or with the arguments of the call that opens it.
THEOREM ScopesStartFresh == Spec => []FreshScopes
<1>1. IInv => FreshScopes
  BY DEF IInv
<1>. QED  BY <1>1, Invariant, PTL

\* What a function the running chunk has declared points at.  A script runs one chunk, so
\* that it meets no others.
LEMMA PointersHere ==
  ASSUME Sound,
         mode = "VM_MODE_STATIC" =>
           /\ status # "dangling_function"
           /\ Running => \A k \in 1 .. Len(functions) : ~Freed(functions[k])
  PROVE  PointersStayInChunk
<1>1. ASSUME Running
      PROVE  /\ ip \in Starts(chunk)
             /\ \A k \in 1 .. Len(callStack) : callStack[k] \in Starts(chunk)
  BY <1>1 DEF Sound, Placed, FramesPlaced
<1>2. ASSUME Running, NEW k \in 1 .. Len(functions), mode = "VM_MODE_STATIC" \/ ~Freed(functions[k])
      PROVE  \E h \in Headers(chunk) : /\ chunk.code[h].name = functions[k].name
                                       /\ functions[k].start = FunctionStart(h, chunk.code[h])
                                       /\ functions[k].start \in Starts(chunk)
  <2>1. functions[k].line = lines
    BY <1>2
  <2>2. functions[k].start \in Starts(chunk)
    BY <1>2, <2>1, FunctionEntry DEF Sound
  <2>3. PICK h \in Headers(chunk) : Declares(h, functions[k])
    BY <1>2, <2>1 DEF Sound, FunctionsDeclared
  <2>. QED  BY <2>2, <2>3 DEF Declares
<1>. QED  BY <1>1, <1>2 DEF PointersStayInChunk

\* vm.ip and every resume address are instructions of the running chunk, and so is the start
\* of every function that chunk has declared.  In a script these are all the functions the
\* scan of a call can meet.  At the prompt it can meet functions of chunks that are gone: the
\* theorem then speaks of ip, of the resume addresses and of the chunk's own functions only.
THEOREM PointersStayInside == Spec => []PointersStayInChunk
<1>1. Sound /\ Exact => PointersStayInChunk
  BY PointersHere DEF Exact, StopsExplained
<1>. QED  BY <1>1, AlwaysSound, PTL

-----------------------------------------------------------------------------
(* What a step may not do *)

\* What the machine may do, whatever the chunk it is given.
AnyStep == (\E c : Interpret(c)) \/ Execute \/ UNCHANGED vars

LEMMA NextIsStep == [Next]_vars => AnyStep
BY DEF Next, Spin, Rest, AnyStep

\* The names of the open scopes survive a write to one of them.
LEMMA WriteKeepsNames ==
  ASSUME TypeOK, NEW level \in 0 .. scopeLevel, NEW name \in Names, NEW v \in Value,
         level < scopeLevel => name \in DOMAIN tables[level],
         tables' = [tables EXCEPT ![level] = Bind(@, name, v)],
         NEW l \in 0 .. StackMax - 1
  PROVE  /\ l < scopeLevel => DOMAIN tables'[l] \subseteq DOMAIN tables[l]
         /\ DOMAIN tables[l] \subseteq DOMAIN tables'[l]
<1>1. /\ DOMAIN tables = 0 .. StackMax - 1
      /\ scopeLevel \in 0 .. StackMax - 1
      /\ StackMax \in Nat
  BY BoundsAssumption DEF TypeOK
<1>2. CASE l = level
  <2>1. tables'[l] = Bind(tables[l], name, v) /\ IsTable(tables[l])
    BY <1>1, <1>2 DEF TypeOK
  <2>2. DOMAIN tables'[l] = DOMAIN tables[l] \cup {name}
    BY <2>1, BindType
  <2>. QED  BY <1>2, <2>2
<1>3. CASE l # level
  <2>1. tables'[l] = tables[l]
    BY <1>1, <1>3
  <2>. QED  BY <2>1
<1>. QED  BY <1>2, <1>3

LEMMA StepKeepsNames ==
  ASSUME Sound, AnyStep, NEW l \in 0 .. StackMax - 1
  PROVE  /\ l < scopeLevel => DOMAIN tables'[l] \subseteq DOMAIN tables[l]
         /\ l <= scopeLevel /\ l <= scopeLevel' => DOMAIN tables[l] \subseteq DOMAIN tables'[l]
<1>1. /\ DOMAIN tables = 0 .. StackMax - 1
      /\ scopeLevel \in 0 .. StackMax - 1
      /\ scopeLevel \in Nat /\ l \in Nat /\ StackMax \in Nat
  BY BoundsAssumption DEF Sound, TypeOK
<1>2. CASE UNCHANGED tables
  BY <1>2
<1>3. CASE ExitScope
  <2>1. /\ tables' = [tables EXCEPT ![scopeLevel] = EmptyTable]
        /\ scopeLevel' = scopeLevel - 1
    BY <1>3, ExitScopeStep DEF ExitScope
  <2>2. l # scopeLevel => tables'[l] = tables[l]
    BY <1>1, <2>1
  <2>3. l = scopeLevel => ~(l < scopeLevel) /\ ~(l <= scopeLevel')
    BY <1>1, <2>1
  <2>. QED  BY <2>2, <2>3
<1>4. CASE DefVariable
  <2>1. Running /\ Here.name \in Names
    BY <1>4, LocalFacts DEF DefVariable, At, Sound, Instruction
  <2>2. /\ scopeLevel \in 0 .. scopeLevel /\ NotValue \in Value
        /\ ~(scopeLevel < scopeLevel)
    BY <1>1, ConstructorTypes
  <2>. QED  BY <1>4, <2>1, <2>2, WriteKeepsNames DEF DefVariable, Sound
<1>5. CASE SetVariable
  <2>1. Running /\ Here.name \in Names /\ Top \in Value
    BY <1>5, LocalFacts, StackFacts, Effects
       DEF SetVariable, At, Sound, Instruction, Operands, ConsumerOps
  <2>2. AssignedLevel(Here.name) \in 0 .. scopeLevel
    BY AssignedLevelType DEF Sound
  <2>3. AssignedLevel(Here.name) < scopeLevel =>
          Here.name \in DOMAIN tables[AssignedLevel(Here.name)]
    <3>. DEFINE outer == {k \in 0 .. scopeLevel - 1 : Has(k, Here.name)}
    <3>1. CASE outer = {}
      BY <1>1, <3>1 DEF AssignedLevel
    <3>2. CASE outer # {}
      <4>1. outer \in SUBSET (0 .. scopeLevel)
        BY <1>1
      <4>2. Highest(outer) \in outer
        BY <1>1, <3>2, <4>1, HighestExists
      <4>. QED  BY <3>2, <4>2 DEF AssignedLevel, Has
    <3>. QED  BY <3>1, <3>2
  <2>. QED  BY <1>5, <2>1, <2>2, <2>3, WriteKeepsNames DEF SetVariable, Sound
<1>6. CASE FunctionCall
  <2>1. PICK t : tables' = [tables EXCEPT ![scopeLevel + 1] = t]
    BY <1>6 DEF FunctionCall
  <2>2. l <= scopeLevel => tables'[l] = tables[l]
    BY <1>1, <2>1
  <2>. QED  BY <1>1, <2>2
<1>. QED  BY <1>2, <1>3, <1>4, <1>5, <1>6
     DEF AnyStep, Execute, Interpret, PushValue, UnaryOp, BinaryOp, AddMixed, PopValue,
         PrintValue, EnterScope, Jump, JumpIfFalse, DecFunction, ReturnToCaller, Finish,
         Underflow, Overflow, NoSuchFunction, DanglingFunction, UndefinedVariable,
         WildPointer, Fault, vars

\* No step adds a name to an enclosing scope or takes one from an open scope.
THEOREM OpenScopesKeepNames == Spec => OpenScopesKeepTheirNames
<1>1. Sound /\ [Next]_vars =>
        [\A l \in 0 .. StackMax - 1 :
           /\ l < scopeLevel => DOMAIN tables'[l] \subseteq DOMAIN tables[l]
           /\ l <= scopeLevel /\ l <= scopeLevel' =>
                DOMAIN tables[l] \subseteq DOMAIN tables'[l]]_vars
  BY StepKeepsNames, NextIsStep
<1>. QED  BY <1>1, AlwaysSound, PTL DEF Spec, OpenScopesKeepTheirNames
-----------------------------------------------------------------------------
(* Calls and the scopes they hold *)

\* The running chunk keeps control inside of the body it is in.
LEMMA NestingFacts ==
  ASSUME Sound, Running
  PROVE  StaysInBody(chunk, Levels(chunk), ip)
  BY DEF Sound, Placed, Deliverable

\* So it does wherever an instruction falls through or jumps.
LEMMA NextStaysInBody ==
  ASSUME Sound, Running,
         \/ FallsThrough(Here) /\ ip' = NextIp
         \/ Here.op \in JumpOps /\ ip' = JumpTarget(ip, Here)
         \/ Here.op = "OP_DEC_FUNCTION" /\ ip' = AfterBody(ip, Here)
  PROVE  Body(chunk, ip') = Body(chunk, ip)
  BY NestingFacts DEF StaysInBody, Here, NextIp

\* A step that stays in the body and neither calls nor returns.
LEMMA LocalNesting ==
  ASSUME CallsNested, Running, UNCHANGED <<chunk, callStack, bases>>,
         Running' => Body(chunk, ip') = Body(chunk, ip)
  PROVE  CallsNested'
  BY DEF CallsNested

\* The instructions that fall through or jump, and the headers.
LEMMA LocalStepNesting ==
  ASSUME Sound, CallsNested,
         \/ PushValue \/ UnaryOp \/ BinaryOp \/ AddMixed \/ PopValue \/ PrintValue
         \/ EnterScope \/ ExitScope \/ DefVariable \/ SetVariable
         \/ Jump \/ JumpIfFalse \/ DecFunction
  PROVE  CallsNested'
<1>1. Running /\ UNCHANGED <<chunk, callStack, bases>>
  BY DEF PushValue, UnaryOp, BinaryOp, AddMixed, PopValue, PrintValue, EnterScope, ExitScope,
         DefVariable, SetVariable, Jump, JumpIfFalse, DecFunction, At
<1>2. CASE \/ PushValue \/ UnaryOp \/ BinaryOp \/ AddMixed \/ PopValue \/ PrintValue
           \/ EnterScope \/ DefVariable \/ SetVariable
  <2>1. FallsThrough(Here) /\ ip' = NextIp
    BY <1>2 DEF PushValue, UnaryOp, BinaryOp, AddMixed, PopValue, PrintValue, EnterScope,
         DefVariable, SetVariable, At, FallsThrough, ValueOps, UnaryOps, BinaryOps
  <2>. QED  BY <1>1, <2>1, NextStaysInBody, LocalNesting
<1>3. CASE ExitScope
  <2>1. FallsThrough(Here) /\ (Running' => ip' = NextIp)
    BY <1>3 DEF ExitScope, At, FallsThrough, Running
  <2>. QED  BY <1>1, <2>1, NextStaysInBody, LocalNesting
<1>4. CASE Jump \/ JumpIfFalse
  <2>1. /\ Here.op \in JumpOps
        /\ \/ ip' = JumpTarget(ip, Here)
           \/ FallsThrough(Here) /\ ip' = NextIp
    BY <1>4 DEF Jump, JumpIfFalse, At, FallsThrough, JumpOps
  <2>. QED  BY <1>1, <2>1, NextStaysInBody, LocalNesting
<1>5. CASE DecFunction
  <2>1. Here.op = "OP_DEC_FUNCTION" /\ ip' = AfterBody(ip, Here)
    BY <1>5 DEF DecFunction, At
  <2>. QED  BY <1>1, <2>1, NextStaysInBody, LocalNesting
<1>. QED  BY <1>2, <1>3, <1>4, <1>5

\* A call enters a body; made inside of another, it starts above that one.
LEMMA FunctionCallNesting ==
  ASSUME Sound, CallsNested, FunctionCall
  PROVE  CallsNested'
<1>. DEFINE n == Len(callStack)
<1>1. /\ Running /\ Here.op = "OP_FUNCTION_CALL" /\ UNCHANGED <<chunk, status>>
      /\ callStack' = Append(callStack, NextIp)
      /\ bases' = Append(bases, scopeLevel)
  BY DEF FunctionCall, ResumeAddress, At
<1>2. /\ n \in Nat /\ Len(bases) = n + 1 /\ bases \in Seq(Nat) /\ callStack \in Seq(Nat)
      /\ scopeLevel \in Nat /\ NextIp \in Nat
  BY <1>1, LocalFacts, BoundsAssumption DEF Sound, TypeOK
<1>3. /\ Len(callStack') = n + 1
      /\ \A j \in 1 .. n : callStack'[j] = callStack[j]
      /\ callStack'[n + 1] = NextIp
  BY <1>1, <1>2, AppendProperties
<1>4. /\ Len(bases') = n + 2
      /\ \A j \in 1 .. n + 1 : bases'[j] = bases[j]
      /\ bases'[n + 2] = scopeLevel
  BY <1>1, <1>2, AppendProperties
<1>5. Body(chunk, NextIp) = Body(chunk, ip)
  <2>1. FallsThrough(Here)
    BY <1>1 DEF FallsThrough
  <2>. QED  BY <1>1, <2>1, NestingFacts DEF StaysInBody, Here, NextIp
<1>6. n # 0 => Body(chunk, ip) # -1
  BY <1>1 DEF CallsNested
<1>7. Body(chunk, ip') # -1
  <2>1. PICK k \in 1 .. Len(functions) : functions[k].line = lines /\ ip' = functions[k].start
    BY DEF FunctionCall, Scan
  <2>2. PICK h \in Headers(chunk) : Declares(h, functions[k])
    BY <1>1, <2>1 DEF Sound, FunctionsDeclared
  <2>3. h \in Starts(chunk) /\ chunk.code[h].op = "OP_DEC_FUNCTION"
    BY DEF Headers
  <2>4. Deliverable(chunk) /\ TypedChunk(chunk)
    BY <1>1 DEF Sound, Placed, TypeOK
  <2>6. StaysInBody(chunk, Levels(chunk), h) /\ h \in Nat
    BY <2>3, <2>4 DEF Deliverable, TypedChunk
  <2>7. Body(chunk, ip') = h
    BY <2>1, <2>2, <2>3, <2>6 DEF StaysInBody, Declares
  <2>. QED  BY <2>6, <2>7
<1>8. scopeLevel >= n
  <2>1. Body(chunk, ip) = -1 \/ Levels(chunk)[ip] >= 1
    BY <1>1, NestingFacts DEF StaysInBody, Here
  <2>2. scopeLevel = bases[n + 1] + Levels(chunk)[ip]
    BY <1>1, <1>2 DEF Sound, Placed
  <2>3. bases[n + 1] \in Nat /\ bases[n + 1] >= n - 1
    BY <1>2 DEF CallsNested
  <2>4. Levels(chunk)[ip] \in Nat
    BY <1>1, LocalFacts DEF Sound
  <2>. QED  BY <1>2, <1>6, <2>1, <2>2, <2>3, <2>4
<1>9. \A k \in 1 .. Len(bases') : bases'[k] >= k - 2
  <2>1. ASSUME NEW k \in 1 .. n + 1
        PROVE  bases[k] >= k - 2
    BY <1>2 DEF CallsNested
  <2>2. ASSUME NEW k \in 1 .. n + 2
        PROVE  bases'[k] >= k - 2
    <3>1. CASE k = n + 2
      BY <1>2, <1>4, <1>8, <3>1
    <3>2. CASE k # n + 2
      <4>1. k \in 1 .. n + 1
        BY <1>2, <3>2
      <4>. QED  BY <1>4, <2>1, <4>1
    <3>. QED  BY <3>1, <3>2
  <2>. QED  BY <1>4, <2>2
<1>10. ASSUME NEW k \in 2 .. Len(callStack')
       PROVE  Body(chunk, callStack'[k]) # -1
  <2>1. CASE k = n + 1
    BY <1>2, <1>3, <1>5, <1>6, <2>1
  <2>2. CASE k # n + 1
    <3>1. k \in 2 .. n /\ k \in 1 .. n
      BY <1>2, <1>3, <2>2
    <3>. QED  BY <1>1, <1>3, <3>1 DEF CallsNested
  <2>. QED  BY <2>1, <2>2
<1>. QED  BY <1>1, <1>7, <1>9, <1>10 DEF CallsNested

\* A return resumes inside of the body of the caller, unless it was no function.
LEMMA ReturnToCallerNesting ==
  ASSUME Sound, CallsNested, ReturnToCaller
  PROVE  CallsNested'
<1>. DEFINE n == Len(callStack)
<1>1. /\ Running /\ UNCHANGED <<chunk, status>> /\ callStack # <<>>
      /\ ip' = callStack[n]
      /\ callStack' = SubSeq(callStack, 1, n - 1)
      /\ bases' = SubSeq(bases, 1, Len(bases) - 1)
  BY DEF ReturnToCaller, At
<1>2. /\ n \in Nat \ {0} /\ n = Len(callStack) /\ Len(bases) = n + 1
      /\ bases \in Seq(Nat) /\ callStack \in Seq(Nat)
  BY <1>1 DEF Sound, TypeOK
<1>. HIDE DEF n
<1>3. n - 1 \in Nat /\ n - 1 <= n /\ n \in Nat /\ n <= Len(bases) /\ Len(bases) - 1 = n
  BY <1>2
<1>4. /\ Len(callStack') = n - 1 /\ (\A j \in 1 .. n - 1 : callStack'[j] = callStack[j])
      /\ Len(bases') = n /\ (\A j \in 1 .. n : bases'[j] = bases[j])
  BY <1>1, <1>2, <1>3, Prefix, SMTT(40)
<1>5. \A k \in 1 .. Len(bases') : bases'[k] >= k - 2
  <2>1. ASSUME NEW k \in 1 .. n
        PROVE  bases[k] >= k - 2
    <3>1. k \in 1 .. Len(bases)
      BY <1>2
    <3>. QED  BY <3>1 DEF CallsNested
  <2>. QED  BY <1>4, <2>1
<1>6. \A k \in 2 .. n : Body(chunk, callStack[k]) # -1
  BY <1>1, <1>2 DEF CallsNested
<1>7. callStack' # <<>> => Body(chunk, ip') # -1
  <2>1. callStack' # <<>> => n - 1 # 0
    BY <1>1, <1>2, SubSeqEmpty, SMTT(40)
  <2>. QED  BY <1>1, <1>2, <1>6, <2>1
<1>8. ASSUME NEW k \in 2 .. Len(callStack')
      PROVE  Body(chunk, callStack'[k]) # -1
  <2>1. k \in 2 .. n /\ k \in 1 .. n - 1
    BY <1>2, <1>4
  <2>. QED  BY <1>4, <1>6, <2>1
<1>. QED  BY <1>1, <1>5, <1>7, <1>8 DEF CallsNested

\* Every other step ends the run or starts one.
LEMMA OtherNesting ==
  ASSUME Sound, CallsNested,
         \/ Finish \/ Underflow \/ Overflow \/ NoSuchFunction \/ DanglingFunction
         \/ UndefinedVariable \/ WildPointer \/ (\E c : Interpret(c))
         \/ UNCHANGED vars
  PROVE  CallsNested'
<1>1. CASE \E c : Interpret(c)
  <2>1. callStack = <<>> /\ UNCHANGED <<callStack, bases>>
    BY <1>1 DEF Interpret, Sound, Quiet
  <2>2. \A k \in 2 .. Len(callStack) : FALSE
    BY <2>1
  <2>. QED  BY <2>1, <2>2 DEF CallsNested
<1>2. CASE UNCHANGED vars
  BY <1>2 DEF CallsNested, Running, vars
<1>3. CASE \/ Finish \/ Underflow \/ Overflow \/ NoSuchFunction \/ DanglingFunction
           \/ UndefinedVariable \/ WildPointer
  <2>1. status' # "running" /\ UNCHANGED bases
    BY <1>3 DEF Finish, Underflow, Overflow, NoSuchFunction, DanglingFunction,
         UndefinedVariable, WildPointer, Fault
  <2>. QED  BY <2>1 DEF CallsNested, Running
<1>. QED  BY <1>1, <1>2, <1>3

LEMMA NestingStep ==
  ASSUME Sound, CallsNested, AnyStep
  PROVE  CallsNested'
  BY LocalStepNesting, FunctionCallNesting, ReturnToCallerNesting, OtherNesting
     DEF AnyStep, Execute

\* While a chunk runs, the scopes are those of the calls and more.
LEMMA NestingHoldsScopes ==
  ASSUME Sound, CallsNested, Running
  PROVE  CallsHoldScopes
<1>1. /\ Len(callStack) \in Nat /\ Len(bases) = Len(callStack) + 1
      /\ bases[Len(bases)] \in Nat
  BY DEF Sound, TypeOK
<1>2. Levels(chunk)[ip] \in Nat /\ scopeLevel = bases[Len(bases)] + Levels(chunk)[ip]
  BY LocalFacts DEF Sound, Placed
<1>3. bases[Len(bases)] >= Len(bases) - 2
  BY <1>1 DEF CallsNested
<1>. QED  BY <1>1, <1>2, <1>3 DEF CallsHoldScopes

LEMMA HoldsScopesStep ==
  ASSUME CallsHoldScopes, AnyStep, ~Running'
  PROVE  CallsHoldScopes'
  BY DEF CallsHoldScopes, AnyStep, Execute, Interpret, PushValue, UnaryOp, BinaryOp, AddMixed,
         PopValue, PrintValue, EnterScope, ExitScope, DefVariable, SetVariable, Jump,
         JumpIfFalse, DecFunction, FunctionCall, ReturnToCaller, Finish, Underflow, Overflow,
         NoSuchFunction, DanglingFunction, UndefinedVariable, ReadsUnset, WildPointer, MissingValue,
         MissingArgument, Fault, At, Running, vars

LEMMA InitNested == Init => CallsNested /\ CallsHoldScopes
<1>. SUFFICES ASSUME Init PROVE CallsNested /\ CallsHoldScopes
  OBVIOUS
<1>1. /\ Len(bases) = 1 /\ bases[1] = 0 /\ Len(callStack) = 0 /\ callStack = <<>>
      /\ scopeLevel = 0 /\ status = "idle"
  BY DEF Init
<1>. QED  BY <1>1 DEF CallsNested, CallsHoldScopes, Running

\* A call can only fail for want of room among the variable tables before it
\* fails for want of room on the call stack.
THEOREM EveryCallHoldsAScope == Spec => []CallsHoldScopes
<1>1. Sound /\ CallsNested /\ [Next]_vars => CallsNested'
  BY NestingStep, NextIsStep
<1>2. Sound /\ CallsNested /\ Running => CallsHoldScopes
  BY NestingHoldsScopes
<1>3. CallsHoldScopes /\ [Next]_vars /\ ~Running' => CallsHoldScopes'
  BY HoldsScopesStep, NextIsStep
<1>. QED  BY <1>1, <1>2, <1>3, InitNested, AlwaysSound, PTL DEF Spec

-----------------------------------------------------------------------------
(* The compiler of the session *)

\* The compiler with its proof, in the place of C.
CP == INSTANCE Compiler_proofs WITH Sources <- Lines, chunk <- compiled, status <- compiling

(***************************************************************************)
(* The compiler of the session is the one of Compiler_proofs: definition   *)
(* by definition, its steps are the same steps.                            *)
(***************************************************************************)
LEMMA SameParts ==
  /\ \A types : C!Declaration(types) <=> CP!Declaration(types)
  /\ \A p, c : C!Assignment(p, c) <=> CP!Assignment(p, c)
  /\ \A p, c : C!Continue(p, c, <<>>) <=> CP!Continue(p, c, <<>>)
  /\ \A c, i : C!Write(c, i) = CP!Write(c, i)
  /\ \A op, name : C!Named(op, name) = CP!Named(op, name)
  /\ \A p, types : /\ C!consumeIf(p, types) = CP!consumeIf(p, types)
                   /\ C!Check(p, types) <=> CP!Check(p, types)
  /\ C!advanceParser(C!SkipNewlines(parser)) = CP!advanceParser(CP!SkipNewlines(parser))
<1>1. \A types : C!Declaration(types) <=> CP!Declaration(types)
  BY DEF C!Declaration, CP!Declaration, C!Doing, CP!Doing, C!Check, CP!Check,
         C!SkipNewlines, CP!SkipNewlines, C!Now, CP!Now, C!Current, CP!Current,
         C!MoveTo, CP!MoveTo
<1>2. \A p, c : C!Assignment(p, c) <=> CP!Assignment(p, c)
  BY DEF C!Assignment, CP!Assignment, C!Continue, CP!Continue, C!consumeIf, CP!consumeIf,
         C!Expression, CP!Expression, C!Task, CP!Task, C!Check, CP!Check,
         C!advanceParser, CP!advanceParser, C!Prefix, CP!Prefix,
         C!PREC_ASSIGNMENT, CP!PREC_ASSIGNMENT, C!Current, CP!Current,
         C!MoveTo, CP!MoveTo
<1>3. \A p, c : C!Continue(p, c, <<>>) <=> CP!Continue(p, c, <<>>)
  BY DEF C!Continue, CP!Continue
<1>4. \A c, i : C!Write(c, i) = CP!Write(c, i)
  BY DEF C!Write, CP!Write, C!Starts, CP!Starts, C!Width, CP!Width,
         C!NameOps, CP!NameOps, C!JumpOps, CP!JumpOps
<1>5. \A op, name : C!Named(op, name) = CP!Named(op, name)
  BY DEF C!Named, CP!Named, C!Simple, CP!Simple
<1>6. \A p, types : /\ C!consumeIf(p, types) = CP!consumeIf(p, types)
                    /\ C!Check(p, types) <=> CP!Check(p, types)
  BY DEF C!consumeIf, CP!consumeIf, C!Check, CP!Check, C!advanceParser, CP!advanceParser,
         C!Current, CP!Current, C!MoveTo, CP!MoveTo
<1>7. C!advanceParser(C!SkipNewlines(parser)) = CP!advanceParser(CP!SkipNewlines(parser))
  BY DEF C!advanceParser, CP!advanceParser, C!SkipNewlines, CP!SkipNewlines,
         C!MoveTo, CP!MoveTo, C!Current, CP!Current
<1>. QED  BY <1>1, <1>2, <1>3, <1>4, <1>5, <1>6, <1>7

LEMMA SameVariableDeclaration == C!VariableDeclaration <=> CP!VariableDeclaration
<1>1. C!consumeIf(C!advanceParser(C!SkipNewlines(parser)), {"TK_IDENTIFIER"})
        = CP!consumeIf(CP!advanceParser(CP!SkipNewlines(parser)), {"TK_IDENTIFIER"})
  BY SameParts, Zenon
<1>. QED  BY <1>1, SameParts, Zenon DEF C!VariableDeclaration, CP!VariableDeclaration

LEMMA SameNamedStatement == C!NamedStatement <=> CP!NamedStatement
  BY SameParts, Zenon DEF C!NamedStatement, CP!NamedStatement

LEMMA SameCompiler == C!Step <=> CP!Step
<1>1. C!Program <=> CP!Program
  BY DEF C!Program, CP!Program, C!Doing, CP!Doing, C!Check, CP!Check, C!Continue,
         CP!Continue, C!Task, CP!Task, C!Now, CP!Now, C!Current, CP!Current
<1>2. C!EndCompiler <=> CP!EndCompiler
  BY DEF C!EndCompiler, CP!EndCompiler, C!Doing, CP!Doing, C!Check, CP!Check,
         C!consumeIf, CP!consumeIf, C!advanceParser, CP!advanceParser, C!Write,
         CP!Write, C!Simple, CP!Simple, C!Now, CP!Now, C!Current, CP!Current, C!MoveTo,
         CP!MoveTo, C!Starts, CP!Starts, C!Width, CP!Width, C!NameOps, CP!NameOps,
         C!JumpOps, CP!JumpOps
<1>3. C!EndOfFile <=> CP!EndOfFile
  BY DEF C!EndOfFile, CP!EndOfFile, C!Declaration, CP!Declaration, C!Continue,
         CP!Continue, C!advanceParser, CP!advanceParser, C!SkipNewlines,
         CP!SkipNewlines, C!Doing, CP!Doing, C!Check, CP!Check, C!MoveTo, CP!MoveTo,
         C!Current, CP!Current, C!Now, CP!Now
<1>4. C!VariableDeclaration <=> CP!VariableDeclaration
  BY SameVariableDeclaration
<1>5. C!NamedStatement <=> CP!NamedStatement
  BY SameNamedStatement
<1>6. C!OtherStatement <=> CP!OtherStatement
  BY DEF C!OtherStatement, CP!OtherStatement, C!Declaration, CP!Declaration, C!token_t,
         CP!token_t, C!Continue, CP!Continue, C!SkipNewlines, CP!SkipNewlines, C!Task,
         CP!Task, C!Doing, CP!Doing, C!Check, CP!Check, C!OperatorTypes,
         CP!OperatorTypes, C!OperandTypes, CP!OperandTypes, C!UnruledTypes,
         CP!UnruledTypes, C!MoveTo, CP!MoveTo, C!Now, CP!Now, C!Current, CP!Current,
         C!TypeNames, CP!TypeNames
<1>7. C!SetVariable <=> CP!SetVariable
  BY DEF C!SetVariable, CP!SetVariable, C!Doing, CP!Doing, C!Continue, CP!Continue,
         C!consumeIf, CP!consumeIf, C!Terminators, CP!Terminators, C!Write, CP!Write,
         C!Named, CP!Named, C!Now, CP!Now, C!Check, CP!Check, C!advanceParser,
         CP!advanceParser, C!Starts, CP!Starts, C!Width, CP!Width, C!Simple, CP!Simple,
         C!Current, CP!Current, C!MoveTo, CP!MoveTo, C!NameOps, CP!NameOps, C!JumpOps,
         CP!JumpOps
<1>8. C!PopValue <=> CP!PopValue
  BY DEF C!PopValue, CP!PopValue, C!Doing, CP!Doing, C!Continue, CP!Continue,
         C!consumeIf, CP!consumeIf, C!Terminators, CP!Terminators, C!Write, CP!Write,
         C!Simple, CP!Simple, C!Now, CP!Now, C!Check, CP!Check, C!advanceParser,
         CP!advanceParser, C!Starts, CP!Starts, C!Width, CP!Width, C!Current,
         CP!Current, C!MoveTo, CP!MoveTo, C!NameOps, CP!NameOps, C!JumpOps, CP!JumpOps
<1>9. C!IfStatement <=> CP!IfStatement
  BY DEF C!IfStatement, CP!IfStatement, C!Keyword, CP!Keyword, C!Expression,
         CP!Expression, C!Task, CP!Task, C!Doing, CP!Doing, C!Check, CP!Check,
         C!Continue, CP!Continue, C!advanceParser, CP!advanceParser, C!Prefix,
         CP!Prefix, C!PREC_ASSIGNMENT, CP!PREC_ASSIGNMENT, C!Now, CP!Now, C!Current,
         CP!Current, C!MoveTo, CP!MoveTo
<1>10. C!WhileStatement <=> CP!WhileStatement
  BY DEF C!WhileStatement, CP!WhileStatement, C!Keyword, CP!Keyword, C!Expression,
         CP!Expression, C!Task, CP!Task, C!Doing, CP!Doing, C!Check, CP!Check,
         C!Continue, CP!Continue, C!advanceParser, CP!advanceParser, C!Prefix,
         CP!Prefix, C!PREC_ASSIGNMENT, CP!PREC_ASSIGNMENT, C!Now, CP!Now, C!Current,
         CP!Current, C!MoveTo, CP!MoveTo
<1>11. C!PrintStatement <=> CP!PrintStatement
  BY DEF C!PrintStatement, CP!PrintStatement, C!Keyword, CP!Keyword, C!Expression,
         CP!Expression, C!Task, CP!Task, C!Doing, CP!Doing, C!Check, CP!Check,
         C!Continue, CP!Continue, C!advanceParser, CP!advanceParser, C!Prefix,
         CP!Prefix, C!PREC_ASSIGNMENT, CP!PREC_ASSIGNMENT, C!Now, CP!Now, C!Current,
         CP!Current, C!MoveTo, CP!MoveTo
<1>12. C!BlockStatement <=> CP!BlockStatement
  BY DEF C!BlockStatement, CP!BlockStatement, C!Keyword, CP!Keyword, C!Task, CP!Task,
         C!Doing, CP!Doing, C!Check, CP!Check, C!Continue, CP!Continue, C!advanceParser,
         CP!advanceParser, C!Now, CP!Now, C!Current, CP!Current, C!MoveTo, CP!MoveTo
<1>13. C!ExpressionStatement <=> CP!ExpressionStatement
  BY DEF C!ExpressionStatement, CP!ExpressionStatement, C!Doing, CP!Doing, C!Check,
         CP!Check, C!Continue, CP!Continue, C!Expression, CP!Expression, C!Task,
         CP!Task, C!Now, CP!Now, C!Current, CP!Current, C!Prefix, CP!Prefix,
         C!PREC_ASSIGNMENT, CP!PREC_ASSIGNMENT
<1>14. C!Newlines <=> CP!Newlines
  BY DEF C!Newlines, CP!Newlines, C!Doing, CP!Doing, C!Continue, CP!Continue,
         C!SkipNewlines, CP!SkipNewlines, C!Now, CP!Now, C!MoveTo, CP!MoveTo
<1>15. C!Then <=> CP!Then
  BY DEF C!Then, CP!Then, C!Doing, CP!Doing, C!Continue, CP!Continue, C!Write, CP!Write,
         C!Literal, CP!Literal, C!Unpatched, CP!Unpatched, C!Task, CP!Task, C!At, CP!At,
         C!Now, CP!Now, C!Starts, CP!Starts, C!Width, CP!Width, C!Simple, CP!Simple,
         C!NameOps, CP!NameOps, C!JumpOps, CP!JumpOps
<1>16. C!Else <=> CP!Else
  BY DEF C!Else, CP!Else, C!Doing, CP!Doing, C!Check, CP!Check, C!Write, CP!Write,
         C!Literal, CP!Literal, C!Unpatched, CP!Unpatched, C!Distance, CP!Distance,
         C!Now, CP!Now, C!Continue, CP!Continue, C!advanceParser, CP!advanceParser,
         C!patchJump, CP!patchJump, C!Task, CP!Task, C!At, CP!At, C!Current, CP!Current,
         C!Starts, CP!Starts, C!Width, CP!Width, C!Simple, CP!Simple, C!MoveTo,
         CP!MoveTo, C!Patch, CP!Patch, C!NameOps, CP!NameOps, C!JumpOps, CP!JumpOps
<1>17. C!PatchJump <=> CP!PatchJump
  BY DEF C!PatchJump, CP!PatchJump, C!Doing, CP!Doing, C!Distance, CP!Distance, C!Now,
         CP!Now, C!Continue, CP!Continue, C!patchJump, CP!patchJump, C!Patch, CP!Patch
<1>18. C!LoopBody <=> CP!LoopBody
  BY DEF C!LoopBody, CP!LoopBody, C!Doing, CP!Doing, C!Continue, CP!Continue, C!Write,
         CP!Write, C!Literal, CP!Literal, C!Unpatched, CP!Unpatched, C!Task, CP!Task,
         C!At, CP!At, C!Now, CP!Now, C!Starts, CP!Starts, C!Width, CP!Width, C!Simple,
         CP!Simple, C!NameOps, CP!NameOps, C!JumpOps, CP!JumpOps
<1>19. C!Loop <=> CP!Loop
  BY DEF C!Loop, CP!Loop, C!Doing, CP!Doing, C!emitLoop, CP!emitLoop, C!Now, CP!Now,
         C!Distance, CP!Distance, C!Continue, CP!Continue, C!patchJump, CP!patchJump,
         C!Write, CP!Write, C!Literal, CP!Literal, C!Patch, CP!Patch, C!Starts,
         CP!Starts, C!Width, CP!Width, C!Simple, CP!Simple, C!NameOps, CP!NameOps,
         C!JumpOps, CP!JumpOps
<1>20. C!PrintValue <=> CP!PrintValue
  BY DEF C!PrintValue, CP!PrintValue, C!Doing, CP!Doing, C!Continue, CP!Continue,
         C!Write, CP!Write, C!Simple, CP!Simple, C!Now, CP!Now, C!Starts, CP!Starts,
         C!Width, CP!Width, C!NameOps, CP!NameOps, C!JumpOps, CP!JumpOps
<1>21. C!Block <=> CP!Block
  BY DEF C!Block, CP!Block, C!Doing, CP!Doing, C!Continue, CP!Continue, C!SkipNewlines,
         CP!SkipNewlines, C!Write, CP!Write, C!Simple, CP!Simple, C!Task, CP!Task,
         C!Now, CP!Now, C!MoveTo, CP!MoveTo, C!Starts, CP!Starts, C!Width, CP!Width,
         C!NameOps, CP!NameOps, C!JumpOps, CP!JumpOps
<1>22. C!BlockLoop <=> CP!BlockLoop
  BY DEF C!BlockLoop, CP!BlockLoop, C!Doing, CP!Doing, C!Check, CP!Check, C!Continue,
         CP!Continue, C!Task, CP!Task, C!Now, CP!Now, C!Current, CP!Current
<1>23. C!EndBlock <=> CP!EndBlock
  BY DEF C!EndBlock, CP!EndBlock, C!Doing, CP!Doing, C!Check, CP!Check, C!Continue,
         CP!Continue, C!SkipNewlines, CP!SkipNewlines, C!consumeIf, CP!consumeIf,
         C!Write, CP!Write, C!Simple, CP!Simple, C!Now, CP!Now, C!Current, CP!Current,
         C!MoveTo, CP!MoveTo, C!advanceParser, CP!advanceParser, C!Starts, CP!Starts,
         C!Width, CP!Width, C!NameOps, CP!NameOps, C!JumpOps, CP!JumpOps
<1>24. C!PrefixRule <=> CP!PrefixRule
  BY DEF C!PrefixRule, CP!PrefixRule, C!Doing, CP!Doing, C!Check, CP!Check,
         C!UnruledTypes, CP!UnruledTypes, C!advanceParser, CP!advanceParser, C!Infix,
         CP!Infix, C!Now, CP!Now, C!OperandTypes, CP!OperandTypes, C!Continue,
         CP!Continue, C!Write, CP!Write, C!OperandCode, CP!OperandCode, C!Expression,
         CP!Expression, C!Task, CP!Task, C!PrefixOperators, CP!PrefixOperators,
         C!Prefix, CP!Prefix, C!PREC_UNARY, CP!PREC_UNARY, C!Operator, CP!Operator,
         C!PrefixTypes, CP!PrefixTypes, C!Current, CP!Current, C!TypeNames,
         CP!TypeNames, C!MoveTo, CP!MoveTo, C!Starts, CP!Starts, C!Width, CP!Width,
         C!Literal, CP!Literal, C!Simple, CP!Simple, C!Named, CP!Named,
         C!PREC_ASSIGNMENT, CP!PREC_ASSIGNMENT, C!NameOps, CP!NameOps, C!JumpOps,
         CP!JumpOps
<1>25. C!InfixRule <=> CP!InfixRule
  BY DEF C!InfixRule, CP!InfixRule, C!Doing, CP!Doing, C!Check, CP!Check,
         C!UnruledTypes, CP!UnruledTypes, C!Current, CP!Current, C!Now, CP!Now,
         C!PrecedenceOf, CP!PrecedenceOf, C!Continue, CP!Continue, C!advanceParser,
         CP!advanceParser, C!Prefix, CP!Prefix, C!Operator, CP!Operator, C!TypeNames,
         CP!TypeNames, C!PREC_OR, CP!PREC_OR, C!PREC_AND, CP!PREC_AND, C!PREC_XOR,
         CP!PREC_XOR, C!PREC_EQUALITY, CP!PREC_EQUALITY, C!PREC_COMPARISON,
         CP!PREC_COMPARISON, C!PREC_TERM, CP!PREC_TERM, C!PREC_FACTOR, CP!PREC_FACTOR,
         C!PREC_NONE, CP!PREC_NONE, C!MoveTo, CP!MoveTo, C!Task, CP!Task
<1>26. C!Close <=> CP!Close
  BY DEF C!Close, CP!Close, C!Doing, CP!Doing, C!Continue, CP!Continue, C!consumeIf,
         CP!consumeIf, C!Now, CP!Now, C!Check, CP!Check, C!advanceParser,
         CP!advanceParser, C!Current, CP!Current, C!MoveTo, CP!MoveTo
<1>27. C!Unary <=> CP!Unary
  BY DEF C!Unary, CP!Unary, C!Doing, CP!Doing, C!Continue, CP!Continue, C!Write,
         CP!Write, C!UnaryCode, CP!UnaryCode, C!Now, CP!Now, C!Starts, CP!Starts,
         C!Width, CP!Width, C!Simple, CP!Simple, C!NameOps, CP!NameOps, C!JumpOps,
         CP!JumpOps
<1>28. C!Binary <=> CP!Binary
  BY DEF C!Binary, CP!Binary, C!Doing, CP!Doing, C!Continue, CP!Continue, C!WriteAll,
         CP!WriteAll, C!BinaryCode, CP!BinaryCode, C!Now, CP!Now, C!Write, CP!Write,
         C!Simple, CP!Simple, C!Starts, CP!Starts, C!Width, CP!Width, C!NameOps,
         CP!NameOps, C!JumpOps, CP!JumpOps
<1>29. C!WildRule <=> CP!WildRule
  BY DEF C!WildRule, CP!WildRule, C!Doing, CP!Doing, C!Check, CP!Check, C!UnruledTypes,
         CP!UnruledTypes, C!Stop, CP!Stop, C!Now, CP!Now, C!Current, CP!Current,
         C!TypeNames, CP!TypeNames
<1>30. C!FunctionName <=> CP!FunctionName
  BY DEF C!FunctionName, CP!FunctionName, C!Doing, CP!Doing, C!Check, CP!Check,
         C!advanceParser, CP!advanceParser, C!Task, CP!Task, C!Now, CP!Now, C!Current,
         CP!Current, C!MoveTo, CP!MoveTo
<1>31. C!Parameter <=> CP!Parameter
  BY DEF C!Parameter, CP!Parameter, C!Continue, CP!Continue, C!Doing, CP!Doing,
         C!Check, CP!Check, C!StoredTypes, CP!StoredTypes, C!AtLast, CP!AtLast,
         C!Overruns, CP!Overruns, C!advanceParser, CP!advanceParser, C!MoveTo,
         CP!MoveTo, C!Current, CP!Current, C!Now, CP!Now, C!InParameters,
         CP!InParameters, C!InReturnTypes, CP!InReturnTypes
<1>32. C!EndParameters <=> CP!EndParameters
  BY DEF C!EndParameters, CP!EndParameters, C!Doing, CP!Doing, C!Check, CP!Check,
         C!Continue, CP!Continue, C!advanceParser, CP!advanceParser, C!Now, CP!Now,
         C!Current, CP!Current, C!MoveTo, CP!MoveTo
<1>33. C!ReturnType <=> CP!ReturnType
  BY DEF C!ReturnType, CP!ReturnType, C!Continue, CP!Continue, C!Doing, CP!Doing,
         C!Check, CP!Check, C!StoredTypes, CP!StoredTypes, C!AtLast, CP!AtLast,
         C!Overruns, CP!Overruns, C!advanceParser, CP!advanceParser, C!MoveTo,
         CP!MoveTo, C!Current, CP!Current, C!Now, CP!Now, C!InParameters,
         CP!InParameters, C!InReturnTypes, CP!InReturnTypes
<1>34. C!EndReturnTypes <=> CP!EndReturnTypes
  BY DEF C!EndReturnTypes, CP!EndReturnTypes, C!Doing, CP!Doing, C!Check, CP!Check,
         C!Continue, CP!Continue, C!Now, CP!Now, C!Current, CP!Current
<1>35. C!Overrun <=> CP!Overrun
  BY DEF C!Overrun, CP!Overrun, C!Overread, CP!Overread, C!Unnamed, CP!Unnamed,
         C!Stop, CP!Stop, C!Doing, CP!Doing, C!Check, CP!Check, C!StoredTypes,
         CP!StoredTypes, C!AtLast, CP!AtLast, C!Overruns, CP!Overruns,
         C!advanceParser, CP!advanceParser, C!MoveTo, CP!MoveTo, C!Current,
         CP!Current, C!Now, CP!Now, C!InParameters, CP!InParameters, C!InReturnTypes,
         CP!InReturnTypes
<1>36. C!FunctionHeader <=> CP!FunctionHeader
  BY DEF C!FunctionHeader, CP!FunctionHeader, C!Doing, CP!Doing, C!Unnamed, CP!Unnamed,
         C!Miscounted, CP!Miscounted, C!Continue, CP!Continue, C!consumeIf,
         CP!consumeIf, C!Write, CP!Write, C!Header, CP!Header, C!Now, CP!Now,
         C!Unpatched, CP!Unpatched, C!Task, CP!Task, C!At, CP!At, C!Check, CP!Check,
         C!advanceParser, CP!advanceParser, C!Starts, CP!Starts, C!Width, CP!Width,
         C!Current, CP!Current, C!MoveTo, CP!MoveTo, C!NameOps, CP!NameOps, C!JumpOps,
         CP!JumpOps
<1>37. C!WildName <=> CP!WildName
  BY DEF C!WildName, CP!WildName, C!Doing, CP!Doing, C!Unnamed, CP!Unnamed,
         C!Overread, CP!Overread, C!Stop, CP!Stop, C!Now, CP!Now
<1>38. C!Misencoded <=> CP!Misencoded
  BY DEF C!Misencoded, CP!Misencoded, C!Doing, CP!Doing, C!Unnamed, CP!Unnamed,
         C!Overread, CP!Overread, C!Miscounted, CP!Miscounted, C!Stop, CP!Stop, C!Now,
         CP!Now
<1>39. C!EndFunction <=> CP!EndFunction
  BY DEF C!EndFunction, CP!EndFunction, C!Doing, CP!Doing, C!Write, CP!Write, C!Simple,
         CP!Simple, C!Distance, CP!Distance, C!Now, CP!Now, C!Continue, CP!Continue,
         C!Patch, CP!Patch, C!Starts, CP!Starts, C!Width, CP!Width, C!NameOps,
         CP!NameOps, C!JumpOps, CP!JumpOps
<1>40. C!TooFar <=> CP!TooFar
  BY DEF C!TooFar, CP!TooFar, C!Doing, CP!Doing, C!Check, CP!Check, C!Width, CP!Width,
         C!Simple, CP!Simple, C!Distance, CP!Distance, C!Now, CP!Now, C!emitLoop,
         CP!emitLoop, C!Stop, CP!Stop, C!Current, CP!Current, C!NameOps, CP!NameOps,
         C!JumpOps, CP!JumpOps, C!Write, CP!Write, C!Literal, CP!Literal, C!Starts,
         CP!Starts
<1>41. C!OutOfMemory <=> CP!OutOfMemory
  BY DEF C!OutOfMemory, CP!OutOfMemory, C!Stop, CP!Stop
<1>. QED
  BY <1>1, <1>2, <1>3, <1>4, <1>5, <1>6, <1>7, <1>8, <1>9, <1>10, <1>11, <1>12, <1>13,
     <1>14, <1>15, <1>16, <1>17, <1>18, <1>19, <1>20, <1>21, <1>22, <1>23, <1>24, <1>25,
     <1>26, <1>27, <1>28, <1>29, <1>30, <1>31, <1>32, <1>33, <1>34, <1>35, <1>36, <1>37,
     <1>38, <1>39, <1>40, <1>41
  DEF C!Step, CP!Step

\* What is assumed of the lines and the bounds is what is assumed there.
LEMMA SameAssumptions ==
  CP!SourcesAssumption /\ CP!NamesAssumption /\ CP!LimitsAssumption /\ CP!NameBytesAssumption
<1>1. CP!SourcesAssumption
  <2>1. \A s : C!Source(s) <=> CP!Source(s)
    BY DEF C!Source, CP!Source, C!Token, CP!Token, C!token_t, CP!token_t,
           C!OperatorTypes, CP!OperatorTypes, C!OperandTypes, CP!OperandTypes,
           C!UnruledTypes, CP!UnruledTypes, C!TypeNames, CP!TypeNames
  <2>. QED  BY <2>1, LinesAssumption, Zenon DEF CP!SourcesAssumption
<1>2. CP!NamesAssumption /\ CP!NameBytesAssumption
  BY SessionAssumption, NameBytesAssumption DEF CP!NamesAssumption, CP!NameBytesAssumption
<1>3. CP!LimitsAssumption
  <2>1. C!Unpatched = CP!Unpatched
    BY DEF C!Unpatched, CP!Unpatched
  <2>. QED  BY <2>1, SessionAssumption, Zenon DEF CP!LimitsAssumption
<1>. QED  BY <1>1, <1>2, <1>3


\* A chunk is the same chunk to the compiler and to the machine.
LEMMA SameLayout ==
  /\ \A c : CP!Starts(c) = Starts(c) /\ CP!Levels(c) = Levels(c)
  /\ \A c, p : CP!Body(c, p) = Body(c, p)
<1>1. \A S : Cardinality(S) = CP!Cardinality(S)
  BY DEF Cardinality, CP!Cardinality
<1>2. \A c : CP!Starts(c) = Starts(c)
  BY DEF Starts, CP!Starts
<1>3. \A c, p : CP!Body(c, p) = Body(c, p)
  BY DEF Body, CP!Body, Headers, CP!Headers, Starts, CP!Starts, FunctionStart,
         CP!FunctionStart, AfterBody, CP!AfterBody, Width, CP!Width, NameOps, CP!NameOps,
         JumpOps, CP!JumpOps
<1>4. \A c, p : CP!Before(c, p) = Before(c, p)
  BY <1>2, <1>3 DEF Before, CP!Before
<1>5. \A c, p, ops : CP!Count(c, p, ops) = Count(c, p, ops)
  BY <1>1, <1>4, Zenon DEF Count, CP!Count
<1>6. \A c : CP!Levels(c) = Levels(c)
  BY <1>2, <1>5, Zenon DEF Levels, CP!Levels
<1>. QED  BY <1>2, <1>3, <1>6, Zenon

LEMMA SameInstructions ==
  \A o, i : /\ CP!Width(i) = Width(i)
            /\ CP!FunctionStart(o, i) = FunctionStart(o, i)
            /\ CP!AfterBody(o, i) = AfterBody(o, i)
            /\ CP!JumpTarget(o, i) = JumpTarget(o, i)
            /\ CP!StackEffect(i) = StackEffect(i)
            /\ CP!ScopeEffect(i) = ScopeEffect(i)
            /\ CP!FallsThrough(i) <=> FallsThrough(i)
            /\ i.op \in CP!JumpOps <=> i.op \in JumpOps
<1>. USE DEF Width, CP!Width, NameOps, CP!NameOps, JumpOps, CP!JumpOps
<1>1. \A i : CP!Width(i) = Width(i)
  OBVIOUS
<1>2. \A o, i : CP!FunctionStart(o, i) = FunctionStart(o, i)
  BY DEF FunctionStart, CP!FunctionStart
<1>3. \A o, i : CP!AfterBody(o, i) = AfterBody(o, i)
  BY DEF AfterBody, CP!AfterBody
<1>4. \A o, i : CP!JumpTarget(o, i) = JumpTarget(o, i)
  BY DEF JumpTarget, CP!JumpTarget
<1>5. \A i : CP!StackEffect(i) = StackEffect(i)
  BY DEF StackEffect, CP!StackEffect, ValueOps, CP!ValueOps, BinaryOps, CP!BinaryOps, ConsumerOps, CP!ConsumerOps
<1>6. \A i : CP!ScopeEffect(i) = ScopeEffect(i)
  BY DEF ScopeEffect, CP!ScopeEffect
<1>7. \A i : (CP!FallsThrough(i) <=> FallsThrough(i)) /\ (i.op \in CP!JumpOps <=> i.op \in JumpOps)
  BY DEF FallsThrough, CP!FallsThrough
<1>. HIDE DEF Width, CP!Width, NameOps, CP!NameOps, JumpOps, CP!JumpOps
<1>. QED  BY <1>1, <1>2, <1>3, <1>4, <1>5, <1>6, <1>7, Zenon

LEMMA SameInstruction == CP!Instruction(Names) = Instruction(Names)
BY DEF Instruction, CP!Instruction, OpCode, CP!OpCode, ValueOps, CP!ValueOps,
       UnaryOps, CP!UnaryOps, BinaryOps, CP!BinaryOps, JumpOps, CP!JumpOps,
       NameOps, CP!NameOps, ScopeOps, CP!ScopeOps, ConsumerOps, CP!ConsumerOps

LEMMA StepCompiles == C!Step => compiling = "compiling"
BY DEF C!Step, C!Doing, C!Declaration, C!Keyword, C!Program, C!EndCompiler, C!EndOfFile,
       C!VariableDeclaration, C!NamedStatement, C!OtherStatement, C!SetVariable, C!PopValue,
       C!IfStatement, C!WhileStatement, C!PrintStatement, C!BlockStatement,
       C!ExpressionStatement, C!Newlines, C!Then, C!Else, C!PatchJump, C!LoopBody, C!Loop,
       C!PrintValue, C!Block, C!BlockLoop, C!EndBlock, C!PrefixRule, C!InfixRule, C!Close,
       C!Unary, C!Binary, C!WildRule, C!FunctionName, C!Parameter, C!EndParameters,
       C!ReturnType, C!EndReturnTypes, C!Overrun, C!Overruns, C!InParameters, C!InReturnTypes,
       C!FunctionHeader, C!WildName, C!Misencoded, C!EndFunction, C!TooFar, C!OutOfMemory

LEMMA SameChunk ==
  ASSUME CP!Deliverable(compiled)
  PROVE Deliverable(compiled)
<1>1. ScopeSafe(compiled)
  <2>1. CP!ScopeSafe(compiled)
    BY DEF CP!Deliverable
  <2>. DEFINE level == Levels(compiled)
             Same(o, p, effect) == p \in Starts(compiled) /\ level[p] = level[o] + effect
             Safe(o, i) ==
               /\ level[o] \in Nat
               /\ i.op = "OP_EXIT_SCOPE" => level[o] >= 1
               /\ i.op = "OP_RETURN" => level[o] = 0
               /\ FallsThrough(i) => Same(o, o + Width(i), ScopeEffect(i))
               /\ i.op \in JumpOps => Same(o, JumpTarget(o, i), 0)
               /\ i.op = "OP_DEC_FUNCTION" =>
                    /\ Same(o, AfterBody(o, i), 0)
                    /\ FunctionStart(o, i) \in Starts(compiled)
                    /\ level[FunctionStart(o, i)] = 0
                    /\ compiled.code[FunctionStart(o, i)].op = "OP_ENTER_SCOPE"
  <2>2. ASSUME NEW o \in Starts(compiled)
        PROVE  Safe(o, compiled.code[o])
    <3>1. CP!Levels(compiled) = level /\ CP!Starts(compiled) = Starts(compiled)
      BY SameLayout, Zenon
    <3>2. \A i : /\ CP!Width(i) = Width(i)
                 /\ CP!FunctionStart(o, i) = FunctionStart(o, i)
                 /\ CP!AfterBody(o, i) = AfterBody(o, i)
                 /\ CP!JumpTarget(o, i) = JumpTarget(o, i)
                 /\ CP!ScopeEffect(i) = ScopeEffect(i)
                 /\ CP!FallsThrough(i) <=> FallsThrough(i)
                 /\ i.op \in CP!JumpOps <=> i.op \in JumpOps
      BY SameInstructions, Zenon
    <3>. HIDE DEF level
    <3>. QED  BY <2>1, <3>1, <3>2 DEF CP!ScopeSafe
  <2>. QED  BY <2>2, Zenon DEF ScopeSafe
<1>2. \A o \in Starts(compiled) : StaysInBody(compiled, Levels(compiled), o)
  <2>1. ASSUME NEW o \in Starts(compiled) PROVE CP!StaysInBody(compiled, Levels(compiled), o)
    BY SameLayout, Zenon DEF CP!Deliverable
  <2>. QED  BY <2>1, SameLayout, SameInstructions, ZenonT(60) DEF StaysInBody, CP!StaysInBody
<1>3. \E depth : Bounds(compiled, depth)
  <2>1. PICK depth : CP!Bounds(compiled, depth)
    BY DEF CP!Deliverable
  <2>2. Bounds(compiled, depth)
    BY <2>1, SameLayout, SameInstructions, Zenon DEF Bounds, CP!Bounds
  <2>. QED  BY <2>2
<1>4. 0 \in Starts(compiled)
  BY SameLayout, Zenon DEF CP!Deliverable
<1>. QED  BY <1>1, <1>2, <1>3, <1>4 DEF Deliverable

\* A line begins as a compilation does.
LEMMA SameStart ==
  ASSUME NEW line \in Lines, Enter(line)
  PROVE  CP!Init'
<1>. USE DEF C!Task, CP!Task, Tk, CP!Tk, Simple, CP!Simple
<1>1. /\ source' = line /\ line \in Lines
      /\ agenda' = <<CP!Task("program")>>
      /\ registry' = {} /\ compiling' = "compiling"
  BY DEF Enter
<1>2. compiled' = [code |-> [o \in {} |-> CP!Simple("OP_RETURN")], size |-> 0]
  BY DEF Enter
<1>3. parser' = [pos |-> 1, previous |-> CP!Tk("TK_ERROR"),
                 hadError |-> line[1].type = "TK_ERROR"]
  BY DEF Enter
<1>. HIDE DEF CP!Task, CP!Tk, CP!Simple
<1>. QED  BY <1>1, <1>2, <1>3 DEF CP!Init

-----------------------------------------------------------------------------
(* Sessions *)

\* The invariants of the compiler: the chunk so far is sound and the tasks left will
\* complete it, and its values are bounded at every offset.
Kept == CP!IInv /\ CP!Lifted(agenda, compiled)

LEMMA InitKept == CP!Init => Kept
BY SameAssumptions, CP!InitHolds, CP!InitLifted DEF Kept

LEMMA EnterKept == CP!Init' => Kept'
BY InitKept, PTL

LEMMA CompileKept ==
  ASSUME Kept, CP!Step \/ UNCHANGED compilerVars
  PROVE  Kept'
<1>1. [CP!Next]_(CP!vars)
  BY DEF CP!Next, CP!vars, compilerVars
<1>2. CP!IInv'
  BY <1>1, SameAssumptions, CP!StepHolds, Zenon DEF Kept
<1>3. CP!Lifted(agenda, compiled)'
  BY <1>1, SameAssumptions, CP!StepLifts, Zenon DEF Kept
<1>. QED  BY <1>2, <1>3 DEF Kept

LEMMA DoneDelivers ==
  ASSUME Kept, compiling = "done"
  PROVE  TypedChunk(compiled) /\ Deliverable(compiled)
<1>1. CP!Deliverable(compiled) /\ compiled.code \in [CP!Starts(compiled) -> CP!Instruction(Names)]
  BY SameAssumptions, CP!DeliveredWhenDone, Zenon DEF Kept
<1>2. CP!Solid(compiled)
  BY DEF Kept, CP!IInv, CP!Held, CP!Sound
<1>3. compiled.code \in [Starts(compiled) -> Instruction(Names)]
  BY <1>1, SameLayout, SameInstruction, Zenon
<1>4. compiled.size \in Nat /\ Starts(compiled) \subseteq 0 .. compiled.size - 1
  BY <1>2, SameLayout DEF CP!Solid
<1>. QED  BY <1>1, <1>3, <1>4, SameChunk DEF TypedChunk

(***************************************************************************)
(* Whatever the line: the compilation keeps to the invariant of its proof, *)
(* and the machine, given nothing else, to its own.                        *)
(***************************************************************************)
SessionInv ==
  /\ Sound
  /\ compiling \in {"compiling", "done"} => Kept

LEMMA SessionStep == SessionInv /\ [SessionNext]_sessionVars => SessionInv'
<1>. SUFFICES ASSUME SessionInv, [SessionNext]_sessionVars
              PROVE  SessionInv'
  OBVIOUS
<1>1. ASSUME NEW line \in Lines, Enter(line) PROVE SessionInv'
  <2>1. UNCHANGED vars
    BY <1>1 DEF Enter
  <2>2. Kept'
    BY <1>1, SameStart, EnterKept
  <2>. QED  BY <2>1, <2>2, StutterStep DEF SessionInv
<1>2. ASSUME Compile PROVE SessionInv'
  <2>1. UNCHANGED vars /\ CP!Step
    BY <1>2, SameCompiler DEF Compile
  <2>2. compiling = "compiling"
    BY <1>2, StepCompiles DEF Compile
  <2>3. Kept'
    BY <2>1, <2>2, CompileKept DEF SessionInv
  <2>. QED  BY <2>1, <2>3, StutterStep DEF SessionInv
<1>3. ASSUME Load PROVE SessionInv'
  <2>1. TypedChunk(compiled) /\ Deliverable(compiled)
    BY <1>3, DoneDelivers DEF Load, SessionInv
  <2>2. Sound'
    BY <1>3, <2>1, InterpretStep DEF Load, SessionInv
  <2>. QED  BY <1>3, <2>2 DEF Load, SessionInv
<1>4. ASSUME Run PROVE SessionInv'
  <2>1. Sound'
    BY <1>4, ExecuteSound DEF Run, SessionInv
  <2>. QED  BY <1>4, <2>1, CompileKept DEF Run, SessionInv, compilerVars
<1>5. ASSUME Hang \/ UNCHANGED sessionVars PROVE SessionInv'
  <2>1. UNCHANGED vars /\ UNCHANGED compilerVars
    BY <1>5 DEF Hang, sessionVars
  <2>. QED  BY <2>1, StutterStep, CompileKept DEF SessionInv, compilerVars
<1>. QED  BY <1>1, <1>2, <1>3, <1>4, <1>5 DEF SessionNext, SessionRest

LEMMA SessionAlways == SessionSpec => []SessionInv
<1>1. SessionInit => SessionInv
  BY InitSound DEF SessionInit, SessionInv
<1>. QED  BY <1>1, SessionStep, PTL DEF SessionSpec

\* Whatever the lines were, broken or not: when the prompt is back no scope is open, no
\* call unfinished, no value on the stack and no name in a table above the top scope.  Neither
\* compile() nor run() could promise it: run() may trust the chunks that compile() makes, and
\* those are written by error paths that nobody runs.
THEOREM EveryPromptIsClean == SessionSpec => []PromptIsClean
<1>1. ASSUME Sound, AtPrompt
      PROVE  /\ scopeLevel = 0 /\ callStack = <<>> /\ stack = <<>>
             /\ \A l \in 1 .. StackMax - 1 : DOMAIN tables[l] = {}
  <2>1. scopeLevel = 0 /\ callStack = <<>> /\ stack = <<>> /\ ~Running
    BY <1>1 DEF AtPrompt, Sound, Quiet, Running
  <2>2. \A l \in 1 .. StackMax - 1 : tables[l] = EmptyTable
    BY <1>1, <2>1 DEF Sound, FreshScopes
  <2>. QED  BY <2>1, <2>2 DEF EmptyTable
<1>2. SessionInv => PromptIsClean
  BY <1>1 DEF SessionInv, PromptIsClean
<1>. QED  BY <1>2, SessionAlways, PTL

\* Whatever the session does is a step of the machine, or none.
LEMMA SessionMoves == [SessionNext]_sessionVars => AnyStep
BY DEF SessionNext, Enter, Compile, Load, Run, Hang, SessionRest, AnyStep, sessionVars

\* A script runs one chunk, which declares all the functions there are.
ScriptAlive ==
  /\ lines = 0 => functions = <<>> /\ status = "idle"
  /\ mode = "VM_MODE_STATIC" =>
       /\ status # "dangling_function"
       /\ Running => \A k \in 1 .. Len(functions) : functions[k].line = lines

LEMMA ScriptStaysAlive ==
  ASSUME Sound, ScriptAlive, AnyStep
  PROVE  ScriptAlive'
<1>1. CASE \E c : Interpret(c)
  <2>1. /\ mode = "VM_MODE_STATIC" => functions = <<>>
        /\ lines' = lines + 1 /\ status' = "running" /\ UNCHANGED <<mode, functions>>
    BY <1>1 DEF Interpret, ScriptAlive
  <2>2. lines' # 0
    BY <2>1 DEF Sound, TypeOK
  <2>. QED  BY <2>1, <2>2 DEF ScriptAlive
<1>2. CASE DecFunction
  <2>1. PICK f : functions' = Append(functions, f) /\ f.line = lines
    BY <1>2 DEF DecFunction
  <2>2. functions \in Seq(Function)
    BY DEF Sound, TypeOK
  <2>3. \A k \in 1 .. Len(functions') : k \in 1 .. Len(functions) \/ functions'[k] = f
    BY <2>1, <2>2
  <2>4. \A k \in 1 .. Len(functions) : functions'[k] = functions[k]
    BY <2>1, <2>2
  <2>5. Running /\ UNCHANGED <<mode, lines, status>>
    BY <1>2 DEF DecFunction, At
  <2>. QED  BY <2>1, <2>3, <2>4, <2>5 DEF ScriptAlive, Running
<1>3. CASE DanglingFunction
  <2>1. PICK k \in 1 .. Len(functions) : functions[k].line # lines
    BY <1>3 DEF DanglingFunction, Scan
  <2>2. Running /\ UNCHANGED <<mode, lines, functions>> /\ status' = "dangling_function"
    BY <1>3 DEF DanglingFunction, Fault, At
  <2>. QED  BY <2>1, <2>2 DEF ScriptAlive, Running
<1>4. CASE Finish
  <2>1. Running /\ UNCHANGED <<mode, lines>> /\ status' = "ok"
    BY <1>4 DEF Finish, At
  <2>. QED  BY <2>1 DEF ScriptAlive, Running
<1>5. CASE UNCHANGED vars
  BY <1>5 DEF ScriptAlive, Running, vars
<1>6. CASE \/ Underflow \/ Overflow \/ NoSuchFunction \/ UndefinedVariable
           \/ WildPointer
  <2>1. /\ Running /\ UNCHANGED <<mode, lines, functions>>
        /\ status' \notin {"idle", "running", "dangling_function"}
    BY <1>6 DEF Underflow, Overflow, NoSuchFunction, UndefinedVariable, ReadsUnset,
         MissingValue, MissingArgument, WildPointer, Fault, At
  <2>. QED  BY <2>1 DEF ScriptAlive, Running
<1>7. CASE \/ PushValue \/ UnaryOp \/ BinaryOp \/ AddMixed \/ PopValue \/ PrintValue
           \/ EnterScope \/ ExitScope \/ DefVariable \/ SetVariable \/ Jump \/ JumpIfFalse
           \/ FunctionCall \/ ReturnToCaller
  <2>1. Running /\ UNCHANGED <<mode, lines, functions>> /\ UNCHANGED status
    BY <1>7, ExitScopeStep DEF PushValue, UnaryOp, BinaryOp, AddMixed, PopValue, PrintValue,
         EnterScope, ExitScope, DefVariable, SetVariable, Jump, JumpIfFalse, FunctionCall,
         ReturnToCaller, At
  <2>. QED  BY <2>1 DEF ScriptAlive, Running
<1>. QED  BY <1>1, <1>2, <1>3, <1>4, <1>5, <1>6, <1>7 DEF AnyStep, Execute

\* In a session of any lines the machine stays inside the chunk it was given - ip, the resume
\* addresses and the functions that chunk declared; a function of an earlier line it may still
\* meet by name - at a scope level the chunk determines, and never leaves a scope it is not
\* in: the exit(EXIT_FAILURE) of OP_EXIT_SCOPE is out of reach.  The scopes it opens start empty, and the call stack is
\* never fuller than the variable tables.
THEOREM SessionsStaySafe ==
  SessionSpec => [](PointersStayInChunk /\ ScopesBalanced /\ FreshScopes /\ CallsHoldScopes)
<1>1. SessionInit => ScriptAlive /\ CallsNested /\ CallsHoldScopes
  BY InitNested DEF SessionInit, Init, ScriptAlive, Running
<1>2. SessionInv /\ ScriptAlive /\ [SessionNext]_sessionVars => ScriptAlive'
  BY ScriptStaysAlive, SessionMoves DEF SessionInv
<1>3. SessionInv /\ CallsNested /\ [SessionNext]_sessionVars => CallsNested'
  BY NestingStep, SessionMoves DEF SessionInv
<1>4. SessionInv /\ CallsNested /\ Running => CallsHoldScopes
  BY NestingHoldsScopes DEF SessionInv
<1>5. CallsHoldScopes /\ [SessionNext]_sessionVars /\ ~Running' => CallsHoldScopes'
  BY HoldsScopesStep, SessionMoves
<1>6. SessionInv => ScopesBalanced /\ FreshScopes
  BY DEF SessionInv, Sound, Placed, Quiet, ScopesBalanced
<1>7. SessionInv /\ ScriptAlive => PointersStayInChunk
  BY PointersHere DEF SessionInv, ScriptAlive
<1>. QED
  BY <1>1, <1>2, <1>3, <1>4, <1>5, <1>6, <1>7, SessionAlways, PTL DEF SessionSpec

\* Nor does a step of it add a name to an enclosing scope or take one from an open scope.
THEOREM SessionsKeepNames == SessionSpec => OpenScopesKeepTheirNames
<1>1. SessionInv /\ [SessionNext]_sessionVars =>
        [\A l \in 0 .. StackMax - 1 :
           /\ l < scopeLevel => DOMAIN tables'[l] \subseteq DOMAIN tables[l]
           /\ l <= scopeLevel /\ l <= scopeLevel' =>
                DOMAIN tables[l] \subseteq DOMAIN tables'[l]]_vars
  BY StepKeepsNames, SessionMoves DEF SessionInv
<1>. QED  BY <1>1, SessionAlways, PTL DEF SessionSpec, OpenScopesKeepTheirNames
=============================================================================
