----------------------------- MODULE ObjectFile -----------------------------
(***************************************************************************)
(* The bytes of a chunk: how the compiler writes an instruction, on a      *)
(* machine of either byte order (compiler.c, bytes.c), how the chunk       *)
(* becomes a file (main.c -c, serializeChunk), and how the disassembler    *)
(* reads it back, on that machine (-d) or from a file on any (-D), or from *)
(* a file that is no chunk at all.                                         *)
(*                                                                         *)
(* Positions count from 0, as offsets do in C.  A read outside what was    *)
(* allocated ends in the status "wild".                                    *)
(***************************************************************************)
EXTENDS Integers, Sequences, SequencesExt

CONSTANTS
  Doubles,       \* numbers, as the eight bytes of the double, most significant first
  Texts,         \* strings and names: sequences of bytes without a zero
  Files,         \* files that did not come from the compiler
  Ops,           \* bound: the opcodes in a chunk
  Headers,       \* bound: what functions declare: name, types and names of parameters, rets
  JumpMax,       \* INT16_MAX: the longest jump and the longest function
  MaxWritten,    \* bound: instructions in a chunk
  MaxLost        \* bound: bytes at the end of a file that are not written

Bytes == 0 .. 255
Characters == 1 .. 255
Types == 0 .. 4   \* of typechecker.h

\* 256 parameters, names that are missing and types that are none are in Compiler.
ASSUME BytesAssumption ==
  /\ \A d \in Doubles : d \in Seq(Bytes) /\ Len(d) = 8
  /\ \A t \in Texts : t \in Seq(Characters)
  /\ \A f \in Files : f \in Seq(Bytes)
ASSUME HeadersAssumption ==
  \A f \in Headers :
    /\ f.name \in Seq(Characters) /\ f.names \in Seq(Seq(Characters))
    /\ f.types \in Seq(Types) /\ f.rets \in Seq(Types)
    /\ Len(f.names) = Len(f.types) /\ Len(f.types) < 256 /\ Len(f.rets) < 256
ASSUME JumpMaxAssumption == JumpMax \in Nat /\ JumpMax < 65536

VARIABLES
  order,      \* the byte order of the machine the process runs on
  code,       \* chunk->code
  written,    \* history: the instructions in it, with their offsets
  pending,    \* offsets of the jumps and headers that are not patched yet
  file,       \* the object file
  content,    \* what the disassembler was given
  size,       \* chunk.size for the disassembler
  position,   \* current - start in disassembleChunk()
  listing,    \* what was listed
  status      \* "compiling", "exit", "stored", "listing", "listed" or "wild"

vars == <<order, code, written, pending, file, content, size, position, listing, status>>

-----------------------------------------------------------------------------
(* bytes.c *)

Orders == {"big", "little"}

\* A value of several bytes as it lies in memory.
InMemory(bytes, o) == IF o = "big" THEN bytes ELSE Reverse(bytes)
TwoBytes(n) == <<n \div 256, n % 256>>

\* Mutant: the bytes are copied as they are.
transpose_Never(source) == source

\* transpose2Bytes and transpose8Bytes: to and from Big-Endian.
transpose(source) == IF order = "big" THEN source ELSE Reverse(source)

Stored(bytes) == transpose(InMemory(bytes, order))
Loaded(bytes) == InMemory(transpose(bytes), order)

-----------------------------------------------------------------------------
(* Instructions *)

\* The enumeration OpCode.
OpCodes == <<"OP_RETURN", "OP_NUMBER", "OP_STRING", "OP_NEGATE", "OP_ADD", "OP_SUBTRACT",
             "OP_MULTIPLY", "OP_DIVIDE", "OP_MODULO", "OP_TRUE", "OP_FALSE", "OP_EQUALS",
             "OP_GREATER", "OP_LESSER", "OP_NOT", "OP_AND", "OP_OR", "OP_XOR",
             "OP_DEF_VARIABLE", "OP_SET_VARIABLE", "OP_GET_VARIABLE", "OP_POP",
             "OP_ENTER_SCOPE", "OP_EXIT_SCOPE", "OP_PRINT", "OP_JUMP", "OP_JUMP_IF_FALSE",
             "OP_LOOP", "OP_DEC_FUNCTION", "OP_FUNCTION_CALL">>
Opcode == [op \in ToSet(OpCodes) |-> (CHOOSE k \in 1 .. Len(OpCodes) : OpCodes[k] = op) - 1]

TextOps == {"OP_STRING", "OP_DEF_VARIABLE", "OP_SET_VARIABLE", "OP_GET_VARIABLE",
            "OP_FUNCTION_CALL"}
ForwardOps == {"OP_JUMP", "OP_JUMP_IF_FALSE"}
JumpOps == ForwardOps \cup {"OP_LOOP"}
SimpleOps == ToSet(OpCodes) \ (TextOps \cup JumpOps \cup {"OP_NUMBER", "OP_DEC_FUNCTION"})

\* What the disassembler tells of an instruction: its offset, a number, a distance with
\* where it leads, texts, types of parameters and of return values.
Entry(at, op) == [at |-> at, op |-> op, number |-> <<>>, n |-> 0, goto |-> 0,
                  texts |-> <<>>, types |-> <<>>, rets |-> <<>>]
Target(at, op, n) == CASE op = "OP_LOOP" -> at - n
                       [] op = "OP_DEC_FUNCTION" -> at + 1 + n
                       [] OTHER -> at + n
Leading(entry, n) == [entry EXCEPT !.n = n, !.goto = Target(entry.at, entry.op, n)]

-----------------------------------------------------------------------------
(* Writing *)

Text(t) == t \o <<0>>   \* emitString
Joined(texts) == FlattenSeq([k \in 1 .. Len(texts) |-> Text(texts[k])])

\* How far it is from an offset to the end of the chunk.
Distance(at) == Len(code) - at

Emit(entry, operands) ==
  /\ status = "compiling"
  /\ Len(written) < MaxWritten
  /\ code' = code \o <<Opcode[entry.op]>> \o operands
  /\ written' = Append(written, entry)
  /\ UNCHANGED <<order, file, content, size, position, listing, status>>

Here(op) == Entry(Len(code), op)

EmitByte(op) == Emit(Here(op), <<>>) /\ UNCHANGED pending
EmitDouble(d) == Emit([Here("OP_NUMBER") EXCEPT !.number = d], Stored(d)) /\ UNCHANGED pending
EmitString(op, t) == Emit([Here(op) EXCEPT !.texts = <<t>>], Text(t)) /\ UNCHANGED pending

\* emitJump
EmitJump(op) == Emit(Here(op), <<255, 255>>) /\ pending' = pending \cup {Len(code)}

\* emitLoop, to the start of an instruction.
EmitLoop(k) ==
  /\ Distance(written[k].at) <= JumpMax
  /\ Emit(Leading(Here("OP_LOOP"), Distance(written[k].at)),
          Stored(TwoBytes(Distance(written[k].at))))
  /\ UNCHANGED pending

\* functionDefinition, up to the body: all types come before all names.
EmitHeader(f) ==
  /\ Emit([Here("OP_DEC_FUNCTION") EXCEPT !.texts = <<f.name>> \o f.names, !.types = f.types,
                                          !.rets = f.rets],
          <<255, 255>> \o Text(f.name) \o <<Len(f.types)>> \o f.types \o Joined(f.names)
            \o <<Len(f.rets)>> \o f.rets)
  /\ pending' = pending \cup {Len(code)}

\* Mutant: the patch goes where the opcode is.
Patched_OverOpcode(at, n) == [k \in 1 .. Len(code) |-> IF k \in {at + 1, at + 2}
                                              THEN Stored(TwoBytes(n))[k - at] ELSE code[k]]

\* The two bytes behind the opcode.
Patched(at, n) == [k \in 1 .. Len(code) |-> IF k \in {at + 2, at + 3}
                                              THEN Stored(TwoBytes(n))[k - at - 1] ELSE code[k]]

\* What patchJump, and the end of functionDefinition, write: a length counts from itself.
Length(k) == Distance(written[k].at) - (IF written[k].op = "OP_DEC_FUNCTION" THEN 1 ELSE 0)

Patch(k) ==
  LET at == written[k].at
      n == Length(k)
  IN  /\ status = "compiling"
      /\ at \in pending
      /\ n <= JumpMax
      /\ code' = Patched(at, n)
      /\ written' = [written EXCEPT ![k] = Leading(@, n)]
      /\ pending' = pending \ {at}
      /\ UNCHANGED <<order, file, content, size, position, listing, status>>

\* "Cannot jump; too many instructions.", "Function body is too large!": the process exits.
TooFar(k) ==
  /\ status = "compiling"
  /\ \/ Distance(written[k].at) > JumpMax /\ Len(written) < MaxWritten
     \/ written[k].at \in pending /\ Length(k) > JumpMax
  /\ status' = "exit"
  /\ UNCHANGED <<order, code, written, pending, file, content, size, position, listing>>

-----------------------------------------------------------------------------
(* Files *)

Complete == status = "compiling" /\ pending = {} /\ written # <<>>

\* serializeChunk: nobody looks whether putc() wrote the byte.
Serialize(k) ==
  /\ Complete
  /\ file' = SubSeq(code, 1, k)
  /\ status' = "stored"
  /\ UNCHANGED <<order, code, written, pending, content, size, position, listing>>

\* -d
ListMemory ==
  /\ Complete
  /\ content' = code /\ size' = Len(code)
  /\ status' = "listing"
  /\ UNCHANGED <<order, code, written, pending, file, position, listing>>

\* -D, on any machine: readFile() appends a zero, lenFile() does not count it.
ListFile(o) ==
  /\ status = "stored"
  /\ order' = o
  /\ content' = file \o <<0>> /\ size' = Len(file)
  /\ status' = "listing"
  /\ UNCHANGED <<code, written, pending, file, position, listing>>

-----------------------------------------------------------------------------
(* Disassembling *)

Allocated(p) == p < Len(content)
ByteAt(p) == content[p + 1]
Slice(p, n) == SubSeq(content, p + 1, p + n)

\* strlen, n times: the position behind n texts that lie one after the other from p on, if so
\* many end.
EndAt(n, p, q) ==
  /\ q = p \/ ByteAt(q - 1) = 0
  /\ Cardinality({r \in p .. q - 1 : ByteAt(r) = 0}) = n
HasTexts(n, p) == \E q \in p .. Len(content) : EndAt(n, p, q)
Behind(n, p) == CHOOSE q \in p .. Len(content) : EndAt(n, p, q)

\* The text between two positions, without its zero.
Between(p, q) == Slice(p, q - p - 1)

Current == ByteAt(position)
Instruction == IF Current < Len(OpCodes) THEN OpCodes[Current + 1] ELSE "unknown"
Reading(ops) == status = "listing" /\ position < size /\ Instruction \in ops

List(entry, to) ==
  /\ listing' = Append(listing, entry)
  /\ position' = to
  /\ UNCHANGED <<order, code, written, pending, file, content, size, status>>

This == Entry(position, Instruction)

\* Mutant: a byte that is no opcode is not passed over.
ListByte_Stays ==
  \/ Reading(SimpleOps) /\ List(This, position + 1)
  \/ Reading({"unknown"}) /\ UNCHANGED vars

\* An opcode alone, or a byte that is none.
ListByte == Reading(SimpleOps \cup {"unknown"}) /\ List(This, position + 1)

ListNumber ==
  /\ Reading({"OP_NUMBER"})
  /\ Allocated(position + 8)
  /\ List([This EXCEPT !.number = Loaded(Slice(position + 1, 8))], position + 9)

\* Mutant: two zeros are taken to end a text.
ListText_Past ==
  /\ Reading(TextOps)
  /\ HasTexts(1, position + 1)
  /\ \E next \in {Behind(1, position + 1)} :
       List([This EXCEPT !.texts = <<Between(position + 1, next)>>], next + 1)

ListText ==
  /\ Reading(TextOps)
  /\ HasTexts(1, position + 1)
  /\ \E next \in {Behind(1, position + 1)} :
       List([This EXCEPT !.texts = <<Between(position + 1, next)>>], next)

UInt16At(p) == LET two == Loaded(Slice(p, 2)) IN 256 * two[1] + two[2]

ListJump ==
  /\ Reading(JumpOps)
  /\ Allocated(position + 2)
  /\ List(Leading(This, UInt16At(position + 1)), position + 3)

\* decodeFunc: where its parts begin.
Name == position + 3
Arity == Behind(1, Name)
Names == Arity + 1 + ByteAt(Arity)
Rarity == Behind(ByteAt(Arity), Names)
HeaderAllocated ==
  /\ HasTexts(1, Name) /\ Allocated(Arity)
  /\ HasTexts(ByteAt(Arity), Names)
  /\ Allocated(Rarity) /\ Allocated(Rarity + ByteAt(Rarity))

HeaderEntry(arity, names, rarity) ==
  Leading([This EXCEPT !.texts = <<Between(Name, arity)>> \o
                                 [k \in 1 .. ByteAt(arity) |->
                                    Between(Behind(k - 1, names), Behind(k, names))],
                       !.types = Slice(arity + 1, ByteAt(arity)),
                       !.rets = Slice(rarity + 1, ByteAt(rarity))],
          UInt16At(position + 1))

\* Mutant: goes on behind the body, as the machine does.
ListHeader_SkipsBody ==
  /\ Reading({"OP_DEC_FUNCTION"})
  /\ HeaderAllocated
  /\ \E arity \in {Arity}, names \in {Names}, rarity \in {Rarity} :
       List(HeaderEntry(arity, names, rarity), position + 1 + UInt16At(position + 1))

ListHeader ==
  /\ Reading({"OP_DEC_FUNCTION"})
  /\ HeaderAllocated
  /\ \E arity \in {Arity}, names \in {Names}, rarity \in {Rarity} :
       List(HeaderEntry(arity, names, rarity), rarity + 1 + ByteAt(rarity))

Wild ==
  /\ \/ Reading({"OP_NUMBER"}) /\ ~Allocated(position + 8)
     \/ Reading(TextOps) /\ ~HasTexts(1, position + 1)
     \/ Reading(JumpOps) /\ ~Allocated(position + 2)
     \/ Reading({"OP_DEC_FUNCTION"}) /\ ~HeaderAllocated
  /\ status' = "wild"
  /\ UNCHANGED <<order, code, written, pending, file, content, size, position, listing>>

EndListing ==
  /\ status = "listing"
  /\ position >= size
  /\ status' = "listed"
  /\ UNCHANGED <<order, code, written, pending, file, content, size, position, listing>>

-----------------------------------------------------------------------------
Init ==
  /\ order \in Orders
  /\ code = <<>> /\ written = <<>> /\ pending = {}
  /\ content = <<>> /\ size = 0 /\ position = 0 /\ listing = <<>>
  /\ \/ file = <<>> /\ status = "compiling"
     \/ file \in Files /\ status = "stored"

Compile ==
  \/ \E op \in SimpleOps \cap Ops : EmitByte(op)
  \/ \E d \in Doubles : EmitDouble(d)
  \/ \E op \in TextOps \cap Ops, t \in Texts : EmitString(op, t)
  \/ \E op \in ForwardOps \cap Ops : EmitJump(op)
  \/ \E f \in Headers : EmitHeader(f)
  \/ \E k \in 1 .. Len(written) : EmitLoop(k) \/ Patch(k) \/ TooFar(k)
Keep == ListMemory \/ \E k \in 0 .. Len(code) : Len(code) - k <= MaxLost /\ Serialize(k)
Disassemble ==
  \/ ListByte \/ ListNumber \/ ListText \/ ListJump \/ ListHeader \/ Wild \/ EndListing

Ended == status \in {"exit", "listed", "wild"} /\ UNCHANGED vars

Next == Compile \/ Keep \/ (\E o \in Orders : ListFile(o)) \/ Disassemble \/ Ended

\* disassembleChunk() loops until it is at the end.
Spec == Init /\ [][Next]_vars /\ WF_vars(Disassemble)

-----------------------------------------------------------------------------
(* Properties *)

\* Every variable has its type, and the pointer of the disassembler never passes the end
\* of what was allocated.
TypeOK ==
  /\ order \in Orders
  /\ code \in Seq(Bytes) /\ file \in Seq(Bytes) /\ content \in Seq(Bytes)
  /\ pending \subseteq {written[k].at : k \in 1 .. Len(written)}
  /\ size <= Len(content) /\ position \in 0 .. Len(content)
  /\ status \in {"compiling", "exit", "stored", "listing", "listed", "wild"}

\* The operands of an instruction, for no machine, with the two bytes a distance is written in.
Operands(i, two) ==
  CASE i.op = "OP_NUMBER" -> i.number
    [] i.op \in TextOps -> Text(i.texts[1])
    [] i.op \in JumpOps -> two
    [] i.op \in SimpleOps -> <<>>
    [] i.op = "OP_DEC_FUNCTION" ->
         two \o Text(i.texts[1]) \o <<Len(i.types)>> \o i.types \o Joined(Tail(i.texts))
           \o <<Len(i.rets)>> \o i.rets

\* An instruction as bytes, told from the instruction alone.
Encoded(i) ==
  <<Opcode[i.op]>> \o Operands(i, IF i.at \in pending THEN <<255, 255>> ELSE TwoBytes(i.n))

\* "Byte order is Big-Endian": what is written does not depend on the machine, through
\* every patch of a distance.
ChunksArePortable ==
  code = FlattenSeq([k \in 1 .. Len(written) |-> Encoded(written[k])])

Listing == status \in {"listing", "listed", "wild"} /\ written # <<>>
Whole == Listing /\ size = Len(code)

\* A chunk that is listed in memory, or on any machine from a file with all its bytes, is
\* listed instruction for instruction, each number, name and distance as it was compiled.
ListsWhatWasWritten ==
  Whole => /\ listing = SubSeq(written, 1, Len(listing))
           /\ status = "listed" => listing = written
           /\ status # "wild"

\* From a file that lacks its last bytes, whatever was listed before the last entry is
\* right, and the last entry is of the right kind at the right place.  A text that was cut off,
\* in this or any other file, ends with the file: only numbers, distances and headers are
\* read past it.
CutFilesListAPrefix ==
  /\ Listing =>
       /\ Len(listing) <= Len(written)
       /\ \A k \in 1 .. Len(listing) :
            /\ k < Len(listing) => listing[k] = written[k]
            /\ listing[k].at = written[k].at /\ listing[k].op = written[k].op
  /\ status = "wild" => Instruction \notin TextOps

\* Listing comes to an end, whatever is in the file.
ListingEnds == (status = "listing") ~> (status \in {"listed", "wild"})
=============================================================================
