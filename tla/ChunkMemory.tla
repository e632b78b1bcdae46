----------------------------- MODULE ChunkMemory -----------------------------
(***************************************************************************)
(* The memory of a chunk, as chunk.c keeps it: an array of bytes and an    *)
(* array of locations that grow together, and the bytes the compiler goes  *)
(* back to and patches, by their offset, after the arrays may have moved.  *)
(***************************************************************************)
EXTENDS Integers, Sequences

CONSTANTS
  Bytes,         \* byte_t
  OP_LOOP,       \* the opcode of a jump back
  Blank,         \* 0xff, where a distance is yet to come
  Locations,     \* of tokens
  Garbage,       \* what realloc() leaves in memory
  LocationSize,  \* sizeof(Location)
  Smallest,      \* the first capacity: 8
  MaxCapacity,   \* bound: realloc() gives no more entries than this
  MaxChunks      \* bound: chunks that are freed

ASSUME BytesAssumption == Blank \in Bytes /\ OP_LOOP \in Bytes
ASSUME GarbageAssumption == Garbage \notin Bytes \cup Locations
ASSUME SmallestAssumption == Smallest \in Nat \ {0}
ASSUME MemoryAssumption == LocationSize \in Nat \ {0} /\ MaxCapacity \in Nat /\ MaxChunks \in Nat

VARIABLES
  chunk,       \* the chunk being compiled
  allocated,   \* vm.allocatedBytes
  freed,       \* chunks freed so far
  status       \* "live", or "exit" when the process gave up

vars == <<chunk, allocated, freed, status>>

-----------------------------------------------------------------------------
Entries(n) == 0 .. n - 1
Resized(array, n) == [k \in Entries(n) |-> IF k \in DOMAIN array THEN array[k] ELSE Garbage]

Array(code, locations, size, capacity) ==
  [code |-> code, locations |-> locations, size |-> size, capacity |-> capacity]
NoEntries == [k \in Entries(0) |-> Garbage]

\* initChunk
Fresh == Array(NoEntries, NoEntries, 0, 0)

GROW_CAPACITY(capacity) == IF capacity < Smallest THEN Smallest ELSE 2 * capacity

Grown(c) ==
  IF c.size < c.capacity THEN c
  ELSE LET new == GROW_CAPACITY(c.capacity)
       IN  Array(Resized(c.code, new), Resized(c.locations, new), c.size, new)

writeChunk(c, b, l) ==
  LET g == Grown(c)
  IN  Array([g.code EXCEPT ![c.size] = b], [g.locations EXCEPT ![c.size] = l], c.size + 1, g.capacity)

\* transpose2Bytes into the array.
Patched(c, o, high, low) ==
  Array([k \in DOMAIN c.code |-> IF k = o THEN high ELSE IF k = o + 1 THEN low ELSE c.code[k]],
        c.locations, c.size, c.capacity)

Three(c, b, l) == writeChunk(writeChunk(writeChunk(c, b, l), Blank, l), Blank, l)

-----------------------------------------------------------------------------
Init == chunk = Fresh /\ allocated = 0 /\ freed = 0 /\ status = "live"

Live == status = "live"

Held(c) == c.capacity * (1 + LocationSize)

\* Mutant: the bytes of the locations are not counted.
Become_CountsCode(c) ==
  /\ Live
  /\ c.capacity <= MaxCapacity
  /\ chunk' = c
  /\ allocated' = allocated + c.capacity - chunk.capacity
  /\ UNCHANGED <<freed, status>>

\* reallocate() counts the bytes and has what it asks for.
Become(c) ==
  /\ Live
  /\ c.capacity <= MaxCapacity
  /\ chunk' = c
  /\ allocated' = allocated + Held(c) - Held(chunk)
  /\ UNCHANGED <<freed, status>>

emitByte(b, l) == Become(writeChunk(chunk, b, l))
emitJump(b, l) == Become(Three(chunk, b, l))

\* Mutant: the place to patch is in the arrays as they were before the bytes were written.
emitLoop_OldArray(high, low, l) ==
  LET c == Three(chunk, OP_LOOP, l)
  IN  Become(IF c.capacity = chunk.capacity THEN Patched(c, c.size - 2, high, low) ELSE c)

emitLoop(high, low, l) ==
  LET c == Three(chunk, OP_LOOP, l)
  IN  Become(Patched(c, c.size - 2, high, low))

\* patchJump and patchGeneric: the two bytes behind an opcode.
patch(o, high, low) ==
  /\ o + 2 < chunk.size
  /\ Become(Patched(chunk, o + 1, high, low))

\* freeChunk: both arrays are counted as bytes.
freeChunk ==
  /\ Live
  /\ freed < MaxChunks
  /\ chunk' = Fresh
  /\ allocated' = allocated - 2 * chunk.capacity
  /\ freed' = freed + 1
  /\ UNCHANGED status

\* realloc() has returned NULL.
Exhausted ==
  /\ Live
  /\ Three(chunk, Blank, Garbage).capacity > MaxCapacity
  /\ status' = "exit"
  /\ UNCHANGED <<chunk, allocated, freed>>

\* The process has ended.
Rest == status = "exit" /\ UNCHANGED vars

\* A distance is at most INT16_MAX, its high byte never 0xff.
Next ==
  \/ \E b \in Bytes, l \in Locations : emitByte(b, l)
  \/ \E b \in Bytes \ {OP_LOOP}, l \in Locations : emitJump(b, l)
  \/ \E high \in Bytes \ {Blank}, low \in Bytes, l \in Locations : emitLoop(high, low, l)
  \/ \E o \in Entries(chunk.size), high \in Bytes \ {Blank}, low \in Bytes : patch(o, high, low)
  \/ freeChunk \/ Exhausted \/ Rest

Spec == Init /\ [][Next]_vars

-----------------------------------------------------------------------------
(* Properties *)

Sound(c) ==
  /\ c = Array(c.code, c.locations, c.size, c.capacity)
  /\ c.capacity \in Nat /\ c.size \in 0 .. c.capacity
  /\ c.code \in [Entries(c.capacity) -> Bytes \cup {Garbage}]
  /\ c.locations \in [Entries(c.capacity) -> Locations \cup {Garbage}]
  /\ \A k \in Entries(c.size) : c.code[k] \in Bytes /\ c.locations[k] \in Locations

\* Both arrays have the capacity the chunk tells, and what was written is initialised.
TypeOK ==
  /\ Sound(chunk)
  /\ allocated \in Int /\ freed \in 0 .. MaxChunks
  /\ status \in {"live", "exit"}

\* A chunk is a log of bytes with their locations: whenever the arrays are moved, no byte
\* is lost, no patch goes to the old array, and no location to another byte.
Log(c) == [k \in 1 .. c.size |-> [byte |-> c.code[k - 1], location |-> c.locations[k - 1]]]
Written == INSTANCE CodeLog WITH log <- Log(chunk)
ImplementsLog == Written!Spec

\* vm.allocatedBytes, a counter without a sign, never counts less than is held.
AllocatedCovers == allocated >= Held(chunk)
=============================================================================
