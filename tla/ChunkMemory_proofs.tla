------------------------- MODULE ChunkMemory_proofs -------------------------
(***************************************************************************)
(* Proofs about the memory of a chunk, for any bytes and locations, any    *)
(* first capacity and any length.                                          *)
(***************************************************************************)
EXTENDS ChunkMemory, TLAPS

-----------------------------------------------------------------------------
(* One byte *)

LEMMA ArrayFields ==
  ASSUME NEW code, NEW locations, NEW size, NEW capacity
  PROVE  /\ Array(code, locations, size, capacity).code = code
         /\ Array(code, locations, size, capacity).locations = locations
         /\ Array(code, locations, size, capacity).size = size
         /\ Array(code, locations, size, capacity).capacity = capacity
BY DEF Array

LEMMA FreshSound == Sound(Fresh) /\ Fresh.size = 0 /\ Fresh.capacity = 0
<1>1. Entries(0) = {}
  BY DEF Entries
<1>. QED  BY <1>1 DEF Sound, Fresh, Array, NoEntries

LEMMA NewCapacity ==
  ASSUME NEW n \in Nat
  PROVE  GROW_CAPACITY(n) \in Nat /\ n < GROW_CAPACITY(n)
BY SmallestAssumption DEF GROW_CAPACITY

\* There is room for one more byte, and what was written has not changed.
LEMMA GrownSound ==
  ASSUME NEW c, Sound(c)
  PROVE  /\ Sound(Grown(c))
         /\ Grown(c).size = c.size
         /\ c.size < Grown(c).capacity
         /\ c.capacity <= Grown(c).capacity
         /\ \A k \in Entries(c.size) : /\ Grown(c).code[k] = c.code[k]
                                       /\ Grown(c).locations[k] = c.locations[k]
<1>1. CASE c.size < c.capacity
  BY <1>1 DEF Grown, Sound
<1>2. CASE ~(c.size < c.capacity)
  <2>. DEFINE new == GROW_CAPACITY(c.capacity)
  <2>1. c.capacity \in Nat /\ c.size = c.capacity /\ new \in Nat /\ c.capacity < new
    BY <1>2, NewCapacity DEF Sound
  <2>2. Grown(c) = Array(Resized(c.code, new), Resized(c.locations, new), c.size, new)
    BY <1>2 DEF Grown
  <2>. HIDE DEF new
  <2>3. /\ Grown(c).code = Resized(c.code, new)
        /\ Grown(c).locations = Resized(c.locations, new)
        /\ Grown(c).size = c.size /\ Grown(c).capacity = new
    BY <2>2, ArrayFields
  <2>4. Entries(c.size) \subseteq Entries(new) /\ Entries(c.size) = Entries(c.capacity)
    BY <2>1 DEF Entries
  <2>5. /\ c.code \in [Entries(c.size) -> Bytes \cup {Garbage}]
        /\ c.locations \in [Entries(c.size) -> Locations \cup {Garbage}]
    BY <2>1 DEF Sound
  <2>6. /\ Resized(c.code, new) \in [Entries(new) -> Bytes \cup {Garbage}]
        /\ Resized(c.locations, new) \in [Entries(new) -> Locations \cup {Garbage}]
        /\ \A k \in Entries(c.size) : /\ Resized(c.code, new)[k] = c.code[k]
                                      /\ Resized(c.locations, new)[k] = c.locations[k]
    BY <2>4, <2>5 DEF Resized
  <2>7. \A k \in Entries(c.size) : c.code[k] \in Bytes /\ c.locations[k] \in Locations
    BY DEF Sound
  <2>8. c.size \in 0 .. new
    BY <2>1
  <2>9. Sound(Grown(c))
    BY <2>1, <2>2, <2>3, <2>6, <2>7, <2>8 DEF Sound
  <2>. QED  BY <2>1, <2>3, <2>6, <2>9
<1>. QED  BY <1>1, <1>2

\* writeChunk adds one byte with its location, behind those there are.
LEMMA WriteSound ==
  ASSUME NEW c, Sound(c), NEW b \in Bytes, NEW l \in Locations
  PROVE  /\ Sound(writeChunk(c, b, l))
         /\ writeChunk(c, b, l).size = c.size + 1
         /\ c.capacity <= writeChunk(c, b, l).capacity
         /\ \A k \in Entries(c.size) : /\ writeChunk(c, b, l).code[k] = c.code[k]
                                       /\ writeChunk(c, b, l).locations[k] = c.locations[k]
         /\ writeChunk(c, b, l).code[c.size] = b
         /\ writeChunk(c, b, l).locations[c.size] = l
<1>. DEFINE g == Grown(c)
            w == writeChunk(c, b, l)
<1>1. /\ w.code = [g.code EXCEPT ![c.size] = b]
      /\ w.locations = [g.locations EXCEPT ![c.size] = l]
      /\ w.size = c.size + 1 /\ w.capacity = g.capacity
      /\ w = Array(w.code, w.locations, w.size, w.capacity)
  BY ArrayFields DEF writeChunk
<1>2. /\ Sound(g) /\ g.size = c.size /\ c.size < g.capacity /\ c.capacity <= g.capacity
      /\ \A k \in Entries(c.size) : g.code[k] = c.code[k] /\ g.locations[k] = c.locations[k]
  BY GrownSound
<1>. HIDE DEF g, w
<1>3. /\ c.size \in Nat /\ g.capacity \in Nat
      /\ g.code \in [Entries(g.capacity) -> Bytes \cup {Garbage}]
      /\ g.locations \in [Entries(g.capacity) -> Locations \cup {Garbage}]
      /\ \A k \in Entries(c.size) : c.code[k] \in Bytes /\ c.locations[k] \in Locations
  BY <1>2 DEF Sound
<1>4. c.size \in Entries(g.capacity) /\ c.size \notin Entries(c.size)
  BY <1>2, <1>3 DEF Entries
<1>5. Entries(c.size + 1) = Entries(c.size) \cup {c.size} /\ Entries(c.size) \subseteq Entries(g.capacity)
  BY <1>2, <1>3 DEF Entries
<1>6. /\ w.code \in [Entries(g.capacity) -> Bytes \cup {Garbage}]
      /\ w.locations \in [Entries(g.capacity) -> Locations \cup {Garbage}]
  BY <1>1, <1>3, <1>4
<1>7. /\ w.code[c.size] = b /\ w.locations[c.size] = l
      /\ \A k \in Entries(c.size) : w.code[k] = c.code[k] /\ w.locations[k] = c.locations[k]
  BY <1>1, <1>2, <1>3, <1>4, <1>5
<1>8. w.size \in 0 .. w.capacity
  BY <1>1, <1>2, <1>3
<1>9. \A k \in Entries(w.size) : w.code[k] \in Bytes /\ w.locations[k] \in Locations
  BY <1>1, <1>3, <1>5, <1>7
<1>10. Sound(w)
  BY <1>1, <1>3, <1>6, <1>8, <1>9 DEF Sound
<1>. QED  BY <1>1, <1>2, <1>7, <1>10 DEF w

-----------------------------------------------------------------------------
(* Two bytes replaced *)

LEMMA PatchSound ==
  ASSUME NEW c, Sound(c), NEW o \in Nat, o + 1 < c.size, NEW high \in Bytes, NEW low \in Bytes
  PROVE  /\ Sound(Patched(c, o, high, low))
         /\ Patched(c, o, high, low).size = c.size
         /\ Patched(c, o, high, low).capacity = c.capacity
         /\ Patched(c, o, high, low).locations = c.locations
         /\ \A k \in Entries(c.size) :
              Patched(c, o, high, low).code[k] =
                IF k = o THEN high ELSE IF k = o + 1 THEN low ELSE c.code[k]
<1>. DEFINE p == Patched(c, o, high, low)
            bytes == [k \in DOMAIN c.code |-> IF k = o THEN high ELSE IF k = o + 1 THEN low ELSE c.code[k]]
<1>1. /\ p.code = bytes /\ p.locations = c.locations /\ p.size = c.size /\ p.capacity = c.capacity
      /\ p = Array(p.code, p.locations, p.size, p.capacity)
  BY ArrayFields DEF Patched
<1>. HIDE DEF p
<1>2. Entries(c.size) \subseteq Entries(c.capacity) /\ c.code \in [Entries(c.capacity) -> Bytes \cup {Garbage}]
  BY DEF Sound, Entries
<1>3. bytes \in [Entries(c.capacity) -> Bytes \cup {Garbage}]
  BY <1>2
<1>4. \A k \in Entries(c.size) : bytes[k] = IF k = o THEN high ELSE IF k = o + 1 THEN low ELSE c.code[k]
  BY <1>2
<1>5. \A k \in Entries(c.size) : bytes[k] \in Bytes
  BY <1>4 DEF Sound
<1>. HIDE DEF bytes
<1>6. Sound(p)
  BY <1>1, <1>3, <1>5 DEF Sound
<1>. QED  BY <1>1, <1>4, <1>6 DEF p

-----------------------------------------------------------------------------
(* Three bytes *)

\* A jump: the opcode and the two bytes to be patched.
LEMMA ThreeSound ==
  ASSUME NEW c, Sound(c), NEW b \in Bytes, NEW l \in Locations
  PROVE  /\ Sound(Three(c, b, l))
         /\ Three(c, b, l).size = c.size + 3
<1>. DEFINE one == writeChunk(c, b, l)
            two == writeChunk(one, Blank, l)
<1>1. c.size \in Nat
  BY DEF Sound
<1>2. Sound(one) /\ one.size = c.size + 1
  BY WriteSound
<1>. HIDE DEF one
<1>3. Sound(two) /\ two.size = one.size + 1
  BY <1>2, WriteSound, BytesAssumption
<1>. HIDE DEF two
<1>4. Sound(writeChunk(two, Blank, l)) /\ writeChunk(two, Blank, l).size = two.size + 1
  BY <1>3, WriteSound, BytesAssumption
<1>. QED  BY <1>1, <1>2, <1>3, <1>4 DEF Three, one, two

\* A loop: its distance is patched at once.
LEMMA LoopSound ==
  ASSUME NEW c, Sound(c), NEW high \in Bytes, NEW low \in Bytes, NEW l \in Locations
  PROVE  LET t == Three(c, OP_LOOP, l) IN Sound(Patched(t, t.size - 2, high, low))
<1>. DEFINE t == Three(c, OP_LOOP, l)
<1>1. Sound(t) /\ t.size = c.size + 3 /\ c.size \in Nat
  BY ThreeSound, BytesAssumption DEF Sound
<1>. HIDE DEF t
<1>2. t.size - 2 \in Nat /\ t.size - 2 + 1 < t.size
  BY <1>1
<1>3. Sound(Patched(t, t.size - 2, high, low))
  BY <1>1, <1>2, PatchSound
<1>. QED  BY <1>3 DEF t

-----------------------------------------------------------------------------
(* Type correctness *)

LEMMA InitSound == Init => TypeOK
<1>. SUFFICES ASSUME Init PROVE TypeOK
  OBVIOUS
<1>1. Sound(chunk)
  BY FreshSound DEF Init
<1>. QED  BY <1>1, MemoryAssumption DEF Init, TypeOK

LEMMA BecomeSound ==
  ASSUME TypeOK, NEW c, Sound(c), Become(c)
  PROVE  TypeOK'
<1>1. Sound(chunk)' /\ chunk' = c
  BY DEF Become, Sound
<1>2. Held(c) \in Int /\ Held(chunk) \in Int
  BY MemoryAssumption DEF Held, TypeOK, Sound
<1>3. allocated' \in Int
  BY <1>2 DEF Become, TypeOK
<1>. QED  BY <1>1, <1>3 DEF Become, TypeOK

LEMMA NextSound == TypeOK /\ [Next]_vars => TypeOK'
<1>. SUFFICES ASSUME TypeOK, [Next]_vars PROVE TypeOK'
  OBVIOUS
<1>. USE DEF TypeOK
<1>1. ASSUME NEW b \in Bytes, NEW l \in Locations, emitByte(b, l)
      PROVE  TypeOK'
  <2>1. Sound(writeChunk(chunk, b, l))
    BY WriteSound
  <2>. QED  BY <1>1, <2>1, BecomeSound DEF emitByte
<1>2. ASSUME NEW b \in Bytes, NEW l \in Locations, emitJump(b, l)
      PROVE  TypeOK'
  <2>1. Sound(Three(chunk, b, l))
    BY ThreeSound
  <2>. QED  BY <1>2, <2>1, BecomeSound DEF emitJump
<1>3. ASSUME NEW high \in Bytes, NEW low \in Bytes, NEW l \in Locations, emitLoop(high, low, l)
      PROVE  TypeOK'
  BY <1>3, LoopSound, BecomeSound DEF emitLoop
<1>4. ASSUME NEW o \in Entries(chunk.size), NEW high \in Bytes, NEW low \in Bytes, patch(o, high, low)
      PROVE  TypeOK'
  <2>1. o + 1 \in Nat /\ o + 1 + 1 < chunk.size
    BY <1>4 DEF patch, Entries, Sound
  <2>2. Sound(Patched(chunk, o + 1, high, low))
    BY <2>1, PatchSound
  <2>. QED  BY <1>4, <2>2, BecomeSound DEF patch
<1>5. CASE freeChunk
  <2>1. Sound(chunk)' /\ allocated' \in Int /\ freed' \in 0 .. MaxChunks
    BY <1>5, FreshSound, MemoryAssumption DEF freeChunk, Sound
  <2>. QED  BY <1>5, <2>1 DEF freeChunk
<1>6. CASE Exhausted
  BY <1>6 DEF Exhausted, Sound
<1>7. CASE Rest \/ UNCHANGED vars
  BY <1>7 DEF Rest, vars, Sound
<1>. QED  BY <1>1, <1>2, <1>3, <1>4, <1>5, <1>6, <1>7 DEF Next

\* The two arrays of a chunk have the same capacity whenever they are written, whatever
\* is written, and every byte that will be run or listed was written before.
THEOREM ArraysGrowTogether == Spec => []TypeOK
<1>. QED  BY InitSound, NextSound, PTL DEF Spec

-----------------------------------------------------------------------------
(* What is counted *)

CountOK == TypeOK /\ AllocatedCovers

LEMMA BecomeCovers ==
  ASSUME TypeOK, AllocatedCovers, NEW c, Sound(c), Become(c)
  PROVE  AllocatedCovers'
<1>1. Held(c) \in Int /\ Held(chunk) \in Int
  BY MemoryAssumption DEF Held, TypeOK, Sound
<1>2. chunk' = c /\ allocated' = allocated + Held(c) - Held(chunk) /\ Held(chunk)' = Held(c)
  BY DEF Become, Held
<1>3. allocated \in Int /\ allocated >= Held(chunk)
  BY DEF TypeOK, AllocatedCovers
<1>4. allocated' >= Held(c)
  BY <1>1, <1>2, <1>3
<1>. QED  BY <1>2, <1>4 DEF AllocatedCovers

LEMMA FreedCovers ==
  ASSUME TypeOK, AllocatedCovers, freeChunk
  PROVE  AllocatedCovers'
<1>. DEFINE n == chunk.capacity
<1>1. n \in Nat /\ LocationSize \in Nat \ {0} /\ allocated \in Int
  BY MemoryAssumption DEF TypeOK, Sound
<1>2. Held(chunk) = n * (1 + LocationSize) /\ allocated >= Held(chunk) /\ allocated' = allocated - 2 * n
  BY DEF Held, AllocatedCovers, freeChunk
<1>3. Held(chunk)' = 0
  BY FreshSound, MemoryAssumption DEF Held, freeChunk
<1>. HIDE DEF n
<1>4. PICK m \in Nat : LocationSize = m + 1
  <2>1. LocationSize - 1 \in Nat /\ LocationSize = (LocationSize - 1) + 1
    BY <1>1
  <2>. QED  BY <2>1
<1>5. n * (1 + LocationSize) = 2 * n + n * m /\ n * m >= 0
  BY <1>1, <1>4
<1>6. allocated' >= 0
  BY <1>1, <1>2, <1>4, <1>5
<1>. QED  BY <1>3, <1>6 DEF AllocatedCovers

LEMMA NextCovers == CountOK /\ [Next]_vars => CountOK'
<1>. SUFFICES ASSUME TypeOK, AllocatedCovers, [Next]_vars PROVE CountOK'
  BY DEF CountOK
<1>1. TypeOK'
  BY NextSound
<1>2. ASSUME NEW b \in Bytes, NEW l \in Locations, emitByte(b, l) \/ emitJump(b, l)
      PROVE  AllocatedCovers'
  BY <1>2, WriteSound, ThreeSound, BecomeCovers DEF emitByte, emitJump, TypeOK
<1>3. ASSUME NEW high \in Bytes, NEW low \in Bytes, NEW l \in Locations, emitLoop(high, low, l)
      PROVE  AllocatedCovers'
  BY <1>3, LoopSound, BecomeCovers DEF emitLoop, TypeOK
<1>4. ASSUME NEW o \in Entries(chunk.size), NEW high \in Bytes, NEW low \in Bytes, patch(o, high, low)
      PROVE  AllocatedCovers'
  <2>1. o + 1 \in Nat /\ o + 1 + 1 < chunk.size
    BY <1>4 DEF patch, Entries, TypeOK, Sound
  <2>2. Sound(Patched(chunk, o + 1, high, low))
    BY <2>1, PatchSound DEF TypeOK
  <2>. QED  BY <1>4, <2>2, BecomeCovers DEF patch
<1>5. CASE Exhausted \/ Rest \/ UNCHANGED vars
  <2>1. AllocatedCovers'
    BY <1>5 DEF Exhausted, Rest, vars, AllocatedCovers, Held
  <2>. QED  BY <1>1, <2>1 DEF CountOK
<1>. QED  BY <1>1, <1>2, <1>3, <1>4, <1>5, FreedCovers DEF Next, CountOK

\* However often a chunk grows and is freed, vm.allocatedBytes does not wrap below zero:
\* it counts what is held, and what freeChunk forgot to take off.
THEOREM AllocatedNeverWraps == Spec => []AllocatedCovers
<1>1. Init => CountOK
  <2>. SUFFICES ASSUME Init PROVE CountOK
    OBVIOUS
  <2>1. Held(chunk) = 0
    BY FreshSound, MemoryAssumption DEF Init, Held
  <2>. QED  BY <2>1, InitSound DEF Init, CountOK, AllocatedCovers
<1>2. CountOK => AllocatedCovers
  BY DEF CountOK
<1>. QED  BY <1>1, <1>2, NextCovers, PTL DEF Spec

-----------------------------------------------------------------------------
(* The arrays implement the log *)

LogEntry == [byte : Bytes, location : Locations]

LEMMA EntryFacts ==
  ASSUME NEW b, NEW l
  PROVE  /\ Written!Entry(b, l).byte = b /\ Written!Entry(b, l).location = l
         /\ b \in Bytes /\ l \in Locations => Written!Entry(b, l) \in LogEntry
BY DEF Written!Entry, LogEntry

LEMMA LogTyped ==
  ASSUME NEW c, Sound(c)
  PROVE  /\ Log(c) \in Seq(LogEntry)
         /\ Len(Log(c)) = c.size
         /\ \A k \in 1 .. c.size : Log(c)[k] = Written!Entry(c.code[k - 1], c.locations[k - 1])
<1>1. c.size \in Nat /\ \A k \in 1 .. c.size : k - 1 \in Entries(c.size)
  BY DEF Sound, Entries
<1>2. \A k \in 1 .. c.size : Log(c)[k] = Written!Entry(c.code[k - 1], c.locations[k - 1])
  BY DEF Log, Written!Entry
<1>3. ASSUME NEW k \in 1 .. c.size PROVE Log(c)[k] \in LogEntry
  <2>1. c.code[k - 1] \in Bytes /\ c.locations[k - 1] \in Locations
    BY <1>1 DEF Sound
  <2>. QED  BY <2>1, <1>2, EntryFacts
<1>4. Log(c) \in [1 .. c.size -> LogEntry]
  BY <1>3 DEF Log
<1>. QED  BY <1>1, <1>2, <1>4

LEMMA LogWrite ==
  ASSUME NEW c, Sound(c), NEW b \in Bytes, NEW l \in Locations
  PROVE  Log(writeChunk(c, b, l)) = Append(Log(c), Written!Entry(b, l))
<1>. DEFINE w == writeChunk(c, b, l)
            e == Written!Entry(b, l)
<1>1. /\ Sound(w) /\ w.size = c.size + 1
      /\ \A k \in Entries(c.size) : w.code[k] = c.code[k] /\ w.locations[k] = c.locations[k]
      /\ w.code[c.size] = b /\ w.locations[c.size] = l
  BY WriteSound
<1>. HIDE DEF w
<1>2. c.size \in Nat /\ \A k \in 1 .. c.size : k - 1 \in Entries(c.size)
  BY DEF Sound, Entries
<1>3. /\ Log(c) \in Seq(LogEntry) /\ Len(Log(c)) = c.size
      /\ \A k \in 1 .. c.size : Log(c)[k] = Written!Entry(c.code[k - 1], c.locations[k - 1])
  BY LogTyped
<1>4. /\ Log(w) \in Seq(LogEntry) /\ Len(Log(w)) = c.size + 1
      /\ \A k \in 1 .. c.size + 1 : Log(w)[k] = Written!Entry(w.code[k - 1], w.locations[k - 1])
  BY <1>1, LogTyped
<1>5. e \in LogEntry
  BY DEF LogEntry, Written!Entry
<1>. HIDE DEF e
<1>6. \A k \in 1 .. c.size : Log(w)[k] = Log(c)[k]
  BY <1>1, <1>2, <1>3, <1>4
<1>7. Log(w)[c.size + 1] = e
  <2>1. c.size + 1 \in 1 .. c.size + 1 /\ (c.size + 1) - 1 = c.size
    BY <1>2
  <2>. QED  BY <2>1, <1>1, <1>4 DEF e
<1>8. /\ Append(Log(c), e) \in Seq(LogEntry) /\ Len(Append(Log(c), e)) = c.size + 1
      /\ \A k \in 1 .. c.size : Append(Log(c), e)[k] = Log(c)[k]
      /\ Append(Log(c), e)[c.size + 1] = e
  BY <1>3, <1>5
<1>9. \A k \in 1 .. c.size + 1 : Log(w)[k] = Append(Log(c), e)[k]
  BY <1>2, <1>6, <1>7, <1>8
<1>10. Log(w) = Append(Log(c), e)
  BY <1>4, <1>8, <1>9
<1>. QED  BY <1>10 DEF w, e

LEMMA AppendThree ==
  ASSUME NEW S, NEW s \in Seq(S), NEW x \in S, NEW y \in S, NEW z \in S
  PROVE  Append(Append(Append(s, x), y), z) = s \o <<x, y, z>>
OBVIOUS

LEMMA ConcatThree ==
  ASSUME NEW S, NEW s \in Seq(S), NEW x \in S, NEW y \in S, NEW z \in S
  PROVE  /\ s \o <<x, y, z>> \in Seq(S)
         /\ Len(s \o <<x, y, z>>) = Len(s) + 3
         /\ \A k \in 1 .. Len(s) : (s \o <<x, y, z>>)[k] = s[k]
         /\ (s \o <<x, y, z>>)[Len(s) + 1] = x
         /\ (s \o <<x, y, z>>)[Len(s) + 2] = y
         /\ (s \o <<x, y, z>>)[Len(s) + 3] = z
<1>. DEFINE n == Len(s)
            one == Append(s, x)
            two == Append(one, y)
            all == Append(two, z)
<1>1. n \in Nat /\ one \in Seq(S) /\ Len(one) = n + 1 /\ one[n + 1] = x
      /\ \A k \in 1 .. n : one[k] = s[k]
  OBVIOUS
<1>. HIDE DEF one
<1>2. two \in Seq(S) /\ Len(two) = n + 2 /\ two[n + 2] = y
      /\ \A k \in 1 .. n + 1 : two[k] = one[k]
  BY <1>1
<1>. HIDE DEF two
<1>3. all \in Seq(S) /\ Len(all) = n + 3 /\ all[n + 3] = z
      /\ \A k \in 1 .. n + 2 : all[k] = two[k]
  BY <1>1, <1>2
<1>. HIDE DEF all, n
<1>4. /\ \A k \in 1 .. n : all[k] = s[k]
      /\ all[n + 1] = x /\ all[n + 2] = y
  BY <1>1, <1>2, <1>3
<1>5. all = s \o <<x, y, z>>
  BY AppendThree DEF all, two, one
<1>. QED  BY <1>3, <1>4, <1>5 DEF n

LEMMA LogThree ==
  ASSUME NEW c, Sound(c), NEW b \in Bytes, NEW l \in Locations
  PROVE  Log(Three(c, b, l)) =
           Log(c) \o <<Written!Entry(b, l), Written!Entry(Blank, l), Written!Entry(Blank, l)>>
<1>. DEFINE one == writeChunk(c, b, l)
            two == writeChunk(one, Blank, l)
            x == Written!Entry(b, l)
            y == Written!Entry(Blank, l)
<1>1. Sound(one) /\ Log(one) = Append(Log(c), x)
  BY WriteSound, LogWrite
<1>. HIDE DEF one
<1>2. Sound(two) /\ Log(two) = Append(Log(one), y)
  <2>1. Blank \in Bytes
    BY BytesAssumption
  <2>2. Sound(two)
    BY <1>1, <2>1, WriteSound
  <2>3. Log(two) = Append(Log(one), y)
    BY <1>1, <2>1, LogWrite
  <2>. QED  BY <2>2, <2>3
<1>. HIDE DEF two
<1>3. Log(writeChunk(two, Blank, l)) = Append(Log(two), y)
  BY <1>2, LogWrite, BytesAssumption
<1>4. x \in LogEntry /\ y \in LogEntry /\ Log(c) \in Seq(LogEntry)
  BY LogTyped, BytesAssumption DEF LogEntry, Written!Entry
<1>. HIDE DEF x, y
<1>5. Append(Append(Append(Log(c), x), y), y) = Log(c) \o <<x, y, y>>
  BY <1>4, AppendThree
<1>6. Log(Three(c, b, l)) = Log(writeChunk(two, Blank, l))
  BY DEF Three, one, two
<1>. QED  BY <1>1, <1>2, <1>3, <1>5, <1>6 DEF x, y

LEMMA PutAt ==
  ASSUME NEW s \in Seq(LogEntry), NEW n \in 1 .. Len(s), NEW b \in Bytes
  PROVE  /\ Written!Put(s, n, b) \in Seq(LogEntry)
         /\ Len(Written!Put(s, n, b)) = Len(s)
         /\ \A k \in 1 .. Len(s) :
              Written!Put(s, n, b)[k] = IF k = n THEN Written!Entry(b, s[n].location) ELSE s[k]
<1>1. s[n] \in LogEntry
  OBVIOUS
<1>2. [s[n] EXCEPT !.byte = b] = Written!Entry(b, s[n].location)
  BY <1>1 DEF LogEntry, Written!Entry
<1>3. Written!Entry(b, s[n].location) \in LogEntry
  BY <1>1 DEF LogEntry, Written!Entry
<1>4. Written!Put(s, n, b) = [s EXCEPT ![n] = Written!Entry(b, s[n].location)]
  BY <1>2 DEF Written!Put
<1>. QED  BY <1>3, <1>4

LEMMA LogPatch ==
  ASSUME NEW c, Sound(c), NEW o \in Nat, o + 1 < c.size, NEW high \in Bytes, NEW low \in Bytes
  PROVE  Log(Patched(c, o, high, low)) = Written!Put(Written!Put(Log(c), o + 1, high), o + 2, low)
<1>. DEFINE p == Patched(c, o, high, low)
            once == Written!Put(Log(c), o + 1, high)
            twice == Written!Put(once, o + 2, low)
<1>1. /\ Sound(p) /\ p.size = c.size /\ p.locations = c.locations
      /\ \A k \in Entries(c.size) : p.code[k] = IF k = o THEN high ELSE IF k = o + 1 THEN low ELSE c.code[k]
  BY PatchSound
<1>. HIDE DEF p
<1>2. /\ c.size \in Nat /\ \A k \in 1 .. c.size : k - 1 \in Entries(c.size)
      /\ o + 1 \in 1 .. c.size /\ o + 2 \in 1 .. c.size
  BY DEF Sound, Entries
<1>3. /\ Log(c) \in Seq(LogEntry) /\ Len(Log(c)) = c.size
      /\ \A k \in 1 .. c.size : Log(c)[k] = Written!Entry(c.code[k - 1], c.locations[k - 1])
  BY LogTyped
<1>4. /\ Log(p) \in Seq(LogEntry) /\ Len(Log(p)) = c.size
      /\ \A k \in 1 .. c.size : Log(p)[k] = Written!Entry(p.code[k - 1], p.locations[k - 1])
  BY <1>1, LogTyped
<1>5. /\ once \in Seq(LogEntry) /\ Len(once) = c.size
      /\ \A k \in 1 .. c.size :
           once[k] = IF k = o + 1 THEN Written!Entry(high, Log(c)[o + 1].location) ELSE Log(c)[k]
  BY <1>2, <1>3, PutAt
<1>. HIDE DEF once
<1>6. /\ twice \in Seq(LogEntry) /\ Len(twice) = c.size
      /\ \A k \in 1 .. c.size :
           twice[k] = IF k = o + 2 THEN Written!Entry(low, once[o + 2].location) ELSE once[k]
  BY <1>2, <1>5, PutAt
<1>. HIDE DEF twice
<1>7. \A k \in 1 .. c.size : Log(c)[k].location = c.locations[k - 1]
  BY <1>3, EntryFacts
<1>8. ASSUME NEW k \in 1 .. c.size PROVE Log(p)[k] = twice[k]
  <2>1. Log(p)[k] = Written!Entry(p.code[k - 1], c.locations[k - 1])
    BY <1>1, <1>4
  <2>2. CASE k = o + 1
    <3>1. p.code[k - 1] = high
      BY <2>2, <1>1, <1>2
    <3>2. twice[k] = Written!Entry(high, c.locations[k - 1])
      BY <2>2, <1>2, <1>5, <1>6, <1>7
    <3>. QED  BY <2>1, <3>1, <3>2
  <2>3. CASE k = o + 2
    <3>1. p.code[k - 1] = low
      BY <2>3, <1>1, <1>2
    <3>2. once[o + 2] = Log(c)[k]
      BY <2>3, <1>2, <1>5
    <3>3. twice[k] = Written!Entry(low, c.locations[k - 1])
      BY <2>3, <3>2, <1>6, <1>7
    <3>. QED  BY <2>1, <3>1, <3>3
  <2>4. CASE k # o + 1 /\ k # o + 2
    <3>1. p.code[k - 1] = c.code[k - 1]
      BY <2>4, <1>1, <1>2
    <3>2. twice[k] = Log(c)[k]
      BY <2>4, <1>5, <1>6
    <3>. QED  BY <2>1, <3>1, <3>2, <1>3
  <2>. QED  BY <2>2, <2>3, <2>4
<1>9. Log(p) = twice
  BY <1>4, <1>6, <1>8
<1>. QED  BY <1>9 DEF p, twice, once

\* A loop's distance lands in the bytes just written, wherever they are by then.
LEMMA LogLoop ==
  ASSUME NEW c, Sound(c), NEW high \in Bytes, NEW low \in Bytes, NEW l \in Locations
  PROVE  LET t == Three(c, OP_LOOP, l)
         IN  Log(Patched(t, t.size - 2, high, low)) =
               Log(c) \o <<Written!Entry(OP_LOOP, l), Written!Entry(high, l), Written!Entry(low, l)>>
<1>. DEFINE t == Three(c, OP_LOOP, l)
            x == Written!Entry(OP_LOOP, l)
            y == Written!Entry(Blank, l)
            h == Written!Entry(high, l)
            w == Written!Entry(low, l)
            n == c.size
            s == Log(c)
            first == Written!Put(Log(t), n + 2, high)
<1>1. Sound(t) /\ t.size = n + 3 /\ n \in Nat /\ Log(t) = s \o <<x, y, y>>
  <2>1. OP_LOOP \in Bytes
    BY BytesAssumption
  <2>2. Sound(t) /\ t.size = n + 3
    BY <2>1, ThreeSound
  <2>3. Log(t) = s \o <<x, y, y>>
    BY <2>1, LogThree
  <2>4. n \in Nat
    BY DEF Sound
  <2>. QED  BY <2>2, <2>3, <2>4
<1>. HIDE DEF t
<1>2. Log(Patched(t, t.size - 2, high, low)) = Written!Put(first, n + 3, low)
  <2>1. t.size - 2 = n + 1 /\ n + 1 \in Nat /\ (n + 1) + 1 < t.size
    BY <1>1
  <2>2. Log(Patched(t, n + 1, high, low)) = Written!Put(Written!Put(Log(t), (n + 1) + 1, high), (n + 1) + 2, low)
    BY <2>1, <1>1, LogPatch
  <2>3. (n + 1) + 1 = n + 2 /\ (n + 1) + 2 = n + 3
    BY <1>1
  <2>. QED  BY <2>1, <2>2, <2>3
<1>3. x \in LogEntry /\ y \in LogEntry /\ h \in LogEntry /\ w \in LogEntry /\ y.location = l
  BY BytesAssumption, EntryFacts
<1>4. s \in Seq(LogEntry) /\ Len(s) = n
  BY LogTyped
<1>. HIDE DEF x, y, n, s
<1>5. /\ Log(t) \in Seq(LogEntry) /\ Len(Log(t)) = n + 3
      /\ \A k \in 1 .. n : Log(t)[k] = s[k]
      /\ Log(t)[n + 1] = x /\ Log(t)[n + 2] = y /\ Log(t)[n + 3] = y
  <2>1. Log(t) = s \o <<x, y, y>>
    BY <1>1
  <2>. QED  BY <2>1, <1>3, <1>4, ConcatThree
<1>6. /\ first \in Seq(LogEntry) /\ Len(first) = n + 3
      /\ \A k \in 1 .. n + 3 : first[k] = IF k = n + 2 THEN h ELSE Log(t)[k]
  <2>1. n + 2 \in 1 .. Len(Log(t))
    BY <1>1, <1>5
  <2>2. Log(t)[n + 2].location = l
    BY <1>3, <1>5
  <2>3. /\ first \in Seq(LogEntry) /\ Len(first) = Len(Log(t))
        /\ \A k \in 1 .. Len(Log(t)) : first[k] = IF k = n + 2
                                                  THEN Written!Entry(high, Log(t)[n + 2].location)
                                                  ELSE Log(t)[k]
    BY <2>1, <1>5, PutAt, ZenonT(60)
  <2>. QED  BY <2>2, <2>3, <1>5
<1>. HIDE DEF first
<1>. DEFINE last == Written!Put(first, n + 3, low)
            whole == s \o <<x, h, w>>
<1>7. /\ last \in Seq(LogEntry) /\ Len(last) = n + 3
      /\ \A k \in 1 .. n + 3 : last[k] = IF k = n + 3 THEN w ELSE first[k]
  <2>1. n + 3 \in 1 .. Len(first) /\ first[n + 3].location = l
    BY <1>1, <1>3, <1>5, <1>6
  <2>2. /\ last \in Seq(LogEntry) /\ Len(last) = Len(first)
        /\ \A k \in 1 .. Len(first) : last[k] = IF k = n + 3
                                               THEN Written!Entry(low, first[n + 3].location)
                                               ELSE first[k]
    <3>1. first \in Seq(LogEntry) /\ n + 3 \in 1 .. Len(first)
      BY <2>1, <1>6
    <3>. QED  BY <3>1, PutAt
  <2>. HIDE DEF last, whole
  <2>. QED  BY <2>1, <2>2, <1>6
<1>. HIDE DEF last, h, w
<1>8. /\ whole \in Seq(LogEntry) /\ Len(whole) = n + 3
      /\ \A k \in 1 .. n : whole[k] = s[k]
      /\ whole[n + 1] = x /\ whole[n + 2] = h /\ whole[n + 3] = w
  BY <1>3, <1>4, ConcatThree
<1>. HIDE DEF whole
<1>9. ASSUME NEW k \in 1 .. n + 3 PROVE last[k] = whole[k]
  <2>1. k \in 1 .. n \/ k = n + 1 \/ k = n + 2 \/ k = n + 3
    BY <1>1
  <2>. QED  BY <2>1, <1>1, <1>5, <1>6, <1>7, <1>8
<1>10. last = whole
  BY <1>7, <1>8, <1>9
<1>. QED  BY <1>2, <1>10 DEF last, whole, x, h, w, s, t

LEMMA BecomeMaps ==
  ASSUME NEW c, Become(c)
  PROVE  Log(chunk)' = Log(c)
BY DEF Become, Log

LEMMA NextMaps == TypeOK /\ [Next]_vars => [Written!Next]_(Log(chunk))
<1>. SUFFICES ASSUME TypeOK, [Next]_vars PROVE Written!Next \/ Log(chunk)' = Log(chunk)
  OBVIOUS
<1>. USE DEF TypeOK
<1>1. ASSUME NEW b \in Bytes, NEW l \in Locations, emitByte(b, l)
      PROVE  Written!Next
  BY <1>1, LogWrite, BecomeMaps DEF emitByte, Written!Next, Written!Emit
<1>2. ASSUME NEW b \in Bytes \ {OP_LOOP}, NEW l \in Locations, emitJump(b, l)
      PROVE  Written!Next
  <2>1. Log(chunk)' = Log(Three(chunk, b, l))
    BY <1>2, BecomeMaps DEF emitJump
  <2>2. Written!EmitJump(b, l)
    BY <2>1, LogThree DEF Written!EmitJump
  <2>. QED  BY <2>2 DEF Written!Next
<1>3. ASSUME NEW high \in Bytes \ {Blank}, NEW low \in Bytes, NEW l \in Locations, emitLoop(high, low, l)
      PROVE  Written!Next
  <2>. DEFINE t == Three(chunk, OP_LOOP, l)
  <2>1. Log(chunk)' = Log(Patched(t, t.size - 2, high, low))
    BY <1>3, BecomeMaps DEF emitLoop
  <2>2. Written!EmitLoop(high, low, l)
    BY <2>1, LogLoop DEF Written!EmitLoop
  <2>. QED  BY <2>2 DEF Written!Next
<1>4. ASSUME NEW o \in Entries(chunk.size), NEW high \in Bytes \ {Blank}, NEW low \in Bytes, patch(o, high, low)
      PROVE  Written!Next
  <2>1. /\ o + 1 \in Nat /\ o + 1 + 1 < chunk.size /\ chunk.size \in Nat
        /\ (o + 1) + 1 = o + 2 /\ (o + 1) + 2 = (o + 2) + 1
    BY <1>4 DEF patch, Entries, Sound
  <2>2. o + 2 \in 2 .. Len(Log(chunk)) - 1
    BY <2>1, LogTyped DEF Entries
  <2>3. Log(chunk)' = Written!Put(Written!Put(Log(chunk), o + 2, high), (o + 2) + 1, low)
    BY <1>4, <2>1, LogPatch, BecomeMaps DEF patch
  <2>. QED  BY <2>2, <2>3 DEF Written!Next, Written!Patch
<1>5. CASE freeChunk
  <2>1. chunk' = Fresh /\ Fresh.size = 0
    BY <1>5, FreshSound DEF freeChunk
  <2>2. Log(chunk)' = << >>
    BY <2>1 DEF Log
  <2>. QED  BY <2>2 DEF Written!Next, Written!Clear
<1>6. CASE Exhausted \/ Rest \/ UNCHANGED vars
  BY <1>6 DEF Exhausted, Rest, vars, Log
<1>. QED  BY <1>1, <1>2, <1>3, <1>4, <1>5, <1>6 DEF Next

\* What a chunk holds is what the compiler wrote, in its order and with its locations,
\* and a patch changes the two bytes behind an opcode, wherever the arrays have moved to:
\* what the machine and the disassembler take a chunk to be.
THEOREM ChunkImplementsLog == Spec => ImplementsLog
<1>1. Init => Written!Init
  <2>. SUFFICES ASSUME Init PROVE Written!Init
    OBVIOUS
  <2>1. Log(chunk) = << >>
    BY FreshSound DEF Init, Log
  <2>. QED  BY <2>1 DEF Written!Init
<1>. QED  BY <1>1, InitSound, NextSound, NextMaps, PTL DEF Spec, ImplementsLog, Written!Spec
=============================================================================
