--------------------------- MODULE Compiler_proofs ---------------------------
(***************************************************************************)
(* Proofs about the compiler, for every source, every table of limits and  *)
(* every width of names.                                                   *)
(*                                                                         *)
(* The compiler keeps no track of the scopes and function bodies it is in; *)
(* it only pairs what it opens with what it closes by the order of its     *)
(* calls.  The invariant therefore speaks of a place for every offset      *)
(* (place) and of the place at which every task will begin (plan): how     *)
(* many scopes of the innermost function body are open there, and whose    *)
(* body it is.                                                             *)
(***************************************************************************)
EXTENDS Compiler, FiniteSetTheorems, SequenceTheorems, WellFoundedInduction, TLAPS

-----------------------------------------------------------------------------
(* Types *)

Deeds == {"program", "declaration", "statement", "newlines", "set", "pop", "print", "then", "else",
          "patch", "body", "loop", "block", "blockLoop", "prefix", "infix", "close", "unary",
          "binary", "params", "returns", "header", "endFunction"}

TaskType == [do : Deeds, n : Nat, at : Nat, type : token_t, name : Names,
             params : Seq(Names), rets : Nat]

ParserType == [pos : 1 .. Len(source), previous : Token(Names), hadError : BOOLEAN]

Typed ==
  /\ source \in Sources
  /\ parser \in ParserType
  /\ agenda \in Seq(TaskType)
  /\ registry \in SUBSET Names

-----------------------------------------------------------------------------
(* The chunk *)

\* Where instructions start, or the next one will.
Ends(c) == Starts(c) \cup {c.size}

\* The instructions lie side by side from 0 up to the size.
Solid(c) ==
  /\ c = [code |-> c.code, size |-> c.size]
  /\ c.size \in Nat
  /\ c.code \in [Starts(c) -> Instruction(Names)]
  /\ Starts(c) \subseteq 0 .. c.size - 1
  /\ 0 \in Ends(c)
  /\ \A o \in Starts(c) : o + Width(c.code[o]) \in Ends(c)
  /\ \A o, q \in Starts(c) : o < q => o + Width(c.code[o]) <= q

\* The number of open scopes and the header of the body around: -1 outside of every body.
Place == [level : Nat, owner : Int]
Top == [level |-> 0, owner |-> -1]
Inside(h) == [level |-> 0, owner |-> h]
Deeper(pl, n) == [level |-> pl.level + n, owner |-> pl.owner]

\* The body of the function at g has offset p in it; one that is not finished has no end.
Contains(c, g, p) ==
  /\ g \in Headers(c)
  /\ FunctionStart(g, c.code[g]) <= p
  /\ c.code[g].n # Unpatched => p < AfterBody(g, c.code[g])

\* The owner of an offset is the innermost body around it.
Owned(c, place) ==
  \A p \in Ends(c) :
    /\ place[p].owner # -1 => Contains(c, place[p].owner, p)
    /\ \A g \in Headers(c) : Contains(c, g, p) => g <= place[p].owner

\* The instructions op before p in the same body.
Passed(c, place, p, op) ==
  {q \in Starts(c) : q < p /\ place[q].owner = place[p].owner /\ c.code[q].op = op}

\* The level of an offset is what was entered before it and not left.
Counted(c, place) ==
  \A p \in Ends(c) :
    place[p].level = Cardinality(Passed(c, place, p, "OP_ENTER_SCOPE"))
                       - Cardinality(Passed(c, place, p, "OP_EXIT_SCOPE"))

\* An instruction passes control to places that agree with its own.
Flows(c, place, o) ==
  LET i == c.code[o] IN
  /\ FallsThrough(i) => place[o + Width(i)] = Deeper(place[o], ScopeEffect(i))
  /\ i.op = "OP_EXIT_SCOPE" => place[o].level >= 1
  /\ i.op = "OP_RETURN" => place[o].level = 0
  /\ i.op \in JumpOps /\ i.n # Unpatched =>
       JumpTarget(o, i) \in Ends(c) /\ place[JumpTarget(o, i)] = place[o]
  /\ i.op = "OP_DEC_FUNCTION" =>
       /\ i.n # Unpatched => AfterBody(o, i) \in Ends(c) /\ place[AfterBody(o, i)] = place[o]
       /\ place[FunctionStart(o, i)] = Inside(o)
       /\ FunctionStart(o, i) \in Starts(c) => c.code[FunctionStart(o, i)].op = "OP_ENTER_SCOPE"
  /\ i.op = "OP_FUNCTION_CALL" => place[o].owner = -1 \/ place[o].level >= 1

Sound(c, place) ==
  /\ Solid(c)
  /\ place \in [Ends(c) -> Place]
  /\ Owned(c, place)
  /\ Counted(c, place)
  /\ \A o \in Starts(c) : Flows(c, place, o)

-----------------------------------------------------------------------------
(* The agenda *)

\* Where the task behind t begins, if t begins at pl.
After(t, place, pl) ==
  CASE t.do = "blockLoop" -> Deeper(pl, -1)
    [] t.do = "endFunction" -> place[t.at]
    [] OTHER -> pl

\* The instruction at offset o has one of the opcodes, and waits for its distance.
Awaits(c, o, ops) == o \in Starts(c) /\ c.code[o].op \in ops /\ c.code[o].n = Unpatched

\* What a task that begins at pl takes for granted.
Fits(t, c, place, pl) ==
  /\ t.do = "program" => pl = Top
  /\ t.do = "declaration" => pl.owner = -1 \/ pl.level >= 1
  /\ t.do = "blockLoop" => pl.level >= 1
  /\ t.do \in {"body", "loop"} => t.n \in Ends(c) /\ place[t.n] = pl
  /\ t.do \in {"else", "patch", "loop"} =>
       Awaits(c, t.at, {"OP_JUMP", "OP_JUMP_IF_FALSE"}) /\ place[t.at] = pl
  /\ t.do = "endFunction" => Awaits(c, t.at, {"OP_DEC_FUNCTION"}) /\ pl = Inside(t.at)
  /\ t.do \in {"prefix", "infix"} => t.n >= 1
  /\ t.do = "binary" => t.type \in OperatorTypes

\* Tasks that only stand at the head of the agenda.
Openers == {"block", "params", "returns", "header"}

Planned(ag, c, place, plan) ==
  /\ plan \in [1 .. Len(ag) -> Place]
  /\ \A k \in 1 .. Len(ag) : Fits(ag[k], c, place, plan[k])
  /\ \A k \in 1 .. Len(ag) - 1 : plan[k + 1] = After(ag[k], place, plan[k])
  /\ \A k \in 1 .. Len(ag) :
       \/ plan[k].owner = -1
       \/ \E j \in k .. Len(ag) : ag[j].do = "endFunction" /\ ag[j].at = plan[k].owner
  /\ ag # <<>> => plan[1] = place[c.size]
  /\ \A k \in 1 .. Len(ag) : ag[k].do = "program" <=> k = Len(ag)
  /\ \A k \in 2 .. Len(ag) : ag[k].do \notin Openers
  /\ (\E h \in Headers(c) : FunctionStart(h, c.code[h]) = c.size) =>
       ag # <<>> /\ ag[1].do = "block"

\* What waits for its distance, and the tasks that will patch it.
BlanksOf(c) == {o \in Starts(c) : /\ c.code[o].op \in JumpOps \cup {"OP_DEC_FUNCTION"}
                                 /\ c.code[o].n = Unpatched}
WaitingIn(ag) == {k \in 1 .. Len(ag) : ag[k].do \in Patchers}
Paired(ag, c) ==
  /\ \A k \in WaitingIn(ag) : ag[k].at \in BlanksOf(c)
  /\ \A o \in BlanksOf(c) : \E k \in WaitingIn(ag) : ag[k].at = o
  /\ \A j, k \in WaitingIn(ag) : ag[j].at = ag[k].at => j = k

Held(ag, c) == \E place, plan : Sound(c, place) /\ Planned(ag, c, place, plan)

-----------------------------------------------------------------------------
(* The invariant *)

\* Every name that counts as a function has a header, or the one it is about to get.
Registered ==
  \A name \in registry :
    \/ \E h \in Headers(chunk) : chunk.code[h].name = name
    \/ agenda # <<>> /\ Now.do \in {"params", "returns", "header"} /\ Now.name = name

\* The chunk that compile() delivers ends with an instruction that goes nowhere, and
\* nothing lands behind it.
Finished ==
  status = "done" =>
    /\ agenda = <<>>
    /\ chunk.size - 1 \in Starts(chunk) /\ chunk.code[chunk.size - 1] = Simple("OP_RETURN")
    /\ \A o \in Starts(chunk) :
         chunk.code[o].op \in JumpOps \cup {"OP_DEC_FUNCTION"} => Landing(o) # chunk.size

IInv ==
  /\ Typed
  /\ Held(agenda, chunk)
  /\ Paired(agenda, chunk)
  /\ status = "compiling" => agenda # <<>>
  /\ Registered
  /\ CallsFollowHeaders
  /\ Finished

-----------------------------------------------------------------------------
(* Instructions *)

LEMMA InstructionTypes ==
  /\ \A op \in OpCode : Simple(op) \in Instruction(Names)
  /\ \A op \in OpCode, n \in Nat : Literal(op, n) \in Instruction(Names)
  /\ \A op \in OpCode, x \in Names : Named(op, x) \in Instruction(Names)
  /\ \A x \in Names, params \in Seq(Names), rets \in Nat, n \in Nat :
       Header(x, params, rets, n) \in Instruction(Names)
<1>1. "" \in Names /\ <<>> \in Seq(Names)
  <2>1. <<>> \in Seq(Names)
    OBVIOUS
  <2>. QED  BY <2>1, NamesAssumption, Zenon
<1>2. "OP_DEC_FUNCTION" \in OpCode
  BY DEF OpCode
<1>. QED  BY <1>1, <1>2 DEF Simple, Literal, Named, Header, Instruction

LEMMA InstructionFields ==
  /\ \A op : Simple(op).op = op
  /\ \A op, n : Literal(op, n).op = op /\ Literal(op, n).n = n
  /\ \A op, x : Named(op, x).op = op /\ Named(op, x).name = x
  /\ \A x, params, rets, n :
       LET i == Header(x, params, rets, n)
       IN  i.op = "OP_DEC_FUNCTION" /\ i.n = n /\ i.name = x
BY DEF Simple, Literal, Named, Header

LEMMA ProductType ==
  ASSUME NEW m \in Nat, NEW n \in Nat
  PROVE  m * n \in Nat
OBVIOUS

\* Every instruction takes at least the byte of its opcode.
LEMMA WidthType ==
  ASSUME NEW i \in Instruction(Names)
  PROVE  Width(i) \in Nat \ {0}
<1>. DEFINE parameters == Len(i.params) * (1 + NameBytes)
<1>1. Len(i.params) \in Nat /\ i.rets \in Nat
  BY DEF Instruction
<1>2. parameters \in Nat
  <2>1. 1 + NameBytes \in Nat
    BY NameBytesAssumption
  <2>. QED  BY <1>1, <2>1, ProductType
<1>3. CASE i.op = "OP_DEC_FUNCTION"
  <2>1. Width(i) = 1 + 2 + NameBytes + 1 + parameters + 1 + i.rets
    BY <1>3 DEF Width, NameOps, JumpOps
  <2>. HIDE DEF parameters
  <2>. QED  BY <2>1, <1>1, <1>2, NameBytesAssumption
<1>4. CASE i.op # "OP_DEC_FUNCTION"
  BY <1>4, NameBytesAssumption DEF Width
<1>. QED  BY <1>3, <1>4

-----------------------------------------------------------------------------
(* Writing and patching, as to the shape of a chunk *)

LEMMA WriteFacts ==
  ASSUME NEW c, Solid(c), NEW i \in Instruction(Names), NEW w, w = Write(c, i)
  PROVE  /\ w.size = c.size + Width(i) /\ w.size \in Nat /\ c.size < w.size
         /\ c.size \notin Starts(c) /\ w.size \notin Ends(c)
         /\ Starts(w) = Ends(c)
         /\ Ends(w) = Ends(c) \cup {w.size}
         /\ w.code[c.size] = i
         /\ \A o \in Starts(c) : w.code[o] = c.code[o]
         /\ Solid(w)
<1>1. Width(i) \in Nat \ {0} /\ c.size \in Nat /\ Starts(c) \subseteq 0 .. c.size - 1
  BY WidthType DEF Solid
<1>2. c.size \notin Starts(c)
  BY <1>1
<1>3. w = [code |-> w.code, size |-> w.size] /\ w.size = c.size + Width(i)
  BY DEF Write
<1>4. w.code = [o \in Ends(c) |-> IF o = c.size THEN i ELSE c.code[o]]
  BY DEF Write, Ends
<1>5. Starts(w) = Ends(c) /\ Ends(w) = Ends(c) \cup {w.size}
  BY <1>4 DEF Starts, Ends
<1>6. w.code[c.size] = i /\ \A o \in Starts(c) : w.code[o] = c.code[o]
  BY <1>2, <1>4 DEF Ends
<1>7. w.size \in Nat /\ c.size < w.size /\ w.size \notin Ends(c)
  BY <1>1, <1>3 DEF Ends
<1>8. Solid(w)
  <2>1. \A o \in Starts(c) : c.code[o] \in Instruction(Names)
    BY DEF Solid
  <2>2. w.code \in [Starts(w) -> Instruction(Names)]
    BY <2>1, <1>4, <1>5 DEF Ends
  <2>3. Starts(w) \subseteq 0 .. w.size - 1
    BY <1>1, <1>5, <1>7 DEF Ends
  <2>4. 0 \in Ends(w)
    BY <1>5 DEF Solid
  <2>5. \A o \in Starts(w) : o + Width(w.code[o]) \in Ends(w)
    BY <1>3, <1>5, <1>6 DEF Solid, Ends
  <2>6. ASSUME NEW o \in Starts(w), NEW q \in Starts(w), o < q
        PROVE  o + Width(w.code[o]) <= q
    <3>1. o \in Starts(c)
      BY <2>6, <1>1, <1>5 DEF Ends
    <3>2. o + Width(c.code[o]) \in Ends(c)
      BY <3>1 DEF Solid
    <3>3. CASE q = c.size
      BY <3>1, <3>2, <3>3, <1>1, <1>6 DEF Ends
    <3>4. CASE q \in Starts(c)
      BY <2>6, <3>1, <3>4, <1>6 DEF Solid
    <3>. QED  BY <3>3, <3>4, <1>5 DEF Ends
  <2>. QED  BY <1>3, <1>7, <2>2, <2>3, <2>4, <2>5, <2>6 DEF Solid
<1>. QED  BY <1>2, <1>3, <1>5, <1>6, <1>7, <1>8

\* w is c with the distance n in the instruction at o.
Patched(c, o, n, w) ==
  /\ w.size = c.size /\ Starts(w) = Starts(c) /\ Ends(w) = Ends(c)
  /\ w.code[o].op = c.code[o].op /\ w.code[o].n = n /\ w.code[o].name = c.code[o].name
  /\ Width(w.code[o]) = Width(c.code[o])
  /\ \A q \in Starts(c) : q # o => w.code[q] = c.code[q]
  /\ Solid(w)

LEMMA PatchFacts ==
  ASSUME NEW c, NEW o, NEW n, Solid(c), o \in Starts(c), n \in Nat
  PROVE  Patched(c, o, n, Patch(c, o, n))
<1>. DEFINE w == Patch(c, o, n)
<1>1. c = [code |-> c.code, size |-> c.size] /\ c.code \in [Starts(c) -> Instruction(Names)]
  BY DEF Solid
<1>2. w = [code |-> [c.code EXCEPT ![o].n = n], size |-> c.size]
  BY <1>1 DEF Patch
<1>. HIDE DEF w
<1>3. c.code[o] \in Instruction(Names)
  BY <1>1
<1>4. /\ w.code[o] = [c.code[o] EXCEPT !.n = n]
      /\ \A q \in Starts(c) : q # o => w.code[q] = c.code[q]
  BY <1>1, <1>2
<1>5. /\ w.code[o].op = c.code[o].op /\ w.code[o].n = n /\ w.code[o].name = c.code[o].name
      /\ w.code[o].params = c.code[o].params /\ w.code[o].rets = c.code[o].rets
      /\ w.code[o] \in Instruction(Names)
  BY <1>3, <1>4 DEF Instruction
<1>6. Width(w.code[o]) = Width(c.code[o])
  BY <1>5 DEF Width
<1>7. w.size = c.size /\ Starts(w) = Starts(c) /\ Ends(w) = Ends(c)
  BY <1>1, <1>2 DEF Starts, Ends
<1>8. Solid(w)
  <2>1. w.code \in [Starts(w) -> Instruction(Names)]
    BY <1>1, <1>2, <1>4, <1>5, <1>7 DEF Starts
  <2>2. \A q \in Starts(c) : Width(w.code[q]) = Width(c.code[q])
    BY <1>4, <1>6
  <2>3. w = [code |-> w.code, size |-> w.size]
    BY <1>2
  <2>. QED  BY <1>7, <2>1, <2>2, <2>3 DEF Solid
<1>9. Patched(c, o, n, w)
  BY <1>4, <1>5, <1>6, <1>7, <1>8 DEF Patched
<1>. QED  BY <1>9 DEF w

-----------------------------------------------------------------------------
(* Writing and places *)

\* Instruction i may be written at the end of c, and leads on to pl.
LeadsTo(c, place, i, pl) ==
  LET here == place[c.size] IN
  /\ i \in Instruction(Names)
  /\ pl \in Place
  /\ IF i.op = "OP_DEC_FUNCTION" THEN pl = Inside(c.size) /\ i.n = Unpatched
                                 ELSE pl = Deeper(here, ScopeEffect(i))
  /\ here.owner # -1 => c.code[here.owner].n = Unpatched
  /\ i.op \in JumpOps /\ i.n # Unpatched =>
       JumpTarget(c.size, i) \in Ends(c) /\ place[JumpTarget(c.size, i)] = here
  /\ i.op = "OP_EXIT_SCOPE" => here.level >= 1
  /\ i.op = "OP_RETURN" => here.level = 0
  /\ i.op = "OP_FUNCTION_CALL" => here.owner = -1 \/ here.level >= 1
  /\ (\E h \in Headers(c) : FunctionStart(h, c.code[h]) = c.size) => i.op = "OP_ENTER_SCOPE"

\* The places of c, with pl at its end.
Extend(place, c, pl) == [p \in Ends(c) |-> IF p = c.size THEN pl ELSE place[p]]

LEMMA PlaceTypes ==
  ASSUME NEW c, NEW place, Sound(c, place)
  PROVE  /\ c.size \in Nat
         /\ Ends(c) \subseteq Nat
         /\ \A p \in Ends(c) : /\ p <= c.size
                               /\ place[p] \in Place
                               /\ place[p].level \in Nat /\ place[p].owner \in Int
                               /\ place[p] = [level |-> place[p].level, owner |-> place[p].owner]
BY DEF Sound, Solid, Ends, Place

LEMMA OwnedWhenWritten ==
  ASSUME NEW c, NEW place, Sound(c, place), NEW i, NEW pl, LeadsTo(c, place, i, pl),
         NEW w, w = Write(c, i), NEW place2, place2 = Extend(place, w, pl)
  PROVE  Owned(w, place2)
<1>0. Solid(c) /\ i \in Instruction(Names) /\ Owned(c, place)
  BY DEF Sound, LeadsTo
<1>1. /\ w.size \in Nat /\ c.size < w.size /\ w.size = c.size + Width(i)
      /\ c.size \notin Starts(c) /\ w.size \notin Ends(c)
      /\ Starts(w) = Ends(c) /\ Ends(w) = Ends(c) \cup {w.size}
      /\ w.code[c.size] = i /\ \A o \in Starts(c) : w.code[o] = c.code[o]
  BY <1>0, WriteFacts
<1>2. c.size \in Nat /\ Ends(c) \subseteq Nat /\ \A p \in Ends(c) : p <= c.size
  BY PlaceTypes
<1>3. place2[w.size] = pl /\ \A p \in Ends(c) : place2[p] = place[p]
  BY <1>1 DEF Extend
<1>4. Headers(c) \subseteq Headers(w) /\ Headers(c) \subseteq Starts(c) /\ c.size \notin Headers(c)
  BY <1>1 DEF Headers, Ends
<1>5. \A g \in Headers(w) : g \in Headers(c) \/ (g = c.size /\ i.op = "OP_DEC_FUNCTION")
  BY <1>1 DEF Headers, Ends
<1>6. \A g \in Headers(c) : \A p : Contains(w, g, p) <=> Contains(c, g, p)
  BY <1>1, <1>4 DEF Contains
<1>7. \A p \in Ends(c) : ~Contains(w, c.size, p)
  BY <1>1, <1>2 DEF Contains, FunctionStart
<1>8. ASSUME NEW p \in Ends(c)
      PROVE  /\ place2[p].owner # -1 => Contains(w, place2[p].owner, p)
             /\ \A g \in Headers(w) : Contains(w, g, p) => g <= place2[p].owner
  <2>1. place2[p].owner # -1 => Contains(c, place2[p].owner, p)
    BY <1>0, <1>3 DEF Owned
  <2>2. place2[p].owner # -1 => place2[p].owner \in Headers(c)
    BY <2>1 DEF Contains
  <2>3. \A g \in Headers(c) : Contains(c, g, p) => g <= place2[p].owner
    BY <1>0, <1>3 DEF Owned
  <2>. QED  BY <2>1, <2>2, <2>3, <1>5, <1>6, <1>7
<1>9. /\ pl.owner # -1 => Contains(w, pl.owner, w.size)
      /\ \A g \in Headers(w) : Contains(w, g, w.size) => g <= pl.owner
  <2>1. ASSUME NEW g \in Headers(c), Contains(w, g, w.size)
        PROVE  Contains(c, g, c.size)
    <3>1. g \in Starts(c) /\ c.code[g].op = "OP_DEC_FUNCTION" /\ g \in Ends(c)
      BY DEF Headers, Ends
    <3>2. g + Width(c.code[g]) \in Ends(c)
      BY <1>0, <3>1 DEF Solid
    <3>3. Flows(c, place, g)
      BY <3>1 DEF Sound
    <3>4. c.code[g].n = Unpatched
      <4>1. SUFFICES ASSUME c.code[g].n # Unpatched PROVE FALSE
        OBVIOUS
      <4>2. AfterBody(g, c.code[g]) \in Ends(c)
        BY <3>1, <3>3, <4>1 DEF Flows
      <4>3. w.size < AfterBody(g, c.code[g])
        BY <2>1, <3>1, <4>1, <1>1 DEF Contains
      <4>. QED  BY <4>2, <4>3, <1>1, <1>2
    <3>. QED  BY <3>2, <3>4, <1>2 DEF Contains, FunctionStart
  <2>2. \A g \in Headers(c) : Contains(c, g, c.size) => g <= place[c.size].owner
    BY <1>0 DEF Owned, Ends
  <2>3. CASE i.op = "OP_DEC_FUNCTION"
    <3>1. pl.owner = c.size /\ i.n = Unpatched
      BY <2>3 DEF LeadsTo, Inside
    <3>2. c.size \in Headers(w)
      BY <2>3, <1>1 DEF Headers, Ends
    <3>3. Contains(w, c.size, w.size)
      BY <3>1, <3>2, <1>1 DEF Contains, FunctionStart
    <3>4. \A g \in Headers(w) : g <= c.size
      BY <1>1, <1>2 DEF Headers
    <3>. QED  BY <3>1, <3>3, <3>4
  <2>4. CASE i.op # "OP_DEC_FUNCTION"
    <3>1. pl.owner = place[c.size].owner
      BY <2>4 DEF LeadsTo, Deeper
    <3>2. ASSUME pl.owner # -1
          PROVE  Contains(w, pl.owner, w.size)
      <4>1. Contains(c, pl.owner, c.size)
        BY <3>1, <3>2, <1>0 DEF Owned, Ends
      <4>2. pl.owner \in Headers(c) /\ pl.owner \in Starts(c) /\ c.code[pl.owner].n = Unpatched
        BY <4>1, <3>1, <3>2 DEF Contains, Headers, LeadsTo
      <4>3. pl.owner + Width(c.code[pl.owner]) \in Ends(c)
        BY <1>0, <4>2 DEF Solid
      <4>. QED  BY <4>2, <4>3, <1>1, <1>2, <1>4 DEF Contains, FunctionStart
    <3>3. \A g \in Headers(w) : g \in Headers(c)
      BY <1>5, <2>4
    <3>. QED  BY <3>1, <3>2, <3>3, <2>1, <2>2
  <2>. QED  BY <2>3, <2>4
<1>. QED  BY <1>1, <1>3, <1>8, <1>9 DEF Owned

LEMMA CountedWhenWritten ==
  ASSUME NEW c, NEW place, Sound(c, place), NEW i, NEW pl, LeadsTo(c, place, i, pl),
         NEW w, w = Write(c, i), NEW place2, place2 = Extend(place, w, pl)
  PROVE  Counted(w, place2)
<1>0. Solid(c) /\ i \in Instruction(Names) /\ Owned(c, place) /\ Counted(c, place)
  BY DEF Sound, LeadsTo
<1>1. /\ w.size \in Nat /\ c.size < w.size
      /\ c.size \notin Starts(c) /\ w.size \notin Ends(c)
      /\ Starts(w) = Ends(c) /\ Ends(w) = Ends(c) \cup {w.size}
      /\ w.code[c.size] = i /\ \A o \in Starts(c) : w.code[o] = c.code[o]
  BY <1>0, WriteFacts
<1>2. /\ c.size \in Nat /\ Ends(c) \subseteq Nat /\ \A p \in Ends(c) : p <= c.size
      /\ c.size \in Ends(c) /\ Starts(c) \subseteq Ends(c)
  BY PlaceTypes DEF Ends
<1>3. place2[w.size] = pl /\ \A p \in Ends(c) : place2[p] = place[p]
  BY <1>1 DEF Extend
<1>4. ASSUME NEW p \in Ends(c), NEW op
      PROVE  Passed(w, place2, p, op) = Passed(c, place, p, op)
  <2>1. \A q \in Starts(w) : q < p => q \in Starts(c)
    BY <1>1, <1>2 DEF Ends
  <2>. QED  BY <2>1, <1>1, <1>2, <1>3 DEF Passed
<1>5. ASSUME NEW op
      PROVE  IsFiniteSet(Passed(c, place, c.size, op))
  <2>1. Passed(c, place, c.size, op) \subseteq 0 .. c.size
    BY <1>2 DEF Passed
  <2>2. IsFiniteSet(0 .. c.size)
    BY <1>2, FS_Interval
  <2>. QED  BY <2>1, <2>2, FS_Subset
<1>6. CASE i.op = "OP_DEC_FUNCTION"
  <2>1. pl.owner = c.size /\ pl.level = 0
    BY <1>6 DEF LeadsTo, Inside
  <2>2. ASSUME NEW q \in Ends(c)
        PROVE  place[q].owner # c.size
    <3>1. c.size \notin Headers(c) /\ c.size # -1
      BY <1>1, <1>2 DEF Headers
    <3>. QED  BY <3>1, <1>0 DEF Owned, Contains
  <2>3. \A op : Passed(w, place2, w.size, op) = {}
    BY <2>1, <2>2, <1>1, <1>3 DEF Passed
  <2>4. pl.level = Cardinality(Passed(w, place2, w.size, "OP_ENTER_SCOPE"))
                     - Cardinality(Passed(w, place2, w.size, "OP_EXIT_SCOPE"))
    BY <2>1, <2>3, FS_EmptySet
  <2>. QED  BY <2>4, <1>0, <1>1, <1>3, <1>4 DEF Counted
<1>7. CASE i.op # "OP_DEC_FUNCTION"
  <2>. DEFINE entered == Passed(c, place, c.size, "OP_ENTER_SCOPE")
              left == Passed(c, place, c.size, "OP_EXIT_SCOPE")
  <2>1. pl.owner = place[c.size].owner /\ pl.level = place[c.size].level + ScopeEffect(i)
    BY <1>7 DEF LeadsTo, Deeper
  <2>2. ASSUME NEW op
        PROVE  /\ i.op = op => Passed(w, place2, w.size, op)
                                 = Passed(c, place, c.size, op) \cup {c.size}
               /\ i.op # op => Passed(w, place2, w.size, op) = Passed(c, place, c.size, op)
    <3>1. Passed(w, place2, w.size, op)
            = {q \in Ends(c) : place[q].owner = place[c.size].owner /\ w.code[q].op = op}
      BY <2>1, <1>1, <1>2, <1>3 DEF Passed
    <3>2. Passed(c, place, c.size, op)
            = {q \in Starts(c) : place[q].owner = place[c.size].owner /\ w.code[q].op = op}
      <4>1. \A q \in Starts(c) : q < c.size
        BY <1>0 DEF Solid
      <4>. QED  BY <4>1, <1>1 DEF Passed
    <3>. HIDE DEF Passed
    <3>. QED  BY <3>1, <3>2, <1>1, <1>2 DEF Ends
  <2>3. \A op : c.size \notin Passed(c, place, c.size, op)
    BY <1>1 DEF Passed
  <2>4. IsFiniteSet(entered) /\ IsFiniteSet(left) /\ c.size \notin entered /\ c.size \notin left
    BY <1>5, <2>3
  <2>5. /\ Cardinality(entered \cup {c.size}) = Cardinality(entered) + 1
        /\ Cardinality(left \cup {c.size}) = Cardinality(left) + 1
        /\ Cardinality(entered) \in Nat /\ Cardinality(left) \in Nat
    <3>. HIDE DEF entered, left
    <3>. QED  BY <2>4, FS_AddElement, FS_CardinalityType
  <2>6. place[c.size].level = Cardinality(entered) - Cardinality(left)
    BY <1>0, <1>2 DEF Counted
  <2>. DEFINE enters == Cardinality(Passed(w, place2, w.size, "OP_ENTER_SCOPE"))
              exits == Cardinality(Passed(w, place2, w.size, "OP_EXIT_SCOPE"))
  <2>7. pl.level = enters - exits
    <3>1. CASE i.op = "OP_ENTER_SCOPE"
      <4>1. enters = Cardinality(entered) + 1 /\ exits = Cardinality(left)
        BY <3>1, <2>2, <2>5
      <4>2. ScopeEffect(i) = 1
        BY <3>1 DEF ScopeEffect
      <4>. HIDE DEF entered, left, enters, exits
      <4>. QED  BY <4>1, <4>2, <2>1, <2>5, <2>6
    <3>2. CASE i.op = "OP_EXIT_SCOPE"
      <4>1. enters = Cardinality(entered) /\ exits = Cardinality(left) + 1
        BY <3>2, <2>2, <2>5
      <4>2. ScopeEffect(i) = 0 - 1
        BY <3>2 DEF ScopeEffect
      <4>. HIDE DEF entered, left, enters, exits
      <4>. QED  BY <4>1, <4>2, <2>1, <2>5, <2>6
    <3>3. CASE i.op \notin {"OP_ENTER_SCOPE", "OP_EXIT_SCOPE"}
      <4>1. enters = Cardinality(entered) /\ exits = Cardinality(left)
        BY <3>3, <2>2
      <4>2. ScopeEffect(i) = 0
        BY <3>3 DEF ScopeEffect
      <4>. HIDE DEF entered, left, enters, exits
      <4>. QED  BY <4>1, <4>2, <2>1, <2>5, <2>6
    <3>. QED  BY <3>1, <3>2, <3>3
  <2>. QED  BY <2>7, <1>0, <1>1, <1>3, <1>4 DEF Counted
<1>. QED  BY <1>6, <1>7

LEMMA FlowsWhenWritten ==
  ASSUME NEW c, NEW place, Sound(c, place), NEW i, NEW pl, LeadsTo(c, place, i, pl),
         NEW w, w = Write(c, i), NEW place2, place2 = Extend(place, w, pl)
  PROVE  \A o \in Starts(w) : Flows(w, place2, o)
<1>0. Solid(c) /\ i \in Instruction(Names)
  BY DEF Sound, LeadsTo
<1>1. /\ w.size \in Nat /\ c.size < w.size /\ w.size = c.size + Width(i)
      /\ c.size \notin Starts(c) /\ w.size \notin Ends(c)
      /\ Starts(w) = Ends(c) /\ Ends(w) = Ends(c) \cup {w.size}
      /\ w.code[c.size] = i /\ \A o \in Starts(c) : w.code[o] = c.code[o]
  BY <1>0, WriteFacts
<1>2. /\ c.size \in Nat /\ Ends(c) \subseteq Nat /\ \A p \in Ends(c) : p <= c.size
      /\ c.size \in Ends(c) /\ Starts(c) \subseteq Ends(c)
  BY PlaceTypes DEF Ends
<1>3. place2[w.size] = pl /\ \A p \in Ends(c) : place2[p] = place[p]
  BY <1>1 DEF Extend
<1>4. ASSUME NEW o \in Starts(c)
      PROVE  Flows(w, place2, o)
  <2>1. Flows(c, place, o) /\ w.code[o] = c.code[o] /\ o \in Ends(c) /\ place2[o] = place[o]
    BY <1>1, <1>3 DEF Sound, Ends
  <2>2. o + Width(c.code[o]) \in Ends(c)
    BY <1>0 DEF Solid
  <2>3. place2[o + Width(c.code[o])] = place[o + Width(c.code[o])]
    BY <2>2, <1>3
  <2>4. c.code[o].op = "OP_DEC_FUNCTION" /\ FunctionStart(o, c.code[o]) \in Starts(w) =>
          w.code[FunctionStart(o, c.code[o])].op = "OP_ENTER_SCOPE"
    <3>1. SUFFICES ASSUME c.code[o].op = "OP_DEC_FUNCTION"
                   PROVE  w.code[FunctionStart(o, c.code[o])].op = "OP_ENTER_SCOPE"
      OBVIOUS
    <3>2. o \in Headers(c)
      BY <3>1 DEF Headers
    <3>3. CASE FunctionStart(o, c.code[o]) \in Starts(c)
      BY <2>1, <3>1, <3>3, <1>1 DEF Flows
    <3>4. CASE FunctionStart(o, c.code[o]) = c.size
      BY <3>2, <3>4, <1>1 DEF LeadsTo
    <3>. QED  BY <3>3, <3>4, <2>2 DEF Ends, FunctionStart
  <2>. HIDE DEF Ends, Starts, Extend, Write
  <2>5. /\ FallsThrough(c.code[o]) =>
             place2[o + Width(c.code[o])] = Deeper(place2[o], ScopeEffect(c.code[o]))
        /\ c.code[o].op = "OP_EXIT_SCOPE" => place2[o].level >= 1
        /\ c.code[o].op = "OP_RETURN" => place2[o].level = 0
        /\ c.code[o].op = "OP_FUNCTION_CALL" => place2[o].owner = -1 \/ place2[o].level >= 1
    BY <2>1, <2>3 DEF Flows
  <2>6. c.code[o].op \in JumpOps /\ c.code[o].n # Unpatched =>
          /\ JumpTarget(o, c.code[o]) \in Ends(w)
          /\ place2[JumpTarget(o, c.code[o])] = place2[o]
    BY <2>1, <1>1, <1>3 DEF Flows
  <2>7. c.code[o].op = "OP_DEC_FUNCTION" =>
          /\ c.code[o].n # Unpatched => /\ AfterBody(o, c.code[o]) \in Ends(w)
                                        /\ place2[AfterBody(o, c.code[o])] = place2[o]
          /\ place2[FunctionStart(o, c.code[o])] = Inside(o)
    BY <2>1, <2>3, <1>1, <1>3 DEF Flows, FunctionStart
  <2>. QED  BY <2>1, <2>4, <2>5, <2>6, <2>7 DEF Flows
<1>5. Flows(w, place2, c.size)
  <2>1. w.code[c.size] = i /\ place2[c.size] = place[c.size] /\ c.size + Width(i) = w.size
    BY <1>1, <1>2, <1>3
  <2>2. FallsThrough(i) => i.op # "OP_DEC_FUNCTION"
    BY DEF FallsThrough
  <2>3. FallsThrough(i) => place2[c.size + Width(i)] = Deeper(place[c.size], ScopeEffect(i))
    BY <2>1, <2>2, <1>3 DEF LeadsTo
  <2>4. i.op = "OP_DEC_FUNCTION" =>
          /\ i.n = Unpatched /\ place2[FunctionStart(c.size, i)] = Inside(c.size)
          /\ FunctionStart(c.size, i) \notin Starts(w)
    BY <2>1, <1>1, <1>3 DEF LeadsTo, FunctionStart
  <2>5. i.op \in JumpOps /\ i.n # Unpatched =>
          /\ JumpTarget(c.size, i) \in Ends(w)
          /\ place2[JumpTarget(c.size, i)] = place[c.size]
    BY <1>1, <1>3 DEF LeadsTo
  <2>6. /\ i.op = "OP_EXIT_SCOPE" => place[c.size].level >= 1
        /\ i.op = "OP_RETURN" => place[c.size].level = 0
        /\ i.op = "OP_FUNCTION_CALL" => place[c.size].owner = -1 \/ place[c.size].level >= 1
    BY DEF LeadsTo
  <2>. QED  BY <2>1, <2>3, <2>4, <2>5, <2>6 DEF Flows
<1>. QED  BY <1>1, <1>4, <1>5 DEF Ends

\* An instruction written where it may be keeps the chunk sound.
LEMMA WriteSound ==
  ASSUME NEW c, NEW place, Sound(c, place), NEW i, NEW pl, LeadsTo(c, place, i, pl)
  PROVE  Sound(Write(c, i), Extend(place, Write(c, i), pl))
<1>. DEFINE w == Write(c, i)
            place2 == Extend(place, w, pl)
<1>1. Solid(c) /\ i \in Instruction(Names) /\ place \in [Ends(c) -> Place] /\ pl \in Place
  BY DEF Sound, LeadsTo
<1>2. Solid(w) /\ Ends(w) = Ends(c) \cup {w.size} /\ w.size \notin Ends(c)
  BY <1>1, WriteFacts
<1>3. place2 \in [Ends(w) -> Place]
  BY <1>1, <1>2 DEF Extend
<1>4. Owned(w, place2) /\ Counted(w, place2)
  BY OwnedWhenWritten, CountedWhenWritten
<1>5. \A o \in Starts(w) : Flows(w, place2, o)
  BY FlowsWhenWritten
<1>. HIDE DEF w, place2
<1>6. Sound(w, place2)
  BY <1>2, <1>3, <1>4, <1>5 DEF Sound
<1>. QED  BY <1>6 DEF w, place2

-----------------------------------------------------------------------------
(* Patching and places *)

\* A jump that waits may be made to land at the end of the chunk, if its place is the same.
LEMMA PatchSound ==
  ASSUME NEW c, NEW place, Sound(c, place),
         NEW o, Awaits(c, o, {"OP_JUMP", "OP_JUMP_IF_FALSE"}), place[o] = place[c.size],
         Distance(c, o) <= JumpMax
  PROVE  Sound(patchJump(c, o), place)
<1>. DEFINE n == Distance(c, o)
            w == Patch(c, o, n)
<1>1. Solid(c) /\ o \in Starts(c) /\ c.size \in Nat /\ Starts(c) \subseteq 0 .. c.size - 1
  BY DEF Sound, Solid, Awaits
<1>2. n \in Nat /\ n # Unpatched
  BY <1>1, LimitsAssumption DEF Distance, Unpatched
<1>3. /\ w.size = c.size /\ Starts(w) = Starts(c) /\ Ends(w) = Ends(c)
      /\ w.code[o].op = c.code[o].op /\ w.code[o].n = n
      /\ Width(w.code[o]) = Width(c.code[o])
      /\ \A q \in Starts(c) : q # o => w.code[q] = c.code[q]
      /\ Solid(w)
  <2>1. Solid(c) /\ o \in Starts(c) /\ n \in Nat
    BY <1>1, <1>2
  <2>2. Patched(c, o, n, w)
    BY <2>1, PatchFacts
  <2>. HIDE DEF n, w
  <2>. QED  BY <2>2 DEF Patched
<1>. HIDE DEF w, n
<1>4. c.code[o].op \in {"OP_JUMP", "OP_JUMP_IF_FALSE"}
  BY DEF Awaits
<1>5. \A q \in Starts(c) : w.code[q].op = c.code[q].op
  BY <1>3
<1>6. Headers(w) = Headers(c) /\ \A g \in Headers(c) : w.code[g] = c.code[g]
  BY <1>3, <1>4, <1>5 DEF Headers
<1>7. Owned(w, place)
  <2>1. \A g, p : Contains(w, g, p) <=> Contains(c, g, p)
    BY <1>6 DEF Contains
  <2>. QED  BY <2>1, <1>3, <1>6 DEF Sound, Owned
<1>8. Counted(w, place)
  <2>1. \A p, op : Passed(w, place, p, op) = Passed(c, place, p, op)
    BY <1>3, <1>5 DEF Passed
  <2>. QED  BY <2>1, <1>3 DEF Sound, Counted
<1>9. ASSUME NEW q \in Starts(w)
      PROVE  Flows(w, place, q)
  <2>1. Flows(c, place, q) /\ q \in Starts(c)
    BY <1>3 DEF Sound
  <2>2. CASE q # o
    <3>1. w.code[q] = c.code[q]
      BY <2>1, <2>2, <1>3
    <3>. QED  BY <2>1, <3>1, <1>3, <1>5 DEF Flows
  <2>3. CASE q = o
    <3>1. o + n = c.size
      BY <1>1 DEF n, Distance
    <3>2. JumpTarget(o, w.code[o]) \in Ends(w) /\ place[JumpTarget(o, w.code[o])] = place[o]
      BY <1>3, <1>4, <3>1 DEF JumpTarget, Ends
    <3>3. FallsThrough(w.code[o]) =>
            place[o + Width(w.code[o])] = Deeper(place[o], ScopeEffect(w.code[o]))
      BY <2>1, <2>3, <1>3 DEF Flows, FallsThrough, ScopeEffect
    <3>. QED  BY <2>3, <3>2, <3>3, <1>3, <1>4 DEF Flows
  <2>. QED  BY <2>2, <2>3
<1>10. Sound(w, place)
  BY <1>3, <1>7, <1>8, <1>9 DEF Sound
<1>. QED  BY <1>10 DEF w, n, patchJump

\* A body is finished with a return, and behind it everything is as before its header.
LEMMA CloseSound ==
  ASSUME NEW c, NEW place, Sound(c, place),
         NEW h, Awaits(c, h, {"OP_DEC_FUNCTION"}), place[c.size] = Inside(h),
         place[h].owner # -1 => c.code[place[h].owner].n = Unpatched,
         ~ \E g \in Headers(c) : FunctionStart(g, c.code[g]) = c.size,
         NEW w, w = Write(c, Simple("OP_RETURN")),
         Distance(w, h + 1) <= JumpMax
  PROVE  Sound(Patch(w, h, Distance(w, h + 1)), Extend(place, w, place[h]))
<1>. DEFINE n == Distance(w, h + 1)
            v == Patch(w, h, n)
            place3 == Extend(place, w, place[h])
            k == place[h].owner
            return == Simple("OP_RETURN")
<1>1. /\ Solid(c) /\ h \in Starts(c) /\ c.size \in Nat /\ Starts(c) \subseteq 0 .. c.size - 1
      /\ return \in Instruction(Names) /\ return.op = "OP_RETURN"
  BY InstructionTypes DEF Sound, Solid, Awaits, OpCode, Simple
<1>2. /\ w.size \in Nat /\ c.size < w.size /\ w.size = c.size + Width(return)
      /\ c.size \notin Starts(c) /\ w.size \notin Ends(c)
      /\ Starts(w) = Ends(c) /\ Ends(w) = Ends(c) \cup {w.size}
      /\ w.code[c.size] = return /\ \A o \in Starts(c) : w.code[o] = c.code[o]
      /\ Solid(w)
  <2>. HIDE DEF return
  <2>1. w = Write(c, return)
    BY DEF return
  <2>. QED  BY <2>1, <1>1, WriteFacts
<1>3. n \in Nat /\ n # Unpatched /\ h + 1 + n = w.size /\ h < c.size
  BY <1>1, <1>2, LimitsAssumption DEF Distance, Unpatched
<1>4. /\ v.size = w.size /\ Starts(v) = Starts(w) /\ Ends(v) = Ends(w)
      /\ v.code[h].op = w.code[h].op /\ v.code[h].n = n
      /\ Width(v.code[h]) = Width(w.code[h])
      /\ \A q \in Starts(w) : q # h => v.code[q] = w.code[q]
      /\ Solid(v)
  <2>1. h \in Starts(w)
    BY <1>1, <1>2 DEF Ends
  <2>2. Solid(w) /\ h \in Starts(w) /\ n \in Nat
    BY <2>1, <1>2, <1>3
  <2>3. Patched(w, h, n, v)
    BY <2>2, PatchFacts
  <2>. HIDE DEF n, v
  <2>. QED  BY <2>3 DEF Patched
<1>5. /\ Ends(c) \subseteq Nat /\ \A p \in Ends(c) : p <= c.size /\ place[p] \in Place
      /\ c.size \in Ends(c) /\ Starts(c) \subseteq Ends(c) /\ h \in Ends(c)
      /\ k \in Int /\ place[h] \in Place
  BY PlaceTypes, <1>1 DEF Ends
<1>6. place3[w.size] = place[h] /\ \A p \in Ends(c) : place3[p] = place[p]
  BY <1>2 DEF Extend
<1>7. c.code[h].op = "OP_DEC_FUNCTION" /\ c.code[h].n = Unpatched /\ h \in Headers(c)
  BY DEF Awaits, Headers
<1>. HIDE DEF n, v, place3
<1>8. /\ \A q \in Starts(c) : /\ v.code[q].op = c.code[q].op
                              /\ Width(v.code[q]) = Width(c.code[q])
                              /\ q # h => v.code[q] = c.code[q]
      /\ v.code[c.size].op = "OP_RETURN"
  BY <1>1, <1>2, <1>4, <1>5
<1>9. Headers(v) = Headers(c)
  BY <1>2, <1>4, <1>8 DEF Headers, Ends
<1>10. \A p : Contains(v, h, p) <=> FunctionStart(h, c.code[h]) <= p /\ p < w.size
  BY <1>1, <1>3, <1>4, <1>7, <1>8, <1>9 DEF Contains, FunctionStart, AfterBody
<1>11. \A g \in Headers(c) \ {h} : \A p : Contains(v, g, p) <=> Contains(c, g, p)
  BY <1>8, <1>9 DEF Contains, Headers
<1>12. \A p : Contains(c, h, p) <=> FunctionStart(h, c.code[h]) <= p
  BY <1>7 DEF Contains
<1>13. \A g \in Headers(c) : /\ g \in Starts(c) /\ g < FunctionStart(g, c.code[g])
                             /\ FunctionStart(g, c.code[g]) \in Ends(c)
  BY <1>1, WidthType DEF Solid, Headers, FunctionStart
<1>14. k # -1 => Contains(c, k, h) /\ k \in Headers(c) /\ k # h
  <2>1. k # -1 => Contains(c, k, h)
    BY <1>5 DEF Sound, Owned
  <2>2. ~Contains(c, h, h)
    BY <1>1, <1>5, <1>7, <1>12, <1>13
  <2>. QED  BY <2>1, <2>2 DEF Contains
<1>15. k < h
  <2>1. CASE k = -1
    BY <2>1, <1>1
  <2>2. CASE k # -1
    BY <2>2, <1>1, <1>5, <1>13, <1>14 DEF Contains
  <2>. QED  BY <2>1, <2>2
<1>16. Owned(v, place3)
  <2>1. ASSUME NEW p \in Ends(c)
        PROVE  /\ place3[p].owner # -1 => Contains(v, place3[p].owner, p)
               /\ \A g \in Headers(v) : Contains(v, g, p) => g <= place3[p].owner
    <3>1. \A g \in Headers(c) : Contains(v, g, p) <=> Contains(c, g, p)
      <4>1. p < w.size
        BY <1>2, <1>5
      <4>. QED  BY <4>1, <1>10, <1>11, <1>12
    <3>2. place[p].owner # -1 => Contains(c, place[p].owner, p)
      BY DEF Sound, Owned
    <3>3. \A g \in Headers(c) : Contains(c, g, p) => g <= place[p].owner
      BY DEF Sound, Owned
    <3>4. \A g : Contains(c, g, p) => g \in Headers(c)
      BY DEF Contains
    <3>. QED  BY <3>1, <3>2, <3>3, <3>4, <1>6, <1>9
  <2>2. ASSUME k # -1
        PROVE  Contains(v, k, w.size)
    <3>1. c.code[k].n = Unpatched /\ FunctionStart(k, c.code[k]) \in Ends(c)
      BY <2>2, <1>13, <1>14
    <3>2. Contains(c, k, w.size)
      BY <2>2, <3>1, <1>2, <1>5, <1>14 DEF Contains
    <3>. QED  BY <2>2, <3>2, <1>11, <1>14
  <2>3. ASSUME NEW g \in Headers(c), Contains(v, g, w.size)
        PROVE  g <= k
    <3>1. g # h
      BY <2>3, <1>2, <1>10
    <3>2. Contains(c, g, w.size)
      BY <2>3, <3>1, <1>11
    <3>3. g \in Starts(c) /\ Flows(c, place, g) /\ c.code[g].op = "OP_DEC_FUNCTION"
      BY DEF Headers, Sound
    <3>4. c.code[g].n = Unpatched
      <4>1. SUFFICES ASSUME c.code[g].n # Unpatched PROVE FALSE
        OBVIOUS
      <4>2. AfterBody(g, c.code[g]) \in Ends(c)
        BY <3>3, <4>1 DEF Flows
      <4>3. w.size < AfterBody(g, c.code[g])
        BY <3>2, <4>1 DEF Contains
      <4>. QED  BY <4>2, <4>3, <1>2, <1>5
    <3>5. Contains(c, g, c.size)
      BY <3>4, <1>5, <1>13 DEF Contains
    <3>6. g <= h
      BY <3>5, <1>5 DEF Sound, Owned, Inside
    <3>7. FunctionStart(g, c.code[g]) <= h
      <4>1. g < h
        BY <3>1, <3>3, <3>6, <1>1
      <4>. QED  BY <4>1, <3>3, <1>1 DEF Solid, FunctionStart
    <3>8. Contains(c, g, h)
      BY <3>4, <3>7 DEF Contains
    <3>. QED  BY <3>8, <1>5 DEF Sound, Owned
  <2>. QED  BY <2>1, <2>2, <2>3, <1>2, <1>4, <1>6, <1>9 DEF Owned
<1>17. Counted(v, place3)
  <2>1. ASSUME NEW p \in Ends(c), NEW op
        PROVE  Passed(v, place3, p, op) = Passed(c, place, p, op)
    <3>1. \A q \in Starts(v) : q < p => q \in Starts(c)
      BY <1>2, <1>4, <1>5 DEF Ends
    <3>2. Starts(c) \subseteq Starts(v)
      BY <1>2, <1>4, <1>5
    <3>. QED  BY <3>1, <3>2, <1>5, <1>6, <1>8 DEF Passed
  <2>2. ASSUME NEW op \in {"OP_ENTER_SCOPE", "OP_EXIT_SCOPE"}
        PROVE  Passed(v, place3, w.size, op) = Passed(c, place, h, op)
    <3>1. v.code[c.size].op # op
      BY <1>8
    <3>2. ASSUME NEW q \in Starts(c), place[q].owner = k, c.code[q].op = op
          PROVE  q < h
      <4>1. q # h
        BY <3>2, <1>7
      <4>2. ASSUME h < q
            PROVE  FALSE
        <5>1. FunctionStart(h, c.code[h]) <= q
          BY <4>2, <1>1 DEF Solid, FunctionStart
        <5>2. h <= place[q].owner
          BY <5>1, <1>5, <1>7, <1>12 DEF Sound, Owned
        <5>. QED  BY <5>2, <3>2, <1>1, <1>5, <1>15
      <4>. QED  BY <4>1, <4>2, <1>1
    <3>3. Passed(v, place3, w.size, op)
            = {q \in Starts(c) : place[q].owner = k /\ c.code[q].op = op}
      <4>1. \A q \in Starts(v) : q < w.size
        BY <1>4 DEF Solid
      <4>2. Passed(v, place3, w.size, op)
              = {q \in Ends(c) : place[q].owner = k /\ v.code[q].op = op}
        BY <4>1, <1>2, <1>4, <1>6 DEF Passed
      <4>. QED  BY <4>2, <3>1, <1>5, <1>8 DEF Ends
    <3>4. Passed(c, place, h, op)
            = {q \in Starts(c) : place[q].owner = k /\ c.code[q].op = op}
      BY <3>2 DEF Passed
    <3>. QED  BY <3>3, <3>4
  <2>3. place[h].level = Cardinality(Passed(c, place, h, "OP_ENTER_SCOPE"))
                           - Cardinality(Passed(c, place, h, "OP_EXIT_SCOPE"))
    BY <1>5 DEF Sound, Counted
  <2>4. \A p \in Ends(c) :
          place[p].level = Cardinality(Passed(c, place, p, "OP_ENTER_SCOPE"))
                             - Cardinality(Passed(c, place, p, "OP_EXIT_SCOPE"))
    BY DEF Sound, Counted
  <2>. HIDE DEF Passed
  <2>. QED  BY <2>1, <2>2, <2>3, <2>4, <1>2, <1>4, <1>6 DEF Counted
<1>18. ASSUME NEW o \in Starts(c)
       PROVE  Flows(v, place3, o)
  <2>1. Flows(c, place, o) /\ o \in Ends(c) /\ place3[o] = place[o]
    BY <1>5, <1>6 DEF Sound
  <2>2. o + Width(c.code[o]) \in Ends(c)
    BY <1>1 DEF Solid
  <2>3. place3[o + Width(c.code[o])] = place[o + Width(c.code[o])]
    BY <2>2, <1>6
  <2>4. c.code[o].op = "OP_DEC_FUNCTION" =>
          /\ FunctionStart(o, c.code[o]) \in Starts(c)
          /\ v.code[FunctionStart(o, c.code[o])].op = "OP_ENTER_SCOPE"
    <3>1. SUFFICES ASSUME c.code[o].op = "OP_DEC_FUNCTION"
                   PROVE  /\ FunctionStart(o, c.code[o]) \in Starts(c)
                          /\ v.code[FunctionStart(o, c.code[o])].op = "OP_ENTER_SCOPE"
      OBVIOUS
    <3>2. FunctionStart(o, c.code[o]) \in Starts(c)
      BY <3>1, <2>2 DEF Headers, Ends, FunctionStart
    <3>3. c.code[FunctionStart(o, c.code[o])].op = "OP_ENTER_SCOPE"
      BY <2>1, <3>1, <3>2 DEF Flows
    <3>. QED  BY <3>2, <3>3, <1>8
  <2>5. CASE o # h
    <3>1. v.code[o] = c.code[o]
      BY <2>5, <1>8
    <3>2. c.code[o].op = "OP_DEC_FUNCTION" =>
            /\ c.code[o].n # Unpatched => /\ AfterBody(o, c.code[o]) \in Ends(v)
                                          /\ place3[AfterBody(o, c.code[o])] = place3[o]
            /\ place3[FunctionStart(o, c.code[o])] = Inside(o)
      BY <2>1, <2>3, <1>2, <1>4, <1>6 DEF Flows, FunctionStart
    <3>3. c.code[o].op \in JumpOps /\ c.code[o].n # Unpatched =>
            /\ JumpTarget(o, c.code[o]) \in Ends(v)
            /\ place3[JumpTarget(o, c.code[o])] = place3[o]
      BY <2>1, <1>2, <1>4, <1>6 DEF Flows
    <3>4. /\ FallsThrough(c.code[o]) =>
               place3[o + Width(c.code[o])] = Deeper(place3[o], ScopeEffect(c.code[o]))
          /\ c.code[o].op = "OP_EXIT_SCOPE" => place3[o].level >= 1
          /\ c.code[o].op = "OP_RETURN" => place3[o].level = 0
          /\ c.code[o].op = "OP_FUNCTION_CALL" => place3[o].owner = -1 \/ place3[o].level >= 1
      BY <2>1, <2>3 DEF Flows
    <3>. QED  BY <2>4, <3>1, <3>2, <3>3, <3>4 DEF Flows
  <2>6. CASE o = h
    <3>1. v.code[h].op = "OP_DEC_FUNCTION" /\ v.code[h].n = n /\ ~FallsThrough(v.code[h])
          /\ "OP_DEC_FUNCTION" \notin JumpOps
      BY <1>1, <1>4, <1>7, <1>8 DEF FallsThrough, JumpOps
    <3>2. AfterBody(h, v.code[h]) \in Ends(v) /\ place3[AfterBody(h, v.code[h])] = place3[h]
      BY <3>1, <1>1, <1>2, <1>3, <1>4, <1>5, <1>6 DEF AfterBody
    <3>3. FunctionStart(h, v.code[h]) = FunctionStart(h, c.code[h])
      BY <1>1, <1>8 DEF FunctionStart
    <3>4. place3[FunctionStart(h, v.code[h])] = Inside(h)
      BY <2>1, <2>3, <2>6, <3>3, <1>7 DEF Flows, FunctionStart
    <3>. QED  BY <2>4, <2>6, <3>1, <3>2, <3>3, <3>4, <1>7 DEF Flows
  <2>. QED  BY <2>5, <2>6
<1>19. Flows(v, place3, c.size)
  <2>1. v.code[c.size].op = "OP_RETURN" /\ place3[c.size].level = 0 /\ "OP_RETURN" \notin JumpOps
    BY <1>5, <1>6, <1>8 DEF Inside, JumpOps
  <2>. QED  BY <2>1 DEF Flows, FallsThrough
<1>20. place3 \in [Ends(v) -> Place]
  BY <1>2, <1>4, <1>5 DEF place3, Extend
<1>21. \A o \in Starts(v) : Flows(v, place3, o)
  BY <1>2, <1>4, <1>18, <1>19 DEF Ends
<1>22. Sound(v, place3)
  BY <1>4, <1>16, <1>17, <1>20, <1>21 DEF Sound
<1>. QED  BY <1>22 DEF v, n, place3

-----------------------------------------------------------------------------
(* A finished chunk *)

\* Where nothing waits any more, places are what Bytecode computes from the chunk.
LEMMA PlacesAreLevels ==
  ASSUME NEW c, NEW place, Sound(c, place), BlanksOf(c) = {}
  PROVE  /\ \A p \in Starts(c) : Body(c, p) = place[p].owner
         /\ \A p \in Starts(c) : Levels(c)[p] = place[p].level
<1>1. ASSUME NEW p \in Starts(c)
      PROVE  Body(c, p) = place[p].owner
  <2>. DEFINE around == {h \in Headers(c) :
                           FunctionStart(h, c.code[h]) <= p /\ p < AfterBody(h, c.code[h])}
              owner == place[p].owner
  <2>1. around = {h \in Headers(c) : Contains(c, h, p)}
    <3>1. \A h \in Headers(c) : c.code[h].n # Unpatched
      BY DEF BlanksOf, Headers
    <3>. QED  BY <3>1 DEF Contains
  <2>2. /\ owner # -1 => Contains(c, owner, p)
        /\ \A g \in Headers(c) : Contains(c, g, p) => g <= owner
    BY DEF Sound, Owned, Ends
  <2>3. owner # -1 => owner \in around
    BY <2>1, <2>2 DEF Contains
  <2>4. around \subseteq Nat /\ \A g \in around : g <= owner
    BY <2>1, <2>2 DEF Sound, Solid, Headers
  <2>5. owner \in Int
    BY PlaceTypes DEF Ends
  <2>6. Body(c, p) = IF around = {} THEN -1 ELSE CHOOSE h \in around : \A g \in around : g <= h
    BY DEF Body
  <2>. HIDE DEF around, owner
  <2>7. CASE owner = -1
    <3>1. around = {}
      BY <2>4, <2>7
    <3>. QED  BY <3>1, <2>6, <2>7 DEF owner
  <2>8. CASE owner # -1
    <3>1. owner \in around /\ around # {}
      BY <2>3, <2>8
    <3>2. \A h \in around : (\A g \in around : g <= h) <=> h = owner
      BY <3>1, <2>4
    <3>3. owner = CHOOSE h \in around : \A g \in around : g <= h
      BY <3>1, <3>2
    <3>. QED  BY <3>1, <3>3, <2>6 DEF owner
  <2>. QED  BY <2>7, <2>8
<1>2. ASSUME NEW p \in Starts(c)
      PROVE  Levels(c)[p] = place[p].level
  <2>1. \A op : {q \in Before(c, p) : c.code[q].op \in {op}} = Passed(c, place, p, op)
    BY <1>1 DEF Before, Passed
  <2>2. \A op : Count(c, p, {op}) = Cardinality(Passed(c, place, p, op))
    BY <2>1 DEF Count
  <2>3. Levels(c)[p] = Count(c, p, {"OP_ENTER_SCOPE"}) - Count(c, p, {"OP_EXIT_SCOPE"})
    BY DEF Levels
  <2>. QED  BY <2>2, <2>3 DEF Sound, Counted, Ends
<1>. QED  BY <1>1, <1>2

LEMMA FinishedIsSafe ==
  ASSUME NEW c, NEW place, Sound(c, place), BlanksOf(c) = {},
         c.size - 1 \in Starts(c), c.code[c.size - 1] = Simple("OP_RETURN"),
         \A o \in Starts(c) :
           /\ c.code[o].op \in JumpOps => JumpTarget(o, c.code[o]) # c.size
           /\ c.code[o].op = "OP_DEC_FUNCTION" => AfterBody(o, c.code[o]) # c.size
  PROVE  ScopeSafe(c) /\ \A o \in Starts(c) : StaysInBody(c, Levels(c), o)
<1>. DEFINE level == Levels(c)
<1>1. \A p \in Starts(c) : /\ Body(c, p) = place[p].owner /\ level[p] = place[p].level
                           /\ place[p].level \in Nat
  <2>1. \A p \in Starts(c) : Body(c, p) = place[p].owner /\ level[p] = place[p].level
    BY PlacesAreLevels
  <2>2. \A p \in Starts(c) : place[p].level \in Nat
    BY PlaceTypes DEF Ends
  <2>. QED  BY <2>1, <2>2
<1>2. Solid(c) /\ c.size \in Nat /\ Starts(c) \subseteq 0 .. c.size - 1
  BY DEF Sound, Solid
<1>3. c.code[c.size - 1].op = "OP_RETURN"
  BY InstructionFields
<1>4. ASSUME NEW o \in Starts(c), c.code[o].op # "OP_RETURN"
      PROVE  o + Width(c.code[o]) \in Starts(c)
  <2>1. o < c.size - 1
    BY <1>2, <1>3, <1>4
  <2>2. o + Width(c.code[o]) <= c.size - 1 /\ o + Width(c.code[o]) \in Ends(c)
    BY <2>1, <1>2 DEF Solid
  <2>. QED  BY <2>2, <1>2 DEF Ends
<1>. HIDE DEF level
<1>5. ASSUME NEW o \in Starts(c), NEW p \in Starts(c), NEW n, place[p] = Deeper(place[o], n)
      PROVE  level[p] = level[o] + n /\ Body(c, p) = Body(c, o)
  BY <1>1, <1>5 DEF Deeper
<1>6. ASSUME NEW o \in Starts(c), NEW p \in Starts(c), place[p] = place[o]
      PROVE  level[p] = level[o] + 0 /\ Body(c, p) = Body(c, o)
  BY <1>1, <1>6
<1>7. ASSUME NEW o \in Starts(c), NEW i, i = c.code[o]
      PROVE  /\ level[o] \in Nat
             /\ i.op = "OP_EXIT_SCOPE" => level[o] >= 1
             /\ i.op = "OP_RETURN" => level[o] = 0
             /\ i.op = "OP_FUNCTION_CALL" => Body(c, o) = -1 \/ level[o] >= 1
             /\ FallsThrough(i) => /\ o + Width(i) \in Starts(c)
                                   /\ level[o + Width(i)] = level[o] + ScopeEffect(i)
                                   /\ Body(c, o + Width(i)) = Body(c, o)
             /\ i.op \in JumpOps => /\ JumpTarget(o, i) \in Starts(c)
                                    /\ level[JumpTarget(o, i)] = level[o] + 0
                                    /\ Body(c, JumpTarget(o, i)) = Body(c, o)
             /\ i.op = "OP_DEC_FUNCTION" =>
                  /\ AfterBody(o, i) \in Starts(c)
                  /\ level[AfterBody(o, i)] = level[o] + 0
                  /\ Body(c, AfterBody(o, i)) = Body(c, o)
                  /\ FunctionStart(o, i) \in Starts(c)
                  /\ level[FunctionStart(o, i)] = 0
                  /\ Body(c, FunctionStart(o, i)) = o
                  /\ c.code[FunctionStart(o, i)].op = "OP_ENTER_SCOPE"
  <2>1. Flows(c, place, o)
    BY DEF Sound
  <2>2. i.op \in JumpOps \cup {"OP_DEC_FUNCTION"} => i.n # Unpatched
    BY <1>7 DEF BlanksOf
  <2>3. /\ level[o] \in Nat
        /\ i.op = "OP_EXIT_SCOPE" => level[o] >= 1
        /\ i.op = "OP_RETURN" => level[o] = 0
        /\ i.op = "OP_FUNCTION_CALL" => Body(c, o) = -1 \/ level[o] >= 1
    BY <2>1, <1>1, <1>7 DEF Flows
  <2>4. FallsThrough(i) => /\ o + Width(i) \in Starts(c)
                           /\ level[o + Width(i)] = level[o] + ScopeEffect(i)
                           /\ Body(c, o + Width(i)) = Body(c, o)
    <3>1. SUFFICES ASSUME FallsThrough(i)
                   PROVE  /\ o + Width(i) \in Starts(c)
                          /\ level[o + Width(i)] = level[o] + ScopeEffect(i)
                          /\ Body(c, o + Width(i)) = Body(c, o)
      OBVIOUS
    <3>2. o + Width(i) \in Starts(c)
      BY <3>1, <1>4, <1>7 DEF FallsThrough
    <3>3. place[o + Width(i)] = Deeper(place[o], ScopeEffect(i))
      BY <3>1, <2>1, <1>7 DEF Flows
    <3>. QED  BY <3>2, <3>3, <1>5
  <2>5. i.op \in JumpOps => /\ JumpTarget(o, i) \in Starts(c)
                            /\ level[JumpTarget(o, i)] = level[o] + 0
                            /\ Body(c, JumpTarget(o, i)) = Body(c, o)
    <3>1. SUFFICES ASSUME i.op \in JumpOps
                   PROVE  /\ JumpTarget(o, i) \in Starts(c)
                          /\ level[JumpTarget(o, i)] = level[o] + 0
                          /\ Body(c, JumpTarget(o, i)) = Body(c, o)
      OBVIOUS
    <3>2. JumpTarget(o, i) \in Ends(c) /\ JumpTarget(o, i) # c.size
      BY <3>1, <2>1, <2>2, <1>7 DEF Flows
    <3>3. JumpTarget(o, i) \in Starts(c) /\ place[JumpTarget(o, i)] = place[o]
      BY <3>1, <3>2, <2>1, <2>2, <1>7 DEF Flows, Ends
    <3>. QED  BY <3>3, <1>6
  <2>6. i.op = "OP_DEC_FUNCTION" =>
          /\ AfterBody(o, i) \in Starts(c)
          /\ level[AfterBody(o, i)] = level[o] + 0
          /\ Body(c, AfterBody(o, i)) = Body(c, o)
    <3>1. SUFFICES ASSUME i.op = "OP_DEC_FUNCTION"
                   PROVE  /\ AfterBody(o, i) \in Starts(c)
                          /\ level[AfterBody(o, i)] = level[o] + 0
                          /\ Body(c, AfterBody(o, i)) = Body(c, o)
      OBVIOUS
    <3>2. AfterBody(o, i) \in Ends(c) /\ AfterBody(o, i) # c.size
      BY <3>1, <2>1, <2>2, <1>7 DEF Flows
    <3>3. AfterBody(o, i) \in Starts(c) /\ place[AfterBody(o, i)] = place[o]
      BY <3>1, <3>2, <2>1, <2>2, <1>7 DEF Flows, Ends
    <3>. QED  BY <3>3, <1>6
  <2>7. i.op = "OP_DEC_FUNCTION" =>
          /\ FunctionStart(o, i) \in Starts(c)
          /\ level[FunctionStart(o, i)] = 0
          /\ Body(c, FunctionStart(o, i)) = o
          /\ c.code[FunctionStart(o, i)].op = "OP_ENTER_SCOPE"
    <3>1. SUFFICES ASSUME i.op = "OP_DEC_FUNCTION"
                   PROVE  /\ FunctionStart(o, i) \in Starts(c)
                          /\ level[FunctionStart(o, i)] = 0
                          /\ Body(c, FunctionStart(o, i)) = o
                          /\ c.code[FunctionStart(o, i)].op = "OP_ENTER_SCOPE"
      OBVIOUS
    <3>2. FunctionStart(o, i) \in Starts(c)
      BY <3>1, <1>4, <1>7 DEF FunctionStart
    <3>3. /\ place[FunctionStart(o, i)] = Inside(o)
          /\ c.code[FunctionStart(o, i)].op = "OP_ENTER_SCOPE"
      BY <3>1, <3>2, <2>1, <1>7 DEF Flows
    <3>. QED  BY <3>2, <3>3, <1>1 DEF Inside
  <2>. QED  BY <2>3, <2>4, <2>5, <2>6, <2>7
<1>8. ScopeSafe(c)
  BY <1>7 DEF ScopeSafe, level
<1>9. ASSUME NEW o \in Starts(c)
      PROVE  StaysInBody(c, level, o)
  BY <1>7 DEF StaysInBody
<1>. QED  BY <1>8, <1>9 DEF level

-----------------------------------------------------------------------------
(* Replacing the task at the head of the agenda *)

LEMMA AgendaIndex ==
  ASSUME NEW ag \in Seq(TaskType), ag # <<>>, NEW tasks \in Seq(TaskType),
         NEW ag2, ag2 = tasks \o Tail(ag)
  PROVE  /\ ag2 \in Seq(TaskType)
         /\ Len(tasks) \in Nat /\ Len(ag) \in Nat /\ Len(ag) >= 1
         /\ Len(ag2) = Len(tasks) + Len(ag) - 1
         /\ \A k \in 1 .. Len(tasks) : k \in 1 .. Len(ag2) /\ ag2[k] = tasks[k]
         /\ \A k \in 1 .. Len(ag2) :
              k > Len(tasks) => /\ k - Len(tasks) + 1 \in 2 .. Len(ag)
                                /\ ag2[k] = ag[k - Len(tasks) + 1]
         /\ \A k \in 2 .. Len(ag) : /\ k + Len(tasks) - 1 \in 1 .. Len(ag2)
                                    /\ k + Len(tasks) - 1 > Len(tasks)
                                    /\ ag2[k + Len(tasks) - 1] = ag[k]
<1>. DEFINE rest == Tail(ag)
<1>1. /\ rest \in Seq(TaskType) /\ Len(rest) = Len(ag) - 1 /\ Len(ag) \in Nat /\ Len(ag) >= 1
      /\ \A k \in 1 .. Len(rest) : rest[k] = ag[k + 1]
  OBVIOUS
<1>2. Len(tasks) \in Nat /\ Len(rest) \in Nat
  BY <1>1
<1>. HIDE DEF rest
<1>3. /\ ag2 = tasks \o rest /\ ag2 \in Seq(TaskType) /\ Len(ag2) = Len(tasks) + Len(rest)
      /\ \A k \in 1 .. Len(tasks) + Len(rest) :
           ag2[k] = IF k <= Len(tasks) THEN tasks[k] ELSE rest[k - Len(tasks)]
  BY <1>1 DEF rest
<1>4. \A k \in 1 .. Len(tasks) : k \in 1 .. Len(ag2) /\ ag2[k] = tasks[k]
  BY <1>2, <1>3
<1>5. ASSUME NEW k \in 1 .. Len(ag2), k > Len(tasks)
      PROVE  k - Len(tasks) + 1 \in 2 .. Len(ag) /\ ag2[k] = ag[k - Len(tasks) + 1]
  <2>. DEFINE m == Len(tasks)
              n == Len(rest)
  <2>1. k - m \in 1 .. n /\ k \in 1 .. m + n /\ ~(k <= m)
    <3>1. m \in Nat /\ n \in Nat /\ k \in 1 .. m + n /\ k > m
      BY <1>2, <1>3, <1>5
    <3>. HIDE DEF m, n
    <3>. QED  BY <3>1
  <2>2. ag2[k] = rest[k - Len(tasks)] /\ k - Len(tasks) \in 1 .. Len(rest)
    BY <2>1, <1>3
  <2>. QED  BY <2>2, <1>1, <1>2
<1>6. ASSUME NEW k \in 2 .. Len(ag)
      PROVE  /\ k + Len(tasks) - 1 \in 1 .. Len(ag2) /\ k + Len(tasks) - 1 > Len(tasks)
             /\ ag2[k + Len(tasks) - 1] = ag[k]
  <2>1. k + Len(tasks) - 1 \in 1 .. Len(ag2) /\ k + Len(tasks) - 1 > Len(tasks)
    BY <1>1, <1>2, <1>3
  <2>2. (k + Len(tasks) - 1) - Len(tasks) + 1 = k
    BY <1>1, <1>2
  <2>. QED  BY <2>1, <2>2, <1>5
<1>. QED  BY <1>1, <1>2, <1>3, <1>4, <1>5, <1>6

\* c2 has grown from c.
Grown(c, place, c2, place2) == Ends(c) \subseteq Ends(c2) /\ \A p \in Ends(c) : place2[p] = place[p]

\* What a task waits to patch is as it was.
Kept(t, c, c2) ==
  t.do \in Patchers => t.at \in Starts(c2) /\ c2.code[t.at] = c.code[t.at]

Follows(ag, c, place, c2, place2) ==
  /\ Grown(c, place, c2, place2)
  /\ \A k \in 2 .. Len(ag) : Kept(ag[k], c, c2)

\* The tasks begin at starts, and the place behind the last is the one that next says.
Leading(tasks, c, place, starts, next) ==
  /\ starts \in [1 .. Len(tasks) -> Place]
  /\ \A k \in 1 .. Len(tasks) : Fits(tasks[k], c, place, starts[k])
  /\ \A k \in 1 .. Len(tasks) : k < Len(tasks) => starts[k + 1] = After(tasks[k], place, starts[k])
  /\ \A k \in 1 .. Len(tasks) :
       \/ starts[k].owner \in {-1, next.owner}
       \/ \E j \in k .. Len(tasks) : tasks[j].do = "endFunction" /\ tasks[j].at = starts[k].owner
  /\ IF tasks = <<>> THEN next = place[c.size]
                     ELSE /\ starts[1] = place[c.size]
                          /\ next = After(tasks[Len(tasks)], place, starts[Len(tasks)])
  /\ \A k \in 1 .. Len(tasks) : tasks[k].do # "program"
  /\ \A k \in 2 .. Len(tasks) : tasks[k].do \notin Openers
  /\ (\E h \in Headers(c) : FunctionStart(h, c.code[h]) = c.size) =>
       tasks # <<>> /\ tasks[1].do = "block"

LEMMA StillFits ==
  ASSUME NEW t, NEW c, NEW place, NEW c2, NEW place2, Grown(c, place, c2, place2), Kept(t, c, c2),
         NEW pl, Fits(t, c, place, pl)
  PROVE  Fits(t, c2, place2, pl)
<1>1. ASSUME NEW ops, t.do \in Patchers, Awaits(c, t.at, ops)
      PROVE  Awaits(c2, t.at, ops) /\ place2[t.at] = place[t.at]
  BY <1>1 DEF Grown, Kept, Awaits, Ends
<1>2. t.do \in {"else", "patch", "loop", "endFunction"} => t.do \in Patchers
  BY DEF Patchers
<1>3. t.do \in {"body", "loop"} => t.n \in Ends(c2) /\ place2[t.n] = pl
  BY DEF Grown, Fits
<1>4. t.do \in {"else", "patch", "loop"} =>
        Awaits(c2, t.at, {"OP_JUMP", "OP_JUMP_IF_FALSE"}) /\ place2[t.at] = pl
  BY <1>1, <1>2 DEF Fits
<1>5. t.do = "endFunction" => Awaits(c2, t.at, {"OP_DEC_FUNCTION"}) /\ pl = Inside(t.at)
  BY <1>1, <1>2 DEF Fits
<1>. QED  BY <1>3, <1>4, <1>5 DEF Fits

LEMMA StillAfter ==
  ASSUME NEW t, NEW c, NEW place, NEW c2, NEW place2, Grown(c, place, c2, place2),
         NEW pl, Fits(t, c, place, pl)
  PROVE  After(t, place2, pl) = After(t, place, pl)
<1>1. t.do = "endFunction" => t.at \in Ends(c)
  BY DEF Fits, Awaits, Ends
<1>2. t.do = "endFunction" => place2[t.at] = place[t.at]
  BY <1>1 DEF Grown
<1>. QED  BY <1>2 DEF After

\* The tasks that replace the first one lead to the place where the second begins.
LEMMA Replace ==
  ASSUME NEW ag \in Seq(TaskType), Len(ag) >= 2,
         NEW c, NEW place, NEW plan, Planned(ag, c, place, plan),
         NEW c2, NEW place2, Sound(c2, place2), Follows(ag, c, place, c2, place2),
         NEW tasks \in Seq(TaskType), NEW starts, Leading(tasks, c2, place2, starts, plan[2])
  PROVE  Held(tasks \o Tail(ag), c2)
<1>. DEFINE ag2 == tasks \o Tail(ag)
            m == Len(tasks)
            plan2 == [k \in 1 .. Len(ag2) |-> IF k <= m THEN starts[k] ELSE plan[k - m + 1]]
<1>1. /\ m \in Nat /\ Len(ag) \in Nat /\ Len(ag) >= 2 /\ Len(ag2) = m + Len(ag) - 1
      /\ \A k \in 1 .. m : k \in 1 .. Len(ag2) /\ ag2[k] = tasks[k]
      /\ \A k \in 1 .. Len(ag2) :
           k > m => k - m + 1 \in 2 .. Len(ag) /\ ag2[k] = ag[k - m + 1]
      /\ \A k \in 2 .. Len(ag) : /\ k + m - 1 \in 1 .. Len(ag2) /\ k + m - 1 > m
                                 /\ ag2[k + m - 1] = ag[k]
  <2>1. ag # <<>> /\ ag2 = tasks \o Tail(ag)
    OBVIOUS
  <2>. HIDE DEF ag2
  <2>. QED  BY <2>1, AgendaIndex
<1>2. /\ \A k \in 1 .. m : plan2[k] = starts[k]
      /\ \A k \in 1 .. Len(ag2) : k > m => plan2[k] = plan[k - m + 1]
  <2>. HIDE DEF ag2
  <2>. QED  BY <1>1
<1>3. /\ plan \in [1 .. Len(ag) -> Place]
      /\ \A k \in 1 .. Len(ag) : Fits(ag[k], c, place, plan[k])
      /\ \A k \in 1 .. Len(ag) - 1 : plan[k + 1] = After(ag[k], place, plan[k])
      /\ \A k \in 1 .. Len(ag) :
           \/ plan[k].owner = -1
           \/ \E j \in k .. Len(ag) : ag[j].do = "endFunction" /\ ag[j].at = plan[k].owner
      /\ \A k \in 1 .. Len(ag) : ag[k].do = "program" <=> k = Len(ag)
      /\ \A k \in 2 .. Len(ag) : ag[k].do \notin Openers
  BY DEF Planned
<1>4. /\ starts \in [1 .. m -> Place]
      /\ \A k \in 1 .. m : Fits(tasks[k], c2, place2, starts[k])
      /\ \A k \in 1 .. m : k < m => starts[k + 1] = After(tasks[k], place2, starts[k])
      /\ \A k \in 1 .. m :
           \/ starts[k].owner \in {-1, plan[2].owner}
           \/ \E j \in k .. m : tasks[j].do = "endFunction" /\ tasks[j].at = starts[k].owner
      /\ m = 0 => plan[2] = place2[c2.size]
      /\ m # 0 => /\ starts[1] = place2[c2.size]
                  /\ plan[2] = After(tasks[m], place2, starts[m])
      /\ \A k \in 1 .. m : tasks[k].do # "program"
      /\ \A k \in 2 .. m : tasks[k].do \notin Openers
      /\ (\E h \in Headers(c2) : FunctionStart(h, c2.code[h]) = c2.size) =>
           m # 0 /\ tasks[1].do = "block"
  <2>1. m = 0 <=> tasks = <<>>
    OBVIOUS
  <2>. QED  BY <2>1 DEF Leading
<1>. DEFINE plan2Type == plan2 \in [1 .. Len(ag2) -> Place]
<1>5. plan2Type
  <2>1. ASSUME NEW k \in 1 .. Len(ag2)
        PROVE  plan2[k] \in Place
    <3>. HIDE DEF plan2, ag2, m
    <3>1. CASE k <= m
      BY <3>1, <1>1, <1>2, <1>4
    <3>2. CASE k > m
      <4>1. k - m + 1 \in 1 .. Len(ag) /\ plan2[k] = plan[k - m + 1]
        BY <3>2, <1>1, <1>2
      <4>. QED  BY <4>1, <1>3
    <3>. QED  BY <3>1, <3>2, <1>1
  <2>2. plan2 = [k \in 1 .. Len(ag2) |-> plan2[k]]
    OBVIOUS
  <2>. HIDE DEF plan2
  <2>. QED  BY <2>1, <2>2
<1>. HIDE DEF ag2, m, plan2
<1>6. ASSUME NEW k \in 1 .. Len(ag2)
      PROVE  Fits(ag2[k], c2, place2, plan2[k])
  <2>1. CASE k <= m
    BY <2>1, <1>1, <1>2, <1>4
  <2>2. CASE k > m
    <3>1. k - m + 1 \in 2 .. Len(ag) /\ ag2[k] = ag[k - m + 1] /\ plan2[k] = plan[k - m + 1]
      BY <2>2, <1>1, <1>2
    <3>2. Fits(ag[k - m + 1], c, place, plan[k - m + 1])
      BY <3>1, <1>1, <1>3
    <3>3. Grown(c, place, c2, place2) /\ Kept(ag[k - m + 1], c, c2)
      BY <3>1 DEF Follows
    <3>. QED  BY <3>1, <3>2, <3>3, StillFits
  <2>. QED  BY <2>1, <2>2, <1>1
<1>7. ASSUME NEW k \in 1 .. Len(ag2) - 1
      PROVE  plan2[k + 1] = After(ag2[k], place2, plan2[k])
  <2>1. CASE k < m
    <3>1. k \in 1 .. m /\ k + 1 \in 1 .. m
      BY <2>1, <1>1
    <3>. QED  BY <3>1, <2>1, <1>1, <1>2, <1>4
  <2>2. CASE k = m
    <3>1. k \in 1 .. m /\ k + 1 \in 1 .. Len(ag2) /\ k + 1 > m /\ (k + 1) - m + 1 = 2
      BY <2>2, <1>1
    <3>2. plan2[k + 1] = plan[2] /\ plan2[k] = starts[m] /\ ag2[k] = tasks[m]
      BY <3>1, <2>2, <1>1, <1>2
    <3>. QED  BY <3>1, <3>2, <2>2, <1>4
  <2>3. CASE k > m
    <3>1. /\ k \in 1 .. Len(ag2) /\ k + 1 \in 1 .. Len(ag2) /\ k + 1 > m
          /\ (k + 1) - m + 1 = (k - m + 1) + 1
      <4>1. m \in Nat /\ Len(ag2) \in Nat
        BY <1>1
      <4>. QED  BY <4>1, <2>3
    <3>2. /\ k - m + 1 \in 2 .. Len(ag) /\ k - m + 1 \in 1 .. Len(ag) - 1
          /\ ag2[k] = ag[k - m + 1] /\ plan2[k] = plan[k - m + 1]
          /\ plan2[k + 1] = plan[(k - m + 1) + 1]
      BY <3>1, <2>3, <1>1, <1>2
    <3>3. /\ plan[(k - m + 1) + 1] = After(ag[k - m + 1], place, plan[k - m + 1])
          /\ Fits(ag[k - m + 1], c, place, plan[k - m + 1])
      <4>1. \A j \in 1 .. Len(ag) - 1 : /\ plan[j + 1] = After(ag[j], place, plan[j])
                                        /\ Fits(ag[j], c, place, plan[j])
        BY <1>1, <1>3
      <4>. QED  BY <4>1, <3>2
    <3>4. After(ag[k - m + 1], place2, plan[k - m + 1]) = After(ag[k - m + 1], place, plan[k - m + 1])
      BY <3>3, StillAfter DEF Follows
    <3>. QED  BY <3>2, <3>3, <3>4
  <2>. QED  BY <2>1, <2>2, <2>3, <1>1
<1>8. ASSUME NEW k \in 2 .. Len(ag), plan[k].owner # -1
      PROVE  \E j \in k + m - 1 .. Len(ag2) : ag2[j].do = "endFunction" /\ ag2[j].at = plan[k].owner
  <2>1. PICK j \in k .. Len(ag) : ag[j].do = "endFunction" /\ ag[j].at = plan[k].owner
    BY <1>1, <1>3, <1>8
  <2>2. j \in 2 .. Len(ag) /\ j + m - 1 \in k + m - 1 .. Len(ag2) /\ ag2[j + m - 1] = ag[j]
    BY <2>1, <1>1
  <2>. QED  BY <2>1, <2>2
<1>9. ASSUME NEW k \in 1 .. Len(ag2), plan2[k].owner # -1
      PROVE  \E j \in k .. Len(ag2) : ag2[j].do = "endFunction" /\ ag2[j].at = plan2[k].owner
  <2>1. CASE k > m
    <3>1. /\ k - m + 1 \in 2 .. Len(ag) /\ plan2[k] = plan[k - m + 1]
          /\ (k - m + 1) + m - 1 = k
      BY <2>1, <1>1, <1>2
    <3>. QED  BY <3>1, <1>8, <1>9
  <2>2. CASE k <= m /\ starts[k].owner = plan[2].owner
    <3>1. k \in 1 .. m /\ plan2[k] = starts[k] /\ 2 \in 2 .. Len(ag)
      BY <2>2, <1>1, <1>2
    <3>2. PICK j \in 2 + m - 1 .. Len(ag2) :
            ag2[j].do = "endFunction" /\ ag2[j].at = plan[2].owner
      BY <3>1, <2>2, <1>8, <1>9
    <3>3. j \in k .. Len(ag2)
      BY <2>2, <3>2, <1>1
    <3>. QED  BY <3>1, <3>2, <3>3, <2>2
  <2>3. CASE k <= m /\ starts[k].owner # plan[2].owner
    <3>1. k \in 1 .. m /\ plan2[k] = starts[k]
      BY <2>3, <1>1, <1>2
    <3>2. PICK j \in k .. m : tasks[j].do = "endFunction" /\ tasks[j].at = starts[k].owner
      BY <3>1, <2>3, <1>4, <1>9
    <3>3. j \in k .. Len(ag2) /\ ag2[j] = tasks[j]
      BY <3>1, <3>2, <1>1
    <3>. QED  BY <3>1, <3>2, <3>3
  <2>. QED  BY <2>1, <2>2, <2>3, <1>1
<1>10. plan2[1] = place2[c2.size]
  <2>1. CASE m = 0
    <3>1. 1 \in 1 .. Len(ag2) /\ 1 > m /\ 1 - m + 1 = 2
      BY <2>1, <1>1
    <3>. QED  BY <3>1, <2>1, <1>2, <1>4
  <2>2. CASE m # 0
    <3>1. 1 \in 1 .. m
      BY <2>2, <1>1
    <3>. QED  BY <3>1, <2>2, <1>2, <1>4
  <2>. QED  BY <2>1, <2>2
<1>11. ASSUME NEW k \in 1 .. Len(ag2)
       PROVE  ag2[k].do = "program" <=> k = Len(ag2)
  <2>1. CASE k <= m
    <3>1. k \in 1 .. m /\ ag2[k] = tasks[k] /\ k # Len(ag2)
      BY <2>1, <1>1
    <3>. QED  BY <3>1, <1>4
  <2>2. CASE k > m
    <3>1. /\ k - m + 1 \in 1 .. Len(ag) /\ ag2[k] = ag[k - m + 1]
          /\ k - m + 1 = Len(ag) <=> k = Len(ag2)
      BY <2>2, <1>1
    <3>. QED  BY <3>1, <1>3
  <2>. QED  BY <2>1, <2>2, <1>1
<1>12. ASSUME NEW k \in 2 .. Len(ag2)
       PROVE  ag2[k].do \notin Openers
  <2>1. CASE k <= m
    <3>1. k \in 2 .. m /\ k \in 1 .. m
      BY <2>1, <1>1
    <3>. QED  BY <3>1, <1>1, <1>4
  <2>2. CASE k > m
    <3>1. k - m + 1 \in 2 .. Len(ag) /\ ag2[k] = ag[k - m + 1]
      BY <2>2, <1>1
    <3>. QED  BY <3>1, <1>3
  <2>. QED  BY <2>1, <2>2, <1>1
<1>13. (\E h \in Headers(c2) : FunctionStart(h, c2.code[h]) = c2.size) =>
         ag2 # <<>> /\ ag2[1].do = "block"
  <2>1. m # 0 => 1 \in 1 .. m /\ ag2[1] = tasks[1]
    BY <1>1
  <2>2. ag2 # <<>>
    BY <1>1
  <2>. QED  BY <2>1, <2>2, <1>4
<1>14. Planned(ag2, c2, place2, plan2)
  <2>. HIDE DEF Fits, After, Headers, FunctionStart
  <2>1. \A k \in 1 .. Len(ag2) :
          \/ plan2[k].owner = -1
          \/ \E j \in k .. Len(ag2) : ag2[j].do = "endFunction" /\ ag2[j].at = plan2[k].owner
    BY <1>9
  <2>. QED  BY <2>1, <1>5, <1>6, <1>7, <1>10, <1>11, <1>12, <1>13 DEF Planned
<1>. QED  BY <1>14 DEF Held, ag2

\* What the first task was to patch, and what the new tasks are to patch.
Gone(ag, c) == {o \in BlanksOf(c) : ag[1].do \in Patchers /\ o = ag[1].at}
Come(tasks) == {tasks[k].at : k \in WaitingIn(tasks)}

\* When the first task has patched what it had to, and the new ones have come.
LEMMA PairedAgain ==
  ASSUME NEW ag \in Seq(TaskType), ag # <<>>, NEW c, Paired(ag, c), NEW c2,
         NEW tasks \in Seq(TaskType),
         BlanksOf(c2) = (BlanksOf(c) \ Gone(ag, c)) \cup Come(tasks),
         Come(tasks) \cap (BlanksOf(c) \ Gone(ag, c)) = {},
         \A j, k \in WaitingIn(tasks) : tasks[j].at = tasks[k].at => j = k
  PROVE  Paired(tasks \o Tail(ag), c2)
<1>. DEFINE ag2 == tasks \o Tail(ag)
            m == Len(tasks)
            to(k) == k - m + 1
            gone == Gone(ag, c)
            come == Come(tasks)
<1>1. /\ m \in Nat /\ Len(ag) \in Nat /\ Len(ag) >= 1 /\ Len(ag2) \in Nat
      /\ \A k \in 1 .. m : k \in 1 .. Len(ag2) /\ ag2[k] = tasks[k]
      /\ \A k \in 1 .. Len(ag2) :
           k > m => k - m + 1 \in 2 .. Len(ag) /\ ag2[k] = ag[k - m + 1]
      /\ \A k \in 2 .. Len(ag) : /\ k + m - 1 \in 1 .. Len(ag2) /\ k + m - 1 > m
                                 /\ ag2[k + m - 1] = ag[k]
  <2>1. ag2 = tasks \o Tail(ag)
    OBVIOUS
  <2>. HIDE DEF ag2
  <2>2. /\ ag2 \in Seq(TaskType) /\ Len(tasks) \in Nat /\ Len(ag) \in Nat /\ Len(ag) >= 1
        /\ \A k \in 1 .. Len(tasks) : k \in 1 .. Len(ag2) /\ ag2[k] = tasks[k]
        /\ \A k \in 1 .. Len(ag2) :
             k > Len(tasks) => /\ k - Len(tasks) + 1 \in 2 .. Len(ag)
                               /\ ag2[k] = ag[k - Len(tasks) + 1]
        /\ \A k \in 2 .. Len(ag) : /\ k + Len(tasks) - 1 \in 1 .. Len(ag2)
                                   /\ k + Len(tasks) - 1 > Len(tasks)
                                   /\ ag2[k + Len(tasks) - 1] = ag[k]
    BY <2>1, AgendaIndex, SMTT(30)
  <2>3. Len(ag2) \in Nat
    BY <2>2
  <2>. QED  BY <2>2, <2>3, Zenon
<1>2. /\ \A k \in WaitingIn(ag) : ag[k].at \in BlanksOf(c)
      /\ \A o \in BlanksOf(c) : \E k \in WaitingIn(ag) : ag[k].at = o
      /\ \A j, k \in WaitingIn(ag) : ag[j].at = ag[k].at => j = k
  BY DEF Paired
<1>. HIDE DEF ag2, m
<1>3. ASSUME NEW k \in WaitingIn(ag2), k <= m
      PROVE  k \in WaitingIn(tasks) /\ ag2[k].at = tasks[k].at /\ ag2[k].at \in come
  <2>1. k \in 1 .. m
    BY <1>1, <1>3 DEF WaitingIn
  <2>2. k \in WaitingIn(tasks) /\ ag2[k].at = tasks[k].at
    BY <2>1, <1>1, <1>3 DEF WaitingIn, m
  <2>. QED  BY <2>2 DEF Come
<1>4. ASSUME NEW k \in WaitingIn(ag2), k > m
      PROVE  /\ to(k) \in WaitingIn(ag) /\ ag2[k].at = ag[to(k)].at
             /\ ag2[k].at \in BlanksOf(c) \ gone
  <2>1. to(k) \in 2 .. Len(ag) /\ ag2[k] = ag[to(k)]
    BY <1>1, <1>4 DEF WaitingIn
  <2>2. to(k) \in WaitingIn(ag) /\ ag2[k].at = ag[to(k)].at
    BY <2>1, <1>4 DEF WaitingIn
  <2>3. ag2[k].at \notin gone
    <3>1. SUFFICES ASSUME ag[1].do \in Patchers, ag[to(k)].at = ag[1].at PROVE FALSE
      BY <2>2 DEF Gone
    <3>2. 1 \in WaitingIn(ag)
      BY <3>1, <1>1 DEF WaitingIn
    <3>3. to(k) = 1
      BY <3>1, <3>2, <2>2, <1>2
    <3>. QED  BY <3>3, <2>1
  <2>. QED  BY <2>2, <2>3, <1>2
<1>5. \A k \in WaitingIn(ag2) : k \in 1 .. Len(ag2)
  BY DEF WaitingIn
<1>6. ASSUME NEW k \in WaitingIn(ag2)
      PROVE  ag2[k].at \in BlanksOf(c2)
  BY <1>1, <1>3, <1>4, <1>5
<1>7. ASSUME NEW o \in BlanksOf(c2)
      PROVE  \E k \in WaitingIn(ag2) : ag2[k].at = o
  <2>1. CASE o \in come
    <3>1. PICK k \in WaitingIn(tasks) : tasks[k].at = o
      BY <2>1 DEF Come
    <3>2. k \in 1 .. m /\ tasks[k].do \in Patchers
      BY <3>1 DEF WaitingIn, m
    <3>3. k \in WaitingIn(ag2) /\ ag2[k].at = o
      BY <3>1, <3>2, <1>1 DEF WaitingIn
    <3>. QED  BY <3>3
  <2>2. CASE o \in BlanksOf(c) \ gone
    <3>1. PICK k \in WaitingIn(ag) : ag[k].at = o
      BY <2>2, <1>2
    <3>2. k # 1 /\ k \in 1 .. Len(ag) /\ ag[k].do \in Patchers
      BY <3>1, <2>2 DEF WaitingIn, Gone
    <3>3. k \in 2 .. Len(ag)
      BY <3>2, <1>1
    <3>4. k + m - 1 \in WaitingIn(ag2) /\ ag2[k + m - 1].at = o
      BY <3>1, <3>2, <3>3, <1>1 DEF WaitingIn
    <3>. QED  BY <3>4
  <2>. QED  BY <2>1, <2>2
<1>8. ASSUME NEW j \in WaitingIn(ag2), NEW k \in WaitingIn(ag2), ag2[j].at = ag2[k].at
      PROVE  j = k
  <2>1. j \in 1 .. Len(ag2) /\ k \in 1 .. Len(ag2)
    BY <1>5
  <2>2. CASE j <= m /\ k <= m
    BY <2>2, <1>3, <1>8
  <2>3. CASE j > m /\ k > m
    <3>1. to(j) = to(k)
      BY <2>3, <1>2, <1>4, <1>8
    <3>. QED  BY <3>1, <2>1, <1>1
  <2>4. CASE j <= m /\ k > m
    BY <2>4, <1>3, <1>4, <1>8
  <2>5. CASE j > m /\ k <= m
    BY <2>5, <1>3, <1>4, <1>8
  <2>. QED  BY <2>1, <2>2, <2>3, <2>4, <2>5, <1>1
<1>9. Paired(ag2, c2)
  BY <1>6, <1>7, <1>8 DEF Paired
<1>. QED  BY <1>9 DEF ag2

LEMMA OpenOwners ==
  ASSUME NEW ag, NEW c, NEW place, NEW plan, Planned(ag, c, place, plan),
         NEW k \in 1 .. Len(ag), plan[k].owner # -1, Len(ag) \in Nat
  PROVE  c.code[plan[k].owner].n = Unpatched
<1>1. PICK j \in k .. Len(ag) : ag[j].do = "endFunction" /\ ag[j].at = plan[k].owner
  BY DEF Planned
<1>2. j \in 1 .. Len(ag)
  BY <1>1
<1>. QED  BY <1>1, <1>2 DEF Planned, Fits, Awaits

LEMMA NothingPending ==
  ASSUME NEW c, Solid(c), NEW i \in Instruction(Names), i.op # "OP_DEC_FUNCTION",
         NEW w, w = Write(c, i)
  PROVE  ~ \E h \in Headers(w) : FunctionStart(h, w.code[h]) = w.size
<1>1. /\ c.size < w.size /\ w.size \in Nat /\ Starts(w) = Ends(c) /\ w.code[c.size] = i
      /\ \A o \in Starts(c) : w.code[o] = c.code[o]
  BY WriteFacts
<1>2. \A p \in Ends(c) : p <= c.size /\ p \in Nat
  BY DEF Solid, Ends
<1>3. ASSUME NEW h \in Headers(w)
      PROVE  FunctionStart(h, w.code[h]) # w.size
  <2>1. h \in Starts(c)
    BY <1>1 DEF Headers, Ends
  <2>2. h + Width(c.code[h]) \in Ends(c)
    BY <2>1 DEF Solid
  <2>. QED  BY <2>1, <2>2, <1>1, <1>2, WriteFacts DEF FunctionStart, Solid
<1>. QED  BY <1>3

\* A task that takes nothing for granted but the place where it begins.
Free(t, c) ==
  /\ t.do \notin {"program", "declaration", "blockLoop"} \cup Patchers
  /\ t.do = "body" => t.n = c.size
  /\ t.do \in {"prefix", "infix"} => t.n >= 1
  /\ t.do = "binary" => t.type \in OperatorTypes

LEMMA FreeFits ==
  ASSUME NEW t, NEW c, NEW place, Free(t, c)
  PROVE  Fits(t, c, place, place[c.size])
<1>1. t.do \notin {"program", "declaration", "blockLoop", "else", "patch", "loop", "endFunction"}
  BY DEF Free, Patchers
<1>. QED  BY <1>1 DEF Fits, Free, Ends

LEMMA FreeAfter ==
  ASSUME NEW t, NEW c, NEW place, NEW pl, Free(t, c)
  PROVE  After(t, place, pl) = pl
BY DEF Free, Patchers, After

\* All the tasks begin at the same place.
LEMMA EvenLeading ==
  ASSUME NEW c, NEW place, Sound(c, place), NEW tasks \in Seq(TaskType), NEW next,
         \A k \in 1 .. Len(tasks) : /\ Fits(tasks[k], c, place, next) /\ tasks[k].do # "program"
                                   /\ After(tasks[k], place, next) = next,
         \A k \in 2 .. Len(tasks) : tasks[k].do \notin Openers,
         next = place[c.size],
         ~ \E h \in Headers(c) : FunctionStart(h, c.code[h]) = c.size
  PROVE  Leading(tasks, c, place, [k \in 1 .. Len(tasks) |-> next], next)
<1>1. next \in Place
  BY PlaceTypes DEF Ends
<1>2. tasks # <<>> => 1 \in 1 .. Len(tasks) /\ Len(tasks) \in 1 .. Len(tasks)
  OBVIOUS
<1>3. Len(tasks) \in Nat
  OBVIOUS
<1>. HIDE DEF Fits, After, Headers, FunctionStart
<1>. QED  BY <1>1, <1>2, <1>3 DEF Leading

LEMMA FreeLeading ==
  ASSUME NEW c, NEW place, Sound(c, place), NEW tasks \in Seq(TaskType), NEW next,
         \A k \in 1 .. Len(tasks) : Free(tasks[k], c),
         \A k \in 2 .. Len(tasks) : tasks[k].do \notin Openers,
         next = place[c.size],
         ~ \E h \in Headers(c) : FunctionStart(h, c.code[h]) = c.size
  PROVE  Leading(tasks, c, place, [k \in 1 .. Len(tasks) |-> next], next)
<1>1. \A k \in 1 .. Len(tasks) : tasks[k].do # "program"
  BY DEF Free
<1>2. \A k \in 1 .. Len(tasks) : Fits(tasks[k], c, place, next)
  BY FreeFits
<1>3. \A k \in 1 .. Len(tasks) : After(tasks[k], place, next) = next
  BY FreeAfter
<1>. QED  BY <1>1, <1>2, <1>3, EvenLeading

LEMMA FreePaired ==
  ASSUME NEW ag \in Seq(TaskType), ag # <<>>, NEW c, Paired(ag, c), NEW c2,
         NEW tasks \in Seq(TaskType), ag[1].do \notin Patchers, BlanksOf(c2) = BlanksOf(c),
         \A k \in 1 .. Len(tasks) : Free(tasks[k], c2)
  PROVE  Paired(tasks \o Tail(ag), c2)
<1>1. WaitingIn(tasks) = {}
  BY DEF WaitingIn, Free
<1>2. Gone(ag, c) = {} /\ Come(tasks) = {}
  BY <1>1 DEF Gone, Come
<1>3. /\ BlanksOf(c2) = (BlanksOf(c) \ Gone(ag, c)) \cup Come(tasks)
      /\ Come(tasks) \cap (BlanksOf(c) \ Gone(ag, c)) = {}
      /\ \A j, k \in WaitingIn(tasks) : tasks[j].at = tasks[k].at => j = k
  BY <1>1, <1>2
<1>. QED  BY <1>3, PairedAgain

-----------------------------------------------------------------------------
(* What every step does to the agenda and to the chunk *)

LEMMA NotLast ==
  ASSUME NEW ag \in Seq(TaskType), ag # <<>>, ag[1].do # "program", NEW c, Held(ag, c)
  PROVE  Len(ag) \in Nat /\ Len(ag) >= 2
<1>1. Len(ag) \in Nat /\ Len(ag) >= 1 /\ 1 \in 1 .. Len(ag)
  OBVIOUS
<1>. DEFINE n == Len(ag)
<1>2. n # 1
  BY <1>1 DEF Held, Planned
<1>3. n \in Nat /\ n >= 1
  BY <1>1
<1>. HIDE DEF n
<1>4. n \in Nat /\ n >= 2
  BY <1>2, <1>3
<1>. QED  BY <1>4 DEF n

LEMMA Here ==
  ASSUME NEW ag, Len(ag) \in Nat, Len(ag) >= 2, NEW c, NEW place, Sound(c, place),
         NEW plan, Planned(ag, c, place, plan)
  PROVE  /\ plan[1] = place[c.size] /\ plan[1] \in Place /\ plan[2] \in Place
         /\ plan[2] = After(ag[1], place, plan[1])
         /\ Fits(ag[1], c, place, plan[1])
         /\ plan[1].owner # -1 => c.code[plan[1].owner].n = Unpatched
         /\ plan[2].owner # -1 => c.code[plan[2].owner].n = Unpatched
         /\ ag[1].do # "block" => ~ \E h \in Headers(c) : FunctionStart(h, c.code[h]) = c.size
<1>1. 1 \in 1 .. Len(ag) /\ 2 \in 1 .. Len(ag) /\ 1 \in 1 .. Len(ag) - 1 /\ ag # <<>> /\ 1 + 1 = 2
  OBVIOUS
<1>2. /\ plan[1].owner # -1 => c.code[plan[1].owner].n = Unpatched
      /\ plan[2].owner # -1 => c.code[plan[2].owner].n = Unpatched
  BY <1>1, OpenOwners
<1>3. plan[2] = After(ag[1], place, plan[1])
  BY <1>1 DEF Planned
<1>4. /\ plan[1] = place[c.size] /\ plan[1] \in Place /\ plan[2] \in Place
      /\ Fits(ag[1], c, place, plan[1])
      /\ ag[1].do # "block" => ~ \E h \in Headers(c) : FunctionStart(h, c.code[h]) = c.size
  <2>. HIDE DEF Fits, After, Headers, FunctionStart, Place
  <2>. QED  BY <1>1 DEF Planned
<1>. QED  BY <1>2, <1>3, <1>4

LEMMA FollowsWrite ==
  ASSUME NEW ag, NEW c, NEW place, NEW plan, Solid(c), Planned(ag, c, place, plan),
         Len(ag) \in Nat,
         NEW i \in Instruction(Names), NEW pl, NEW w, w = Write(c, i)
  PROVE  Follows(ag, c, place, w, Extend(place, w, pl))
<1>1. /\ w.size \notin Ends(c) /\ Starts(w) = Ends(c) /\ Ends(w) = Ends(c) \cup {w.size}
      /\ \A o \in Starts(c) : w.code[o] = c.code[o]
  BY WriteFacts
<1>2. \A p \in Ends(c) : Extend(place, w, pl)[p] = place[p]
  BY <1>1 DEF Extend
<1>3. ASSUME NEW k \in 2 .. Len(ag), ag[k].do \in Patchers
      PROVE  ag[k].at \in Starts(c)
  <2>1. k \in 1 .. Len(ag)
    OBVIOUS
  <2>. QED  BY <2>1, <1>3 DEF Planned, Fits, Awaits, Patchers
<1>. QED  BY <1>1, <1>2, <1>3 DEF Follows, Grown, Kept, Ends

\* The step leaves the chunk alone.
LEMMA Stay ==
  ASSUME NEW ag \in Seq(TaskType), ag # <<>>, NEW c, Held(ag, c), Paired(ag, c),
         NEW tasks \in Seq(TaskType),
         ag[1].do \notin {"program", "blockLoop", "block"} \cup Patchers,
         \A k \in 1 .. Len(tasks) : Free(tasks[k], c),
         \A k \in 2 .. Len(tasks) : tasks[k].do \notin Openers
  PROVE  Held(tasks \o Tail(ag), c) /\ Paired(tasks \o Tail(ag), c)
<1>1. Len(ag) \in Nat /\ Len(ag) >= 2
  BY NotLast
<1>2. PICK place, plan : Sound(c, place) /\ Planned(ag, c, place, plan)
  BY DEF Held
<1>3. /\ plan[2] = place[c.size]
      /\ ~ \E h \in Headers(c) : FunctionStart(h, c.code[h]) = c.size
  <2>1. After(ag[1], place, plan[1]) = plan[1]
    BY DEF After, Patchers
  <2>. QED  BY <2>1, <1>1, <1>2, Here
<1>4. Leading(tasks, c, place, [k \in 1 .. Len(tasks) |-> plan[2]], plan[2])
  BY <1>2, <1>3, FreeLeading
<1>5. Follows(ag, c, place, c, place)
  <2>1. \A k \in 2 .. Len(ag) : k \in 1 .. Len(ag)
    BY <1>1
  <2>. QED  BY <2>1, <1>2 DEF Follows, Grown, Kept, Planned, Fits, Awaits, Patchers
<1>6. Held(tasks \o Tail(ag), c)
  BY <1>1, <1>2, <1>4, <1>5, Replace
<1>. QED  BY <1>6, FreePaired

BlanksWhenWritten(c, i) ==
  BlanksOf(c) \cup (IF i.op \in JumpOps \cup {"OP_DEC_FUNCTION"} /\ i.n = Unpatched
                      THEN {c.size} ELSE {})

LEMMA WriteBlanks ==
  ASSUME NEW c, Solid(c), NEW i \in Instruction(Names)
  PROVE  BlanksOf(Write(c, i)) = BlanksWhenWritten(c, i) /\ c.size \notin BlanksOf(c)
<1>. DEFINE w == Write(c, i)
<1>1. /\ c.size \notin Starts(c) /\ Starts(w) = Ends(c) /\ w.code[c.size] = i
      /\ \A o \in Starts(c) : w.code[o] = c.code[o]
  BY WriteFacts
<1>. HIDE DEF w
<1>2. BlanksOf(w) = BlanksWhenWritten(c, i) /\ c.size \notin BlanksOf(c)
  BY <1>1 DEF BlanksOf, BlanksWhenWritten, Ends
<1>. QED  BY <1>2 DEF w

\* The step writes an instruction that neither jumps nor moves between scopes or bodies.
LEMMA Emit ==
  ASSUME NEW ag \in Seq(TaskType), ag # <<>>, NEW c, Held(ag, c), Paired(ag, c),
         NEW tasks \in Seq(TaskType),
         ag[1].do \notin {"program", "blockLoop", "block"} \cup Patchers,
         NEW i \in Instruction(Names), NEW w, w = Write(c, i),
         i.op \notin JumpOps \cup ScopeOps \cup {"OP_DEC_FUNCTION", "OP_RETURN"},
         i.op = "OP_FUNCTION_CALL" => ag[1].do = "declaration",
         \A k \in 1 .. Len(tasks) : Free(tasks[k], w),
         \A k \in 2 .. Len(tasks) : tasks[k].do \notin Openers
  PROVE  Held(tasks \o Tail(ag), w) /\ Paired(tasks \o Tail(ag), w)
<1>1. Len(ag) \in Nat /\ Len(ag) >= 2
  BY NotLast
<1>2. PICK place, plan : Sound(c, place) /\ Planned(ag, c, place, plan)
  BY DEF Held
<1>3. /\ plan[2] = place[c.size] /\ plan[2] \in Place
      /\ Fits(ag[1], c, place, plan[2])
      /\ plan[2].owner # -1 => c.code[plan[2].owner].n = Unpatched
      /\ ~ \E h \in Headers(c) : FunctionStart(h, c.code[h]) = c.size
  <2>1. After(ag[1], place, plan[1]) = plan[1]
    BY DEF After, Patchers
  <2>. QED  BY <2>1, <1>1, <1>2, Here
<1>4. LeadsTo(c, place, i, plan[2])
  <2>1. plan[2] = Deeper(place[c.size], ScopeEffect(i))
    <3>1. ScopeEffect(i) = 0
      BY DEF ScopeEffect, ScopeOps
    <3>. QED  BY <3>1, <1>3 DEF Deeper, Place
  <2>2. i.op = "OP_FUNCTION_CALL" => plan[2].owner = -1 \/ plan[2].level >= 1
    BY <1>3 DEF Fits
  <2>. QED  BY <2>1, <2>2, <1>3 DEF LeadsTo, ScopeOps
<1>. DEFINE place2 == Extend(place, w, plan[2])
<1>5. Sound(w, place2)
  BY <1>2, <1>4, WriteSound
<1>6. Solid(c) /\ place2[w.size] = plan[2]
  BY <1>2, <1>5 DEF Sound, Extend, Ends
<1>7. Follows(ag, c, place, w, place2)
  BY <1>1, <1>2, <1>6, FollowsWrite
<1>8. ~ \E h \in Headers(w) : FunctionStart(h, w.code[h]) = w.size
  BY <1>6, NothingPending
<1>. HIDE DEF place2
<1>9. Leading(tasks, w, place2, [k \in 1 .. Len(tasks) |-> plan[2]], plan[2])
  BY <1>5, <1>6, <1>8, FreeLeading
<1>10. Held(tasks \o Tail(ag), w)
  BY <1>1, <1>2, <1>5, <1>7, <1>9, Replace
<1>11. BlanksOf(w) = BlanksOf(c)
  BY <1>6, WriteBlanks, ZenonT(60) DEF BlanksWhenWritten
<1>. QED  BY <1>10, <1>11, FreePaired

\* The step writes a jump, and one of the tasks it leaves will patch it; what the step
\* had to patch itself, it still has to.
LEMMA OpenJump ==
  ASSUME NEW ag \in Seq(TaskType), ag # <<>>, NEW c, Held(ag, c), Paired(ag, c),
         ag[1].do \notin {"program", "blockLoop", "block", "endFunction"},
         NEW op \in {"OP_JUMP", "OP_JUMP_IF_FALSE"}, NEW w, w = Write(c, Literal(op, Unpatched)),
         NEW tasks \in Seq(TaskType), NEW last, last = Len(tasks), last >= 2,
         \A k \in 1 .. last - 1 : Free(tasks[k], w) \/ (k = 1 /\ tasks[k] = ag[1]),
         ag[1].do \in Patchers => tasks[1] = ag[1],
         \A k \in 2 .. last : tasks[k].do \notin Openers,
         tasks[last].at = c.size,
         \/ tasks[last].do \in {"else", "patch"}
         \/ tasks[last].do = "loop" /\ ag[1].do = "body" /\ tasks[last].n = ag[1].n
  PROVE  Held(tasks \o Tail(ag), w) /\ Paired(tasks \o Tail(ag), w)
<1>. DEFINE i == Literal(op, Unpatched)
<1>0. /\ i \in Instruction(Names) /\ i.op = op /\ i.n = Unpatched /\ op \in JumpOps
      /\ op \notin ScopeOps \cup {"OP_DEC_FUNCTION", "OP_RETURN", "OP_FUNCTION_CALL"}
  <2>1. /\ op \in OpCode /\ op \in JumpOps /\ Unpatched \in Nat
        /\ op \notin ScopeOps \cup {"OP_DEC_FUNCTION", "OP_RETURN", "OP_FUNCTION_CALL"}
    BY DEF OpCode, JumpOps, ScopeOps, Unpatched
  <2>2. i \in Instruction(Names)
    BY <2>1, InstructionTypes
  <2>3. i.op = op /\ i.n = Unpatched
    BY InstructionFields
  <2>. QED  BY <2>1, <2>2, <2>3
<1>. HIDE DEF i
<1>1. Len(ag) \in Nat /\ Len(ag) >= 2 /\ last \in Nat /\ w = Write(c, i)
  BY NotLast DEF i
<1>2. PICK place, plan : Sound(c, place) /\ Planned(ag, c, place, plan)
  BY DEF Held
<1>3. /\ plan[2] = place[c.size] /\ plan[1] = plan[2] /\ plan[2] \in Place
      /\ Fits(ag[1], c, place, plan[2])
      /\ plan[2].owner # -1 => c.code[plan[2].owner].n = Unpatched
      /\ ~ \E h \in Headers(c) : FunctionStart(h, c.code[h]) = c.size
      /\ \A place3 : After(ag[1], place3, plan[2]) = plan[2]
  <2>1. \A place3, pl : After(ag[1], place3, pl) = pl
    BY DEF After
  <2>. QED  BY <2>1, <1>1, <1>2, Here
<1>4. LeadsTo(c, place, i, plan[2])
  <2>1. plan[2] = Deeper(place[c.size], ScopeEffect(i))
    <3>1. ScopeEffect(i) = 0
      BY <1>0 DEF ScopeEffect, ScopeOps
    <3>. QED  BY <3>1, <1>3 DEF Deeper, Place
  <2>. QED  BY <2>1, <1>0, <1>3 DEF LeadsTo, ScopeOps
<1>. DEFINE place2 == Extend(place, w, plan[2])
<1>5. Sound(w, place2)
  BY <1>1, <1>2, <1>4, WriteSound
<1>6. /\ Solid(c) /\ place2[w.size] = plan[2] /\ c.size \in Ends(c)
      /\ Starts(w) = Ends(c) /\ w.code[c.size] = i
      /\ \A o \in Starts(c) : w.code[o] = c.code[o]
  <2>1. Solid(c) /\ place2[w.size] = plan[2]
    BY <1>2, <1>5 DEF Sound, Extend, Ends
  <2>. QED  BY <2>1, <1>0, <1>1, WriteFacts DEF Ends
<1>7. Follows(ag, c, place, w, place2)
  BY <1>0, <1>1, <1>2, <1>6, FollowsWrite
<1>8. ~ \E h \in Headers(w) : FunctionStart(h, w.code[h]) = w.size
  BY <1>0, <1>1, <1>6, NothingPending
<1>. HIDE DEF place2
<1>9. Fits(ag[1], w, place2, plan[2])
  <2>1. Grown(c, place, w, place2)
    BY <1>7 DEF Follows
  <2>2. Kept(ag[1], c, w)
    BY <1>3, <1>6 DEF Kept, Fits, Awaits, Patchers, Ends
  <2>. QED  BY <2>1, <2>2, <1>3, StillFits
<1>10. \A k \in 1 .. last - 1 : /\ Fits(tasks[k], w, place2, plan[2]) /\ tasks[k].do # "program"
                                /\ After(tasks[k], place2, plan[2]) = plan[2]
  <2>1. ASSUME NEW k \in 1 .. last - 1, Free(tasks[k], w)
        PROVE  /\ Fits(tasks[k], w, place2, plan[2]) /\ tasks[k].do # "program"
               /\ After(tasks[k], place2, plan[2]) = plan[2]
    <3>1. tasks[k].do # "program"
      BY <2>1 DEF Free
    <3>2. Fits(tasks[k], w, place2, place2[w.size])
      BY <2>1, FreeFits
    <3>3. After(tasks[k], place2, plan[2]) = plan[2]
      BY <2>1, FreeAfter
    <3>. QED  BY <3>1, <3>2, <3>3, <1>6
  <2>. QED  BY <2>1, <1>3, <1>9
<1>11. /\ Fits(tasks[last], w, place2, plan[2])
       /\ After(tasks[last], place2, plan[2]) = plan[2]
       /\ tasks[last].do \in {"else", "patch", "loop"}
  <2>1. Awaits(w, c.size, {"OP_JUMP", "OP_JUMP_IF_FALSE"}) /\ place2[c.size] = plan[2]
    BY <1>0, <1>3, <1>6, <1>7 DEF Awaits, Follows, Grown
  <2>2. tasks[last].do = "loop" => tasks[last].n \in Ends(w) /\ place2[tasks[last].n] = plan[2]
    BY <1>9 DEF Fits
  <2>. QED  BY <2>1, <2>2 DEF Fits, After
<1>12. Leading(tasks, w, place2, [k \in 1 .. Len(tasks) |-> plan[2]], plan[2])
  <2>1. \A k \in 1 .. Len(tasks) : k \in 1 .. last - 1 \/ k = last
    BY <1>1
  <2>2. \A k \in 1 .. Len(tasks) : /\ Fits(tasks[k], w, place2, plan[2]) /\ tasks[k].do # "program"
                                   /\ After(tasks[k], place2, plan[2]) = plan[2]
    BY <2>1, <1>10, <1>11
  <2>. QED  BY <2>2, <1>5, <1>6, <1>8, EvenLeading
<1>13. Held(tasks \o Tail(ag), w)
  BY <1>1, <1>2, <1>5, <1>7, <1>12, Replace
<1>14. Paired(tasks \o Tail(ag), w)
  <2>1. BlanksOf(w) = BlanksOf(c) \cup {c.size} /\ c.size \notin BlanksOf(c)
    BY <1>0, <1>1, <1>6, WriteBlanks DEF BlanksWhenWritten
  <2>2. last \in WaitingIn(tasks) /\ tasks[last].at = c.size
    BY <1>1, <1>11 DEF WaitingIn, Patchers
  <2>3. CASE ag[1].do \notin Patchers
    <3>1. \A k \in 1 .. last - 1 : tasks[k].do \notin Patchers
      BY <2>3 DEF Free
    <3>2. WaitingIn(tasks) = {last}
      BY <3>1, <2>2, <1>1 DEF WaitingIn
    <3>3. Gone(ag, c) = {} /\ Come(tasks) = {c.size}
      BY <3>2, <2>2, <2>3 DEF Gone, Come
    <3>4. /\ BlanksOf(w) = (BlanksOf(c) \ Gone(ag, c)) \cup Come(tasks)
          /\ Come(tasks) \cap (BlanksOf(c) \ Gone(ag, c)) = {}
          /\ \A j, k \in WaitingIn(tasks) : tasks[j].at = tasks[k].at => j = k
      BY <3>2, <3>3, <2>1
    <3>. QED  BY <3>4, PairedAgain
  <2>4. CASE ag[1].do \in Patchers
    <3>1. tasks[1] = ag[1] /\ 1 \in WaitingIn(tasks) /\ 1 \in WaitingIn(ag)
      BY <2>4, <1>1 DEF WaitingIn
    <3>2. \A k \in 2 .. last - 1 : tasks[k].do \notin Patchers
      <4>1. \A k \in 2 .. last - 1 : k \in 1 .. last - 1 /\ k # 1
        BY <1>1
      <4>. QED  BY <4>1 DEF Free
    <3>3. WaitingIn(tasks) = {1, last}
      <4>1. \A k \in WaitingIn(tasks) : k \in 1 .. last /\ tasks[k].do \in Patchers
        BY DEF WaitingIn
      <4>2. \A k \in 1 .. last : k = 1 \/ k \in 2 .. last - 1 \/ k = last
        BY <1>1
      <4>. QED  BY <4>1, <4>2, <3>1, <3>2, <2>2
    <3>4. ag[1].at \in BlanksOf(c)
      BY <3>1 DEF Paired
    <3>5. Gone(ag, c) = {ag[1].at} /\ Come(tasks) = {ag[1].at, c.size}
      BY <3>1, <3>3, <3>4, <2>2, <2>4 DEF Gone, Come
    <3>6. /\ BlanksOf(w) = (BlanksOf(c) \ Gone(ag, c)) \cup Come(tasks)
          /\ Come(tasks) \cap (BlanksOf(c) \ Gone(ag, c)) = {}
          /\ \A j, k \in WaitingIn(tasks) : tasks[j].at = tasks[k].at => j = k
      BY <3>1, <3>3, <3>4, <3>5, <2>1, <2>2
    <3>. QED  BY <3>6, PairedAgain
  <2>. QED  BY <2>3, <2>4
<1>. QED  BY <1>13, <1>14

\* The first task patches its jump.
LEMMA PatchStep ==
  ASSUME NEW ag \in Seq(TaskType), ag # <<>>, NEW c, Held(ag, c), Paired(ag, c),
         ag[1].do \in {"else", "patch", "loop"}, Distance(c, ag[1].at) <= JumpMax
  PROVE  LET w == patchJump(c, ag[1].at)
         IN  Held(<<>> \o Tail(ag), w) /\ Paired(<<>> \o Tail(ag), w)
<1>. DEFINE at == ag[1].at
            n == Distance(c, at)
            w == patchJump(c, at)
            tasks == <<>>
<1>1. Len(ag) \in Nat /\ Len(ag) >= 2 /\ 1 \in WaitingIn(ag)
  <2>1. Len(ag) \in Nat /\ Len(ag) >= 2
    BY NotLast
  <2>. QED  BY <2>1 DEF WaitingIn, Patchers
<1>2. PICK place, plan : Sound(c, place) /\ Planned(ag, c, place, plan)
  BY DEF Held
<1>3. /\ plan[2] = place[c.size] /\ Fits(ag[1], c, place, plan[2])
      /\ ~ \E h \in Headers(c) : FunctionStart(h, c.code[h]) = c.size
  <2>1. After(ag[1], place, plan[1]) = plan[1]
    BY DEF After
  <2>. QED  BY <2>1, <1>1, <1>2, Here
<1>4. Awaits(c, at, {"OP_JUMP", "OP_JUMP_IF_FALSE"}) /\ place[at] = place[c.size]
  BY <1>3 DEF Fits
<1>5. Sound(w, place)
  BY <1>2, <1>4, PatchSound
<1>6. n \in Nat /\ n # Unpatched
  BY <1>2, <1>4, LimitsAssumption DEF Distance, Unpatched, Awaits, Sound, Solid
<1>7. /\ w.size = c.size /\ Starts(w) = Starts(c) /\ Ends(w) = Ends(c)
      /\ w.code[at].op = c.code[at].op /\ w.code[at].n = n
      /\ \A q \in Starts(c) : q # at => w.code[q] = c.code[q]
  <2>1. Solid(c) /\ at \in Starts(c) /\ n \in Nat
    BY <1>2, <1>4, <1>6 DEF Sound, Awaits
  <2>2. Patched(c, at, n, w)
    BY <2>1, PatchFacts DEF patchJump
  <2>. HIDE DEF w, at, n
  <2>. QED  BY <2>2 DEF Patched
<1>. HIDE DEF w, at, n
<1>8. \A k \in 2 .. Len(ag) : ag[k].do \in Patchers => ag[k].at \in Starts(c) /\ ag[k].at # at
  <2>1. ASSUME NEW k \in 2 .. Len(ag), ag[k].do \in Patchers
        PROVE  ag[k].at \in Starts(c) /\ ag[k].at # at
    <3>1. k \in WaitingIn(ag) /\ k # 1
      BY <2>1, <1>1 DEF WaitingIn
    <3>2. ag[k].at \in BlanksOf(c) /\ ag[k].at # at
      BY <3>1, <1>1 DEF Paired, at
    <3>. QED  BY <3>2 DEF BlanksOf
  <2>. QED  BY <2>1
<1>9. Follows(ag, c, place, w, place)
  BY <1>7, <1>8 DEF Follows, Grown, Kept
<1>10. ~ \E h \in Headers(w) : FunctionStart(h, w.code[h]) = w.size
  <2>1. \A h \in Headers(w) : h \in Headers(c) /\ w.code[h] = c.code[h]
    BY <1>4, <1>7 DEF Headers, Awaits
  <2>. QED  BY <2>1, <1>3, <1>7
<1>11. tasks \in Seq(TaskType) /\ Len(tasks) = 0
  OBVIOUS
<1>12. Leading(tasks, w, place, [k \in 1 .. Len(tasks) |-> plan[2]], plan[2])
  <2>1. /\ \A k \in 1 .. Len(tasks) : Free(tasks[k], w)
        /\ \A k \in 2 .. Len(tasks) : tasks[k].do \notin Openers
    BY <1>11
  <2>2. plan[2] = place[w.size]
    BY <1>3, <1>7
  <2>. HIDE DEF tasks
  <2>. QED  BY <2>1, <2>2, <1>5, <1>10, <1>11, FreeLeading
<1>. HIDE DEF tasks
<1>13. Held(tasks \o Tail(ag), w)
  BY <1>1, <1>2, <1>5, <1>9, <1>11, <1>12, Replace
<1>14. Paired(tasks \o Tail(ag), w)
  <2>1. WaitingIn(tasks) = {}
    BY <1>11 DEF WaitingIn
  <2>2. at \in BlanksOf(c) /\ ag[1].do \in Patchers
    BY <1>1 DEF Paired, Patchers, at
  <2>3. Gone(ag, c) = {at} /\ Come(tasks) = {}
    BY <2>1, <2>2 DEF at, Gone, Come
  <2>4. BlanksOf(w) = BlanksOf(c) \ {at}
    BY <1>6, <1>7 DEF BlanksOf
  <2>5. /\ BlanksOf(w) = (BlanksOf(c) \ Gone(ag, c)) \cup Come(tasks)
        /\ Come(tasks) \cap (BlanksOf(c) \ Gone(ag, c)) = {}
        /\ \A j, k \in WaitingIn(tasks) : tasks[j].at = tasks[k].at => j = k
    BY <2>1, <2>3, <2>4
  <2>. QED  BY <2>5, <1>11, PairedAgain
<1>. QED  BY <1>13, <1>14 DEF tasks, w, at

LEMMA EmptyLength == Len(<<>>) = 0 /\ 1 # 0 /\ 2 # 0 /\ 3 # 0
OBVIOUS

\* The loop jumps back to where its condition begins; its way out stays to be patched.
LEMMA EmitLoop ==
  ASSUME NEW ag \in Seq(TaskType), ag # <<>>, NEW c, Held(ag, c), Paired(ag, c),
         ag[1].do = "loop", Distance(c, ag[1].n) <= JumpMax,
         NEW tasks \in Seq(TaskType), tasks = <<ag[1]>>
  PROVE  LET w == emitLoop(c, ag[1].n)
         IN  Held(tasks \o Tail(ag), w) /\ Paired(tasks \o Tail(ag), w)
<1>. DEFINE n == Distance(c, ag[1].n)
            i == Literal("OP_LOOP", n)
            w == Write(c, i)
<1>1. Len(ag) \in Nat /\ Len(ag) >= 2
  BY NotLast
<1>2. PICK place, plan : Sound(c, place) /\ Planned(ag, c, place, plan)
  BY DEF Held
<1>3. /\ plan[2] = place[c.size] /\ plan[1] = plan[2] /\ plan[2] \in Place
      /\ Fits(ag[1], c, place, plan[2])
      /\ plan[2].owner # -1 => c.code[plan[2].owner].n = Unpatched
      /\ ~ \E h \in Headers(c) : FunctionStart(h, c.code[h]) = c.size
      /\ \A place3 : After(ag[1], place3, plan[2]) = plan[2]
  <2>1. \A place3, pl : After(ag[1], place3, pl) = pl
    BY DEF After
  <2>. QED  BY <2>1, <1>1, <1>2, Here
<1>4. ag[1].n \in Ends(c) /\ place[ag[1].n] = plan[2]
  BY <1>3 DEF Fits
<1>5. n \in Nat /\ n # Unpatched /\ c.size - n = ag[1].n
  <2>1. ag[1].n \in Nat /\ c.size \in Nat /\ ag[1].n <= c.size
    BY <1>2, <1>4, PlaceTypes
  <2>. QED  BY <2>1, LimitsAssumption DEF Distance, Unpatched
<1>6. i \in Instruction(Names) /\ i.op = "OP_LOOP" /\ i.n = n
  <2>1. "OP_LOOP" \in OpCode
    BY DEF OpCode, JumpOps
  <2>2. i \in Instruction(Names)
    BY <2>1, <1>5, InstructionTypes
  <2>. QED  BY <2>2, InstructionFields
<1>. HIDE DEF i, n
<1>7. LeadsTo(c, place, i, plan[2])
  <2>1. plan[2] = Deeper(place[c.size], ScopeEffect(i))
    <3>1. ScopeEffect(i) = 0
      BY <1>6 DEF ScopeEffect
    <3>. QED  BY <3>1, <1>3 DEF Deeper, Place
  <2>2. JumpTarget(c.size, i) = ag[1].n
    BY <1>5, <1>6 DEF JumpTarget
  <2>. QED  BY <2>1, <2>2, <1>3, <1>4, <1>6 DEF LeadsTo
<1>. DEFINE place2 == Extend(place, w, plan[2])
<1>8. Sound(w, place2)
  BY <1>2, <1>7, WriteSound
<1>9. Solid(c) /\ place2[w.size] = plan[2]
  BY <1>2, <1>8 DEF Sound, Extend, Ends
<1>10. Follows(ag, c, place, w, place2)
  BY <1>1, <1>2, <1>6, <1>9, FollowsWrite
<1>11. ~ \E h \in Headers(w) : FunctionStart(h, w.code[h]) = w.size
  BY <1>6, <1>9, NothingPending
<1>12. BlanksOf(w) = BlanksOf(c)
  BY <1>5, <1>6, <1>9, WriteBlanks DEF BlanksWhenWritten
<1>13. Kept(ag[1], c, w)
  <2>1. ag[1].at \in Starts(c)
    BY <1>3 DEF Fits, Awaits
  <2>2. Starts(w) = Ends(c) /\ \A o \in Starts(c) : w.code[o] = c.code[o]
    BY <1>6, <1>9, WriteFacts
  <2>. QED  BY <2>1, <2>2 DEF Kept, Ends
<1>. HIDE DEF w, place2
<1>14. Fits(ag[1], w, place2, plan[2])
  BY <1>3, <1>10, <1>13, StillFits DEF Follows
<1>15. /\ Len(tasks) = 1 /\ tasks[1] = ag[1]
       /\ \A k \in 1 .. Len(tasks) : k = 1
       /\ \A k \in 2 .. Len(tasks) : tasks[k].do \notin Openers
  OBVIOUS
<1>16. Leading(tasks, w, place2, [k \in 1 .. Len(tasks) |-> plan[2]], plan[2])
  <2>1. \A k \in 1 .. Len(tasks) : /\ Fits(tasks[k], w, place2, plan[2]) /\ tasks[k].do # "program"
                                   /\ After(tasks[k], place2, plan[2]) = plan[2]
    BY <1>3, <1>14, <1>15
  <2>. QED  BY <2>1, <1>8, <1>9, <1>11, <1>15, EvenLeading
<1>17. Held(tasks \o Tail(ag), w)
  BY <1>1, <1>2, <1>8, <1>10, <1>16, Replace
<1>18. Paired(tasks \o Tail(ag), w)
  <2>1. WaitingIn(tasks) = {1} /\ 1 \in WaitingIn(ag)
    BY <1>1, <1>15 DEF WaitingIn, Patchers
  <2>2. ag[1].at \in BlanksOf(c) /\ ag[1].do \in Patchers
    BY <2>1 DEF Paired, Patchers
  <2>3. Gone(ag, c) = {ag[1].at} /\ Come(tasks) = {ag[1].at}
    BY <2>1, <2>2, <1>15 DEF Gone, Come
  <2>4. /\ BlanksOf(w) = (BlanksOf(c) \ Gone(ag, c)) \cup Come(tasks)
        /\ Come(tasks) \cap (BlanksOf(c) \ Gone(ag, c)) = {}
        /\ \A j, k \in WaitingIn(tasks) : tasks[j].at = tasks[k].at => j = k
    BY <2>1, <2>2, <2>3, <1>12
  <2>. QED  BY <2>4, PairedAgain
<1>. QED  BY <1>17, <1>18 DEF w, i, n, emitLoop

\* A scope is entered or left.
LEMMA EnterBlock ==
  ASSUME NEW ag \in Seq(TaskType), ag # <<>>, NEW c, Held(ag, c), Paired(ag, c),
         ag[1].do = "block", NEW w, w = Write(c, Simple("OP_ENTER_SCOPE")),
         NEW tasks \in Seq(TaskType), Len(tasks) = 1, tasks[1].do = "blockLoop"
  PROVE  Held(tasks \o Tail(ag), w) /\ Paired(tasks \o Tail(ag), w)
<1>. DEFINE i == Simple("OP_ENTER_SCOPE")
<1>1. Len(ag) \in Nat /\ Len(ag) >= 2
  BY NotLast
<1>2. PICK place, plan : Sound(c, place) /\ Planned(ag, c, place, plan)
  BY DEF Held
<1>3. i \in Instruction(Names) /\ i.op = "OP_ENTER_SCOPE" /\ w = Write(c, i)
  BY InstructionTypes, InstructionFields DEF OpCode, ScopeOps
<1>. HIDE DEF i
<1>4. /\ plan[2] = place[c.size] /\ plan[2] \in Place
      /\ plan[2].owner # -1 => c.code[plan[2].owner].n = Unpatched
  <2>1. After(ag[1], place, plan[1]) = plan[1]
    BY DEF After
  <2>. QED  BY <2>1, <1>1, <1>2, Here
<1>. DEFINE pl == Deeper(plan[2], 1)
            place2 == Extend(place, w, pl)
<1>5. pl \in Place /\ pl.level >= 1 /\ pl.owner = plan[2].owner /\ Deeper(pl, -1) = plan[2]
  BY <1>4 DEF Deeper, Place
<1>6. LeadsTo(c, place, i, pl)
  <2>1. ScopeEffect(i) = 1
    BY <1>3 DEF ScopeEffect
  <2>. QED  BY <2>1, <1>3, <1>4, <1>5 DEF LeadsTo, JumpOps
<1>7. Sound(w, place2)
  BY <1>2, <1>3, <1>6, WriteSound
<1>8. Solid(c) /\ place2[w.size] = pl
  BY <1>2, <1>7 DEF Sound, Extend, Ends
<1>9. Follows(ag, c, place, w, place2)
  BY <1>1, <1>2, <1>3, <1>8, FollowsWrite
<1>10. ~ \E h \in Headers(w) : FunctionStart(h, w.code[h]) = w.size
  BY <1>3, <1>8, NothingPending
<1>11. BlanksOf(w) = BlanksOf(c)
  BY <1>3, <1>8, WriteBlanks, ZenonT(60) DEF BlanksWhenWritten, JumpOps
<1>. HIDE DEF pl, place2
<1>12. Leading(tasks, w, place2, [k \in 1 .. Len(tasks) |-> pl], plan[2])
  <2>1. \A k \in 1 .. Len(tasks) : k = 1
    OBVIOUS
  <2>2. tasks # <<>>
    BY EmptyLength, Zenon
  <2>3. Fits(tasks[1], w, place2, pl)
    BY <1>5 DEF Fits
  <2>4. After(tasks[1], place2, pl) = plan[2]
    BY <1>5 DEF After
  <2>. HIDE DEF Fits, After, Headers, FunctionStart
  <2>. QED  BY <2>1, <2>2, <2>3, <2>4, <1>5, <1>8, <1>10 DEF Leading
<1>13. Held(tasks \o Tail(ag), w)
  BY <1>1, <1>2, <1>7, <1>9, <1>12, Replace
<1>14. Paired(tasks \o Tail(ag), w)
  <2>1. WaitingIn(tasks) = {} /\ Gone(ag, c) = {}
    BY DEF WaitingIn, Patchers, Gone
  <2>2. Come(tasks) = {}
    BY <2>1 DEF Come
  <2>. QED  BY <2>1, <2>2, <1>11, PairedAgain
<1>. QED  BY <1>13, <1>14

LEMMA LeaveBlock ==
  ASSUME NEW ag \in Seq(TaskType), ag # <<>>, NEW c, Held(ag, c), Paired(ag, c),
         ag[1].do = "blockLoop", NEW w, w = Write(c, Simple("OP_EXIT_SCOPE")),
         NEW tasks \in Seq(TaskType), tasks = <<>>
  PROVE  Held(tasks \o Tail(ag), w) /\ Paired(tasks \o Tail(ag), w)
<1>. DEFINE i == Simple("OP_EXIT_SCOPE")
<1>1. Len(ag) \in Nat /\ Len(ag) >= 2
  BY NotLast
<1>2. PICK place, plan : Sound(c, place) /\ Planned(ag, c, place, plan)
  BY DEF Held
<1>3. i \in Instruction(Names) /\ i.op = "OP_EXIT_SCOPE" /\ w = Write(c, i)
  BY InstructionTypes, InstructionFields DEF OpCode, ScopeOps
<1>. HIDE DEF i
<1>4. /\ plan[1] = place[c.size] /\ plan[1] \in Place
      /\ plan[1].level >= 1 /\ plan[2] = Deeper(plan[1], -1)
      /\ plan[1].owner # -1 => c.code[plan[1].owner].n = Unpatched
      /\ ~ \E h \in Headers(c) : FunctionStart(h, c.code[h]) = c.size
  <2>1. After(ag[1], place, plan[1]) = Deeper(plan[1], -1)
    BY DEF After
  <2>2. Fits(ag[1], c, place, plan[1]) => plan[1].level >= 1
    BY DEF Fits
  <2>. QED  BY <2>1, <2>2, <1>1, <1>2, Here
<1>. DEFINE place2 == Extend(place, w, plan[2])
<1>5. plan[2] \in Place
  BY <1>4 DEF Deeper, Place
<1>6. LeadsTo(c, place, i, plan[2])
  <2>1. ScopeEffect(i) = -1
    BY <1>3 DEF ScopeEffect
  <2>. QED  BY <2>1, <1>3, <1>4, <1>5 DEF LeadsTo, JumpOps
<1>7. Sound(w, place2)
  BY <1>2, <1>3, <1>6, WriteSound
<1>8. Solid(c) /\ place2[w.size] = plan[2]
  BY <1>2, <1>7 DEF Sound, Extend, Ends
<1>9. Follows(ag, c, place, w, place2)
  BY <1>1, <1>2, <1>3, <1>8, FollowsWrite
<1>10. ~ \E h \in Headers(w) : FunctionStart(h, w.code[h]) = w.size
  BY <1>3, <1>8, NothingPending
<1>11. BlanksOf(w) = BlanksOf(c)
  BY <1>3, <1>8, WriteBlanks DEF BlanksWhenWritten, JumpOps
<1>. HIDE DEF place2
<1>12. /\ \A k \in 1 .. Len(tasks) : Free(tasks[k], w)
       /\ \A k \in 2 .. Len(tasks) : tasks[k].do \notin Openers
  OBVIOUS
<1>13. Leading(tasks, w, place2, [k \in 1 .. Len(tasks) |-> plan[2]], plan[2])
  BY <1>7, <1>8, <1>10, <1>12, FreeLeading
<1>14. Held(tasks \o Tail(ag), w)
  BY <1>1, <1>2, <1>7, <1>9, <1>13, Replace
<1>15. Paired(tasks \o Tail(ag), w)
  <2>1. ag[1].do \notin Patchers
    BY DEF Patchers
  <2>. QED  BY <2>1, <1>11, <1>12, FreePaired
<1>. QED  BY <1>14, <1>15

\* A block goes on with a declaration.
LEMMA StayInBlock ==
  ASSUME NEW ag \in Seq(TaskType), ag # <<>>, NEW c, Held(ag, c), Paired(ag, c),
         ag[1].do = "blockLoop",
         NEW tasks \in Seq(TaskType), Len(tasks) = 2,
         tasks[1].do = "declaration", tasks[2].do = "blockLoop"
  PROVE  Held(tasks \o Tail(ag), c) /\ Paired(tasks \o Tail(ag), c)
<1>1. Len(ag) \in Nat /\ Len(ag) >= 2
  BY NotLast
<1>2. PICK place, plan : Sound(c, place) /\ Planned(ag, c, place, plan)
  BY DEF Held
<1>3. /\ plan[1] = place[c.size] /\ plan[1] \in Place
      /\ plan[1].level >= 1 /\ plan[2] = Deeper(plan[1], -1)
      /\ ~ \E h \in Headers(c) : FunctionStart(h, c.code[h]) = c.size
  <2>1. After(ag[1], place, plan[1]) = Deeper(plan[1], -1)
    BY DEF After
  <2>2. Fits(ag[1], c, place, plan[1]) => plan[1].level >= 1
    BY DEF Fits
  <2>. QED  BY <2>1, <2>2, <1>1, <1>2, Here
<1>4. Follows(ag, c, place, c, place)
  <2>1. \A k \in 2 .. Len(ag) : k \in 1 .. Len(ag)
    BY <1>1
  <2>. QED  BY <2>1, <1>2 DEF Follows, Grown, Kept, Planned, Fits, Awaits, Patchers
<1>5. Leading(tasks, c, place, [k \in 1 .. Len(tasks) |-> plan[1]], plan[2])
  <2>1. \A k \in 1 .. Len(tasks) : k = 1 \/ k = 2
    OBVIOUS
  <2>2. tasks # <<>> /\ 1 \in 1 .. Len(tasks) /\ 2 \in 1 .. Len(tasks) /\ 1 + 1 = 2
    <3>1. tasks # <<>>
      BY EmptyLength, Zenon
    <3>. QED  BY <3>1
  <2>3. Fits(tasks[1], c, place, plan[1]) /\ Fits(tasks[2], c, place, plan[1])
    BY <1>3 DEF Fits
  <2>4. After(tasks[1], place, plan[1]) = plan[1] /\ After(tasks[2], place, plan[1]) = plan[2]
    BY <1>3 DEF After
  <2>5. plan[2].owner = plan[1].owner
    BY <1>3 DEF Deeper
  <2>6. \A k \in 1 .. Len(tasks) : k < Len(tasks) => k = 1
    OBVIOUS
  <2>7. \A k \in 1 .. Len(tasks) : tasks[k].do # "program" /\ tasks[k].do \notin Openers
    BY <2>1 DEF Openers
  <2>8. \A k \in 2 .. Len(tasks) : tasks[k].do \notin Openers
    BY <2>7
  <2>. HIDE DEF Fits, After, Headers, FunctionStart, Openers
  <2>. QED  BY <2>1, <2>2, <2>3, <2>4, <2>5, <2>6, <2>7, <2>8, <1>3 DEF Leading
<1>6. Held(tasks \o Tail(ag), c)
  BY <1>1, <1>2, <1>4, <1>5, Replace
<1>7. Paired(tasks \o Tail(ag), c)
  <2>1. WaitingIn(tasks) = {} /\ Gone(ag, c) = {}
    <3>1. \A k \in 1 .. Len(tasks) : k = 1 \/ k = 2
      OBVIOUS
    <3>. QED  BY <3>1 DEF WaitingIn, Patchers, Gone
  <2>2. Come(tasks) = {}
    BY <2>1 DEF Come
  <2>. QED  BY <2>1, <2>2, PairedAgain
<1>. QED  BY <1>6, <1>7

\* A function begins: its header waits for the length of the body.
LEMMA OpenFunction ==
  ASSUME NEW ag \in Seq(TaskType), ag # <<>>, NEW c, Held(ag, c), Paired(ag, c),
         ag[1].do = "header",
         NEW i \in Instruction(Names), i.op = "OP_DEC_FUNCTION", i.n = Unpatched,
         NEW w, w = Write(c, i),
         NEW tasks \in Seq(TaskType), Len(tasks) = 2, tasks[1].do = "block",
         tasks[2].do = "endFunction", tasks[2].at = c.size
  PROVE  Held(tasks \o Tail(ag), w) /\ Paired(tasks \o Tail(ag), w)
<1>1. Len(ag) \in Nat /\ Len(ag) >= 2
  BY NotLast
<1>2. PICK place, plan : Sound(c, place) /\ Planned(ag, c, place, plan)
  BY DEF Held
<1>3. /\ plan[2] = place[c.size] /\ plan[2] \in Place
      /\ plan[2].owner # -1 => c.code[plan[2].owner].n = Unpatched
      /\ ~ \E h \in Headers(c) : FunctionStart(h, c.code[h]) = c.size
  <2>1. After(ag[1], place, plan[1]) = plan[1]
    BY DEF After
  <2>. QED  BY <2>1, <1>1, <1>2, Here
<1>. DEFINE pl == Inside(c.size)
            place2 == Extend(place, w, pl)
<1>4. Solid(c) /\ c.size \in Nat /\ c.size \in Ends(c)
  BY <1>2 DEF Sound, Solid, Ends
<1>5. pl \in Place /\ pl.owner = c.size
  BY <1>4 DEF Inside, Place
<1>6. LeadsTo(c, place, i, pl)
  BY <1>3, <1>5 DEF LeadsTo, JumpOps
<1>7. Sound(w, place2)
  BY <1>2, <1>6, WriteSound
<1>8. /\ place2[w.size] = pl /\ Starts(w) = Ends(c) /\ w.code[c.size] = i
      /\ w.size \notin Ends(c)
  <2>1. place2[w.size] = pl
    BY <1>7 DEF Sound, Extend, Ends
  <2>. QED  BY <2>1, <1>4, WriteFacts
<1>9. Follows(ag, c, place, w, place2)
  BY <1>1, <1>2, <1>4, FollowsWrite
<1>10. BlanksOf(w) = BlanksOf(c) \cup {c.size} /\ c.size \notin BlanksOf(c)
  BY <1>4, WriteBlanks DEF BlanksWhenWritten
<1>11. place2[c.size] = plan[2]
  BY <1>3, <1>4, <1>9 DEF Follows, Grown
<1>. HIDE DEF pl, place2
<1>12. (\A k \in 1 .. Len(tasks) : k = 1 \/ k = 2) /\ 1 \in 1 .. Len(tasks) /\ 2 \in 1 .. Len(tasks)
  OBVIOUS
<1>13. Leading(tasks, w, place2, [k \in 1 .. Len(tasks) |-> pl], plan[2])
  <2>1. tasks # <<>>
    BY EmptyLength, Zenon
  <2>2. Fits(tasks[1], w, place2, pl) /\ After(tasks[1], place2, pl) = pl
    BY DEF Fits, After
  <2>3. Fits(tasks[2], w, place2, pl) /\ After(tasks[2], place2, pl) = plan[2]
    BY <1>4, <1>8, <1>11 DEF Fits, After, Awaits, pl
  <2>4. \A k \in 1 .. Len(tasks) : \E j \in k .. Len(tasks) :
          tasks[j].do = "endFunction" /\ tasks[j].at = pl.owner
    <3>1. \A k \in 1 .. Len(tasks) : 2 \in k .. Len(tasks)
      OBVIOUS
    <3>. QED  BY <3>1, <1>5
  <2>5. \A k \in 1 .. Len(tasks) : k < Len(tasks) => k = 1
    OBVIOUS
  <2>6. \A k \in 2 .. Len(tasks) : tasks[k].do \notin Openers
    <3>1. \A k \in 2 .. Len(tasks) : k = 2
      OBVIOUS
    <3>. QED  BY <3>1 DEF Openers
  <2>7. [k \in 1 .. Len(tasks) |-> pl] \in [1 .. Len(tasks) -> Place]
    BY <1>5
  <2>8. \A k \in 1 .. Len(tasks) : tasks[k].do # "program"
    BY <1>12
  <2>9. \A k \in 1 .. Len(tasks) : Fits(tasks[k], w, place2, pl)
    BY <2>2, <2>3, <1>12
  <2>. HIDE DEF Fits, After, Headers, FunctionStart, Openers
  <2>. QED  BY <2>1, <2>2, <2>3, <2>4, <2>5, <2>6, <2>7, <2>8, <2>9, <1>8, <1>12 DEF Leading
<1>14. Held(tasks \o Tail(ag), w)
  BY <1>1, <1>2, <1>7, <1>9, <1>13, Replace
<1>15. Paired(tasks \o Tail(ag), w)
  <2>1. WaitingIn(tasks) = {2} /\ Gone(ag, c) = {}
    BY <1>12 DEF WaitingIn, Patchers, Gone
  <2>2. Come(tasks) = {c.size}
    BY <2>1 DEF Come
  <2>3. /\ BlanksOf(w) = (BlanksOf(c) \ Gone(ag, c)) \cup Come(tasks)
        /\ Come(tasks) \cap (BlanksOf(c) \ Gone(ag, c)) = {}
        /\ \A j, k \in WaitingIn(tasks) : tasks[j].at = tasks[k].at => j = k
    BY <2>1, <2>2, <1>10
  <2>. QED  BY <2>3, PairedAgain
<1>. QED  BY <1>14, <1>15

\* The function ends: a return is written and the length of the body filled in.
LEMMA CloseFunction ==
  ASSUME NEW ag \in Seq(TaskType), ag # <<>>, NEW c, Held(ag, c), Paired(ag, c),
         ag[1].do = "endFunction", NEW w, w = Write(c, Simple("OP_RETURN")),
         Distance(w, ag[1].at + 1) <= JumpMax,
         NEW v, v = Patch(w, ag[1].at, Distance(w, ag[1].at + 1)),
         NEW tasks \in Seq(TaskType), tasks = <<>>
  PROVE  Held(tasks \o Tail(ag), v) /\ Paired(tasks \o Tail(ag), v)
<1>. DEFINE i == Simple("OP_RETURN")
            h == ag[1].at
            n == Distance(w, h + 1)
<1>1. Len(ag) \in Nat /\ Len(ag) >= 2 /\ 1 \in WaitingIn(ag)
  <2>1. Len(ag) \in Nat /\ Len(ag) >= 2
    BY NotLast
  <2>. QED  BY <2>1 DEF WaitingIn, Patchers
<1>2. PICK place, plan : Sound(c, place) /\ Planned(ag, c, place, plan)
  BY DEF Held
<1>3. i \in Instruction(Names) /\ i.op = "OP_RETURN" /\ w = Write(c, i)
  BY InstructionTypes, InstructionFields DEF OpCode
<1>. HIDE DEF i
<1>4. /\ Awaits(c, h, {"OP_DEC_FUNCTION"}) /\ place[c.size] = Inside(h)
      /\ plan[2] = place[h]
      /\ plan[2].owner # -1 => c.code[plan[2].owner].n = Unpatched
      /\ ~ \E g \in Headers(c) : FunctionStart(g, c.code[g]) = c.size
  <2>1. After(ag[1], place, plan[1]) = place[h]
    BY DEF After
  <2>2. Fits(ag[1], c, place, plan[1]) =>
          Awaits(c, h, {"OP_DEC_FUNCTION"}) /\ plan[1] = Inside(h)
    BY DEF Fits
  <2>. QED  BY <2>1, <2>2, <1>1, <1>2, Here
<1>. DEFINE place3 == Extend(place, w, place[h])
<1>5. Sound(v, place3)
  <2>1. Distance(w, h + 1) <= JumpMax /\ v = Patch(w, h, Distance(w, h + 1))
    OBVIOUS
  <2>. HIDE DEF h
  <2>. QED  BY <2>1, <1>2, <1>4, CloseSound
<1>6. /\ Solid(c) /\ Solid(w) /\ h \in Starts(c) /\ h \in Nat /\ c.size \in Nat /\ h < c.size
      /\ w.size \in Nat /\ c.size < w.size /\ w.size \notin Ends(c)
      /\ Starts(w) = Ends(c) /\ Ends(w) = Ends(c) \cup {w.size} /\ w.code[c.size] = i
      /\ \A o \in Starts(c) : w.code[o] = c.code[o]
  <2>1. Solid(c) /\ h \in Starts(c) /\ h \in Nat /\ c.size \in Nat /\ h < c.size
    BY <1>2, <1>4 DEF Sound, Solid, Awaits
  <2>. HIDE DEF h
  <2>. QED  BY <2>1, <1>3, WriteFacts
<1>7. n \in Nat /\ n # Unpatched
  BY <1>6, LimitsAssumption DEF Distance, Unpatched
<1>8. /\ v.size = w.size /\ Starts(v) = Starts(w) /\ Ends(v) = Ends(w)
      /\ v.code[h].op = w.code[h].op /\ v.code[h].n = n
      /\ Width(v.code[h]) = Width(w.code[h])
      /\ \A q \in Starts(w) : q # h => v.code[q] = w.code[q]
  <2>1. h \in Starts(w) /\ v = Patch(w, h, n)
    BY <1>6 DEF Ends
  <2>. HIDE DEF h, n
  <2>2. Patched(w, h, n, v)
    BY <2>1, <1>6, <1>7, PatchFacts
  <2>. QED  BY <2>2 DEF Patched
<1>. HIDE DEF h, n
<1>9. h \in BlanksOf(c) /\ \A k \in 2 .. Len(ag) :
        ag[k].do \in Patchers => ag[k].at \in Starts(c) /\ ag[k].at # h
  <2>1. h \in BlanksOf(c)
    BY <1>1 DEF Paired, h
  <2>2. ASSUME NEW k \in 2 .. Len(ag), ag[k].do \in Patchers
        PROVE  ag[k].at \in Starts(c) /\ ag[k].at # h
    <3>1. k \in WaitingIn(ag) /\ k # 1
      BY <2>2, <1>1 DEF WaitingIn
    <3>2. ag[k].at \in BlanksOf(c) /\ ag[k].at # h
      BY <3>1, <1>1 DEF Paired, h
    <3>. QED  BY <3>2 DEF BlanksOf
  <2>. QED  BY <2>1, <2>2
<1>10. Follows(ag, c, place, v, place3)
  <2>1. \A p \in Ends(c) : place3[p] = place[p]
    BY <1>6 DEF Extend
  <2>. HIDE DEF place3
  <2>. QED  BY <2>1, <1>6, <1>8, <1>9, ZenonT(60) DEF Follows, Grown, Kept, Ends
<1>11. place3[v.size] = plan[2]
  BY <1>4, <1>6, <1>8 DEF Extend
<1>12. ~ \E g \in Headers(v) : FunctionStart(g, v.code[g]) = v.size
  <2>1. ~ \E g \in Headers(w) : FunctionStart(g, w.code[g]) = w.size
    BY <1>3, <1>6, NothingPending
  <2>2. \A g \in Headers(v) : g \in Headers(w) /\ Width(v.code[g]) = Width(w.code[g])
    BY <1>8 DEF Headers
  <2>. QED  BY <2>1, <2>2, <1>8 DEF FunctionStart
<1>. HIDE DEF place3
<1>13. /\ \A k \in 1 .. Len(tasks) : Free(tasks[k], v)
       /\ \A k \in 2 .. Len(tasks) : tasks[k].do \notin Openers
  OBVIOUS
<1>14. Leading(tasks, v, place3, [k \in 1 .. Len(tasks) |-> plan[2]], plan[2])
  BY <1>5, <1>11, <1>12, <1>13, FreeLeading
<1>15. Held(tasks \o Tail(ag), v)
  BY <1>1, <1>2, <1>5, <1>10, <1>14, Replace
<1>16. Paired(tasks \o Tail(ag), v)
  <2>1. WaitingIn(tasks) = {}
    BY DEF WaitingIn
  <2>2. Gone(ag, c) = {h} /\ Come(tasks) = {}
    BY <2>1, <1>9 DEF Gone, Come, h, Patchers
  <2>3. BlanksOf(w) = BlanksOf(c)
    <3>1. BlanksOf(Write(c, i)) = BlanksWhenWritten(c, i)
      <4>1. Solid(c)
        BY <1>2 DEF Sound
      <4>. QED  BY <4>1, <1>3, WriteBlanks
    <3>. QED  BY <3>1, <1>3 DEF BlanksWhenWritten, JumpOps
  <2>4. BlanksOf(v) = BlanksOf(w) \ {h}
    BY <1>7, <1>8 DEF BlanksOf
  <2>5. /\ BlanksOf(v) = (BlanksOf(c) \ Gone(ag, c)) \cup Come(tasks)
        /\ Come(tasks) \cap (BlanksOf(c) \ Gone(ag, c)) = {}
        /\ \A j, k \in WaitingIn(tasks) : tasks[j].at = tasks[k].at => j = k
    BY <2>1, <2>2, <2>3, <2>4
  <2>. QED  BY <2>5, PairedAgain
<1>. QED  BY <1>15, <1>16

LEMMA AtProgram ==
  ASSUME NEW ag \in Seq(TaskType), ag # <<>>, ag[1].do = "program", NEW c, NEW place, NEW plan,
         Planned(ag, c, place, plan), Sound(c, place), Paired(ag, c)
  PROVE  /\ Len(ag) = 1 /\ Tail(ag) = <<>> /\ place[c.size] = Top
         /\ BlanksOf(c) = {}
         /\ ~ \E h \in Headers(c) : FunctionStart(h, c.code[h]) = c.size
<1>1. Len(ag) \in Nat /\ Len(ag) >= 1 /\ 1 \in 1 .. Len(ag)
  OBVIOUS
<1>2. 1 = Len(ag)
  BY <1>1 DEF Planned
<1>3. Tail(ag) = <<>>
  <2>1. Tail(ag) \in Seq(TaskType) /\ Len(Tail(ag)) = 0
    BY <1>2
  <2>. QED  BY <2>1, EmptySeq
<1>4. place[c.size] = Top
  BY <1>1 DEF Planned, Fits
<1>5. BlanksOf(c) = {}
  <2>1. \A k \in 1 .. Len(ag) : k = 1
    <3>1. \A k \in 1 .. 1 : k = 1
      OBVIOUS
    <3>. QED  BY <3>1, <1>2, Zenon
  <2>2. \A k \in 1 .. Len(ag) : ag[k].do \notin Patchers
    BY <2>1 DEF Patchers
  <2>. QED  BY <2>2 DEF Paired, WaitingIn
<1>6. ~ \E h \in Headers(c) : FunctionStart(h, c.code[h]) = c.size
  <2>. HIDE DEF Fits, After, Headers, FunctionStart, Place
  <2>. QED  BY DEF Planned
<1>. QED  BY <1>2, <1>3, <1>4, <1>5, <1>6

\* The program goes on with a declaration.
LEMMA StayInProgram ==
  ASSUME NEW ag \in Seq(TaskType), ag # <<>>, NEW c, Held(ag, c), Paired(ag, c),
         ag[1].do = "program",
         NEW tasks \in Seq(TaskType), Len(tasks) = 2,
         tasks[1].do = "declaration", tasks[2].do = "program"
  PROVE  Held(tasks \o Tail(ag), c) /\ Paired(tasks \o Tail(ag), c)
<1>1. PICK place, plan : Sound(c, place) /\ Planned(ag, c, place, plan)
  BY DEF Held
<1>2. /\ Tail(ag) = <<>> /\ place[c.size] = Top /\ BlanksOf(c) = {}
      /\ ~ \E h \in Headers(c) : FunctionStart(h, c.code[h]) = c.size
  BY <1>1, AtProgram
<1>3. tasks \o Tail(ag) = tasks
  BY <1>2, ConcatEmptySeq
<1>4. (\A k \in 1 .. Len(tasks) : k = 1 \/ k = 2) /\ 1 \in 1 .. Len(tasks) /\ 2 \in 1 .. Len(tasks)
  OBVIOUS
<1>5. Planned(tasks, c, place, [k \in 1 .. Len(tasks) |-> Top])
  <2>1. Top \in Place /\ Top.owner = -1
    BY DEF Top, Place
  <2>2. /\ Fits(tasks[1], c, place, Top) /\ Fits(tasks[2], c, place, Top)
        /\ After(tasks[1], place, Top) = Top
    BY <2>1 DEF Fits, After
  <2>3. \A k \in 1 .. Len(tasks) - 1 : k = 1
    OBVIOUS
  <2>4. \A k \in 1 .. Len(tasks) : tasks[k].do = "program" <=> k = Len(tasks)
    BY <1>4
  <2>5. \A k \in 2 .. Len(tasks) : tasks[k].do \notin Openers
    <3>1. \A k \in 2 .. Len(tasks) : k = 2
      OBVIOUS
    <3>. QED  BY <3>1 DEF Openers
  <2>6. [k \in 1 .. Len(tasks) |-> Top] \in [1 .. Len(tasks) -> Place]
    BY <2>1
  <2>7. \A k \in 1 .. Len(tasks) : Fits(tasks[k], c, place, Top)
    BY <2>2, <1>4
  <2>. HIDE DEF Fits, After, Headers, FunctionStart, Openers, Top
  <2>. QED  BY <2>1, <2>2, <2>3, <2>4, <2>5, <2>6, <2>7, <1>2, <1>4 DEF Planned
<1>6. Paired(tasks, c)
  <2>1. WaitingIn(tasks) = {}
    BY <1>4 DEF WaitingIn, Patchers
  <2>. QED  BY <2>1, <1>2 DEF Paired
<1>. QED  BY <1>1, <1>3, <1>5, <1>6 DEF Held

\* The program ends with a return, and nothing lands behind it.
LEMMA EndProgram ==
  ASSUME NEW ag \in Seq(TaskType), ag # <<>>, NEW c, Held(ag, c), Paired(ag, c),
         ag[1].do = "program", NEW w, w = Write(c, Simple("OP_RETURN"))
  PROVE  /\ Held(<<>>, w) /\ Paired(<<>>, w)
         /\ w.size - 1 \in Starts(w) /\ w.code[w.size - 1] = Simple("OP_RETURN")
         /\ \A o \in Starts(w) :
              /\ w.code[o].op \in JumpOps => JumpTarget(o, w.code[o]) # w.size
              /\ w.code[o].op = "OP_DEC_FUNCTION" => AfterBody(o, w.code[o]) # w.size
<1>. DEFINE i == Simple("OP_RETURN")
<1>1. i \in Instruction(Names) /\ i.op = "OP_RETURN" /\ w = Write(c, i) /\ Width(i) = 1
  <2>1. i \in Instruction(Names) /\ i.op = "OP_RETURN"
    BY InstructionTypes, InstructionFields DEF OpCode
  <2>. HIDE DEF i
  <2>2. Width(i) = 1
    BY <2>1 DEF Width, NameOps, JumpOps
  <2>. QED  BY <2>1, <2>2 DEF i
<1>. HIDE DEF i
<1>2. PICK place, plan : Sound(c, place) /\ Planned(ag, c, place, plan)
  BY DEF Held
<1>3. /\ place[c.size] = Top /\ BlanksOf(c) = {}
      /\ ~ \E h \in Headers(c) : FunctionStart(h, c.code[h]) = c.size
  BY <1>2, AtProgram
<1>4. LeadsTo(c, place, i, Top)
  <2>1. ScopeEffect(i) = 0
    BY <1>1 DEF ScopeEffect
  <2>2. Top \in Place /\ Top.owner = -1 /\ Top.level = 0 /\ Top = Deeper(Top, 0)
    BY DEF Top, Place, Deeper
  <2>. QED  BY <2>1, <2>2, <1>1, <1>3 DEF LeadsTo, JumpOps
<1>5. Sound(w, Extend(place, w, Top))
  BY <1>1, <1>2, <1>4, WriteSound
<1>6. /\ Solid(c) /\ c.size \in Nat /\ w.size = c.size + 1 /\ w.size \notin Ends(c)
      /\ Starts(w) = Ends(c) /\ w.code[c.size] = i
      /\ \A o \in Starts(c) : w.code[o] = c.code[o]
  <2>1. Solid(c) /\ c.size \in Nat
    BY <1>2 DEF Sound, Solid
  <2>. QED  BY <2>1, <1>1, WriteFacts
<1>7. BlanksOf(w) = {}
  BY <1>1, <1>3, <1>6, WriteBlanks DEF BlanksWhenWritten, JumpOps
<1>8. ~ \E h \in Headers(w) : FunctionStart(h, w.code[h]) = w.size
  BY <1>1, <1>6, NothingPending
<1>9. Held(<<>>, w) /\ Paired(<<>>, w)
  <2>1. Len(<<>>) = 0 /\ WaitingIn(<<>>) = {}
    BY DEF WaitingIn
  <2>2. Planned(<<>>, w, Extend(place, w, Top), [k \in 1 .. 0 |-> Top])
    <3>. HIDE DEF Fits, After, Headers, FunctionStart
    <3>. QED  BY <2>1, <1>8 DEF Planned
  <2>. QED  BY <2>1, <2>2, <1>5, <1>7 DEF Held, Paired
<1>10. ASSUME NEW o \in Starts(w)
       PROVE  /\ w.code[o].op \in JumpOps => JumpTarget(o, w.code[o]) # w.size
              /\ w.code[o].op = "OP_DEC_FUNCTION" => AfterBody(o, w.code[o]) # w.size
  <2>1. CASE o = c.size
    BY <2>1, <1>1, <1>6 DEF JumpOps
  <2>2. CASE o \in Starts(c)
    <3>1. Flows(c, place, o) /\ w.code[o] = c.code[o]
      BY <2>2, <1>2, <1>6 DEF Sound
    <3>2. c.code[o].op \in JumpOps \cup {"OP_DEC_FUNCTION"} => c.code[o].n # Unpatched
      BY <2>2, <1>3 DEF BlanksOf
    <3>. QED  BY <3>1, <3>2, <1>6 DEF Flows
  <2>. QED  BY <2>1, <2>2, <1>6 DEF Ends
<1>11. w.size - 1 \in Starts(w) /\ w.code[w.size - 1] = i
  <2>1. w.size - 1 = c.size /\ c.size \in Ends(c)
    BY <1>6 DEF Ends
  <2>. QED  BY <2>1, <1>6
<1>. QED  BY <1>9, <1>10, <1>11 DEF i

-----------------------------------------------------------------------------
(* The parser moves within the source *)

LEMMA SourceFacts ==
  ASSUME source \in Sources
  PROVE  /\ source \in Seq(Token(Names)) /\ Len(source) \in Nat /\ Len(source) >= 1
         /\ source[Len(source)].type # "TK_NEWLINE"
         /\ \A k \in 1 .. Len(source) : source[k] \in Token(Names)
<1>1. source \in Seq(Token(Names)) /\ source # <<>> /\ source[Len(source)].type # "TK_NEWLINE"
  BY SourcesAssumption DEF Source
<1>. QED  BY <1>1

LEMMA TokenFields ==
  ASSUME NEW t \in Token(Names)
  PROVE  t.type \in token_t /\ t.text \in Names /\ t.n \in Nat
BY DEF Token

LEMMA MoveToType ==
  ASSUME NEW p \in ParserType, NEW pos \in 1 .. Len(source), NEW previous \in Token(Names)
  PROVE  MoveTo(p, pos, previous) \in ParserType /\ MoveTo(p, pos, previous).previous = previous
<1>1. (p.hadError \/ source[pos].type = "TK_ERROR") \in BOOLEAN
  BY Zenon
<1>. DEFINE had == p.hadError \/ source[pos].type = "TK_ERROR"
<1>2. MoveTo(p, pos, previous) = [pos |-> pos, previous |-> previous, hadError |-> had]
  BY DEF MoveTo
<1>. HIDE DEF had
<1>3. had \in BOOLEAN
  BY <1>1 DEF had
<1>. QED  BY <1>2, <1>3 DEF ParserType

\* The first token from a position on that is no newline.
LEMMA NewlinesEnd ==
  ASSUME source \in Sources, NEW from \in 1 .. Len(source)
  PROVE  \E k \in from .. Len(source) : /\ source[k].type # "TK_NEWLINE"
                                        /\ \A j \in from .. k - 1 : source[j].type = "TK_NEWLINE"
<1>. DEFINE S == {k \in from .. Len(source) : source[k].type # "TK_NEWLINE"}
            R == OpToRel(<, Nat)
<1>1. Len(source) \in S /\ S \subseteq Nat
  BY SourceFacts
<1>2. IsWellFoundedOn(R, Nat)
  BY NatLessThanWellFounded
<1>. HIDE DEF S, R
<1>3. PICK k \in S : \A y \in Nat : <<y, k>> \in R => y \notin S
  <2>1. S \in SUBSET Nat /\ S # {}
    BY <1>1
  <2>. QED  BY <1>2, <2>1, WFMin
<1>4. k \in Nat /\ \A y \in Nat : y < k => y \notin S
  BY <1>1, <1>3 DEF R, OpToRel
<1>5. k \in from .. Len(source) /\ source[k].type # "TK_NEWLINE"
  BY <1>3 DEF S
<1>6. ASSUME NEW j \in from .. k - 1
      PROVE  source[j].type = "TK_NEWLINE"
  <2>1. j \in Nat /\ j < k /\ j \in from .. Len(source)
    BY <1>5, SourceFacts
  <2>. QED  BY <2>1, <1>4 DEF S
<1>. QED  BY <1>5, <1>6

LEMMA ParserMoves ==
  ASSUME source \in Sources, NEW p \in ParserType
  PROVE  /\ Current(p) \in Token(Names) /\ p.previous \in Token(Names)
         /\ advanceParser(p) \in ParserType /\ advanceParser(p).previous = Current(p)
         /\ \A types : consumeIf(p, types) \in ParserType
         /\ SkipNewlines(p) \in ParserType
<1>1. p.pos \in 1 .. Len(source) /\ p.previous \in Token(Names) /\ p.hadError \in BOOLEAN
  BY DEF ParserType
<1>2. Current(p) \in Token(Names)
  BY <1>1, SourceFacts DEF Current
<1>3. advanceParser(p) \in ParserType /\ advanceParser(p).previous = Current(p)
  <2>. DEFINE pos == IF p.pos < Len(source) THEN p.pos + 1 ELSE p.pos
  <2>1. pos \in 1 .. Len(source)
    BY <1>1, SourceFacts
  <2>2. advanceParser(p) = MoveTo(p, pos, Current(p))
    BY DEF advanceParser
  <2>. HIDE DEF pos
  <2>. QED  BY <2>1, <2>2, <1>2, MoveToType
<1>4. ASSUME NEW types
      PROVE  consumeIf(p, types) \in ParserType
  <2>1. [p EXCEPT !.hadError = TRUE] \in ParserType
    BY DEF ParserType
  <2>. QED  BY <2>1, <1>3 DEF consumeIf
<1>5. SkipNewlines(p) \in ParserType
  <2>. DEFINE to == CHOOSE k \in p.pos .. Len(source) :
                      /\ source[k].type # "TK_NEWLINE"
                      /\ \A j \in p.pos .. k - 1 : source[j].type = "TK_NEWLINE"
  <2>1. to \in p.pos .. Len(source)
    BY <1>1, NewlinesEnd
  <2>2. SkipNewlines(p) = IF to = p.pos THEN p ELSE MoveTo(p, to, source[to - 1])
    BY DEF SkipNewlines
  <2>. HIDE DEF to
  <2>3. CASE to = p.pos
    BY <2>2, <2>3
  <2>4. CASE to # p.pos
    <3>1. to \in 1 .. Len(source) /\ to - 1 \in 1 .. Len(source)
      BY <2>1, <2>4, <1>1, SourceFacts
    <3>2. source[to - 1] \in Token(Names)
      BY <3>1, SourceFacts
    <3>. QED  BY <3>1, <3>2, <2>2, <2>4, MoveToType
  <2>. QED  BY <2>3, <2>4
<1>. QED  BY <1>1, <1>2, <1>3, <1>4, <1>5

-----------------------------------------------------------------------------
(* Tasks *)

LEMMA TaskFields ==
  ASSUME NEW t \in TaskType
  PROVE  /\ t.do \in Deeds /\ t.n \in Nat /\ t.at \in Nat /\ t.type \in token_t
         /\ t.name \in Names /\ t.params \in Seq(Names) /\ t.rets \in Nat
BY DEF TaskType

LEMMA TaskKinds ==
  /\ \A do \in Deeds : Task(do) \in TaskType /\ Task(do).do = do
  /\ \A do \in Deeds, n \in Nat :
       LET t == [Task(do) EXCEPT !.n = n] IN t \in TaskType /\ t.do = do /\ t.n = n
  /\ \A do \in Deeds, type \in token_t :
       Operator(do, type) \in TaskType /\ Operator(do, type).do = do /\ Operator(do, type).type = type
  /\ \A do \in Deeds, offset \in Nat :
       At(do, offset) \in TaskType /\ At(do, offset).do = do /\ At(do, offset).at = offset
  /\ \A do \in Deeds, offset \in Nat, n \in Nat :
       LET t == [At(do, offset) EXCEPT !.n = n]
       IN  t \in TaskType /\ t.do = do /\ t.at = offset /\ t.n = n
  /\ \A do \in Deeds, x \in Names :
       LET t == [Task(do) EXCEPT !.name = x] IN t \in TaskType /\ t.do = do /\ t.name = x
<1>1. "TK_ERROR" \in token_t /\ "" \in Names
  BY NamesAssumption DEF token_t
<1>2. <<>> \in Seq(Names)
  OBVIOUS
<1>. QED  BY <1>1, <1>2 DEF TaskType, Task, Operator, At

LEMMA ExpressionTasks ==
  /\ \A n \in Nat \ {0} : \A c : /\ Prefix(n) \in TaskType /\ Infix(n) \in TaskType
                                 /\ Free(Prefix(n), c) /\ Free(Infix(n), c)
  /\ Expression \in TaskType /\ \A c : Free(Expression, c)
<1>1. "prefix" \in Deeds /\ "infix" \in Deeds
  BY DEF Deeds
<1>2. ASSUME NEW n \in Nat \ {0}, NEW c
      PROVE  /\ Prefix(n) \in TaskType /\ Infix(n) \in TaskType
             /\ Free(Prefix(n), c) /\ Free(Infix(n), c)
  <2>1. /\ Prefix(n) \in TaskType /\ Prefix(n).do = "prefix" /\ Prefix(n).n = n
        /\ Infix(n) \in TaskType /\ Infix(n).do = "infix" /\ Infix(n).n = n
    BY <1>1, TaskKinds DEF Prefix, Infix
  <2>. QED  BY <2>1 DEF Free, Patchers
<1>. QED  BY <1>2 DEF Expression, PREC_ASSIGNMENT

LEMMA LongerByOne ==
  ASSUME NEW S, NEW s \in S, NEW t \in S, NEW u \in S
  PROVE  <<s>> \o <<t>> = <<s, t>> /\ <<s, t>> \o <<u>> = <<s, t, u>>
<1>1. <<s>> \o <<t>> = <<s, t>>
  <2>1. <<s>> \in Seq(S) /\ <<t>> \in Seq(S) /\ <<s, t>> \in Seq(S)
    OBVIOUS
  <2>2. Len(<<s>>) = 1 /\ Len(<<t>>) = 1 /\ Len(<<s, t>>) = 2
    OBVIOUS
  <2>3. <<s>> \o <<t>> \in Seq(S) /\ Len(<<s>> \o <<t>>) = 2
    BY <2>1, <2>2
  <2>4. \A k \in 1 .. 2 : (<<s>> \o <<t>>)[k] = <<s, t>>[k]
    BY <2>1, <2>2
  <2>. QED  BY <2>1, <2>2, <2>3, <2>4, SeqEqual
<1>2. <<s, t>> \o <<u>> = <<s, t, u>>
  <2>1. <<s, t>> \in Seq(S) /\ <<u>> \in Seq(S) /\ <<s, t, u>> \in Seq(S)
    OBVIOUS
  <2>2. Len(<<s, t>>) = 2 /\ Len(<<u>>) = 1 /\ Len(<<s, t, u>>) = 3
    OBVIOUS
  <2>3. <<s, t>> \o <<u>> \in Seq(S) /\ Len(<<s, t>> \o <<u>>) = 3
    BY <2>1, <2>2
  <2>4. \A k \in 1 .. 3 : (<<s, t>> \o <<u>>)[k] = <<s, t, u>>[k]
    BY <2>1, <2>2
  <2>. QED  BY <2>1, <2>2, <2>3, <2>4, SeqEqual
<1>. QED  BY <1>1, <1>2

\* Tasks that take nothing for granted, and of which only the first may be an opener.
AllFree(tasks, c) ==
  /\ tasks \in Seq(TaskType)
  /\ \A k \in 1 .. Len(tasks) : Free(tasks[k], c)
  /\ \A k \in 2 .. Len(tasks) : tasks[k].do \notin Openers

LEMMA FreeSequences ==
  /\ \A c : AllFree(<<>>, c)
  /\ \A s \in TaskType : \A c : Free(s, c) => AllFree(<<s>>, c)
  /\ \A s, t \in TaskType : \A c :
       Free(s, c) /\ Free(t, c) /\ t.do \notin Openers => AllFree(<<s, t>>, c)
  /\ \A s, t, u \in TaskType : \A c :
       Free(s, c) /\ Free(t, c) /\ Free(u, c) /\ t.do \notin Openers /\ u.do \notin Openers =>
         AllFree(<<s, t, u>>, c)
<1>. USE DEF AllFree
<1>1. \A c : AllFree(<<>>, c)
  OBVIOUS
<1>2. ASSUME NEW s \in TaskType, NEW c, Free(s, c)
      PROVE  AllFree(<<s>>, c)
  BY <1>2
<1>3. ASSUME NEW s \in TaskType, NEW t \in TaskType, NEW c,
             Free(s, c), Free(t, c), t.do \notin Openers
      PROVE  AllFree(<<s, t>>, c)
  BY <1>3
<1>4. ASSUME NEW s \in TaskType, NEW t \in TaskType, NEW u \in TaskType, NEW c,
             Free(s, c), Free(t, c), Free(u, c), t.do \notin Openers, u.do \notin Openers
      PROVE  AllFree(<<s, t, u>>, c)
  BY <1>4
<1>. HIDE DEF AllFree
<1>. QED  BY <1>1, <1>2, <1>3, <1>4

-----------------------------------------------------------------------------
(* What a step leaves of the invariant *)

Reading == {"params", "returns", "header"}

\* The chunk has grown; a new call has the header of its function before it.
Preserves(c, c2) ==
  /\ \A o \in Starts(c) :
       o \in Starts(c2) /\ c2.code[o].op = c.code[o].op /\ c2.code[o].name = c.code[o].name
  /\ \A o \in Starts(c2) \ Starts(c) : c2.code[o].op = "OP_FUNCTION_CALL" =>
       \E h \in Headers(c) : h < o /\ c.code[h].name = c2.code[o].name

LEMMA ContinueKeeps ==
  ASSUME IInv, status = "compiling", NEW p \in ParserType, NEW c, NEW tasks \in Seq(TaskType),
         Continue(p, c, tasks), Preserves(chunk, c),
         Held(tasks \o Tail(agenda), c) /\ Paired(tasks \o Tail(agenda), c),
         Now.do = "program" => tasks # <<>>,
         Now.do \in Reading =>
           \/ tasks # <<>> /\ tasks[1].do \in Reading /\ tasks[1].name = Now.name
           \/ \E h \in Headers(c) : c.code[h].name = Now.name
  PROVE  IInv'
<1>1. /\ parser' = p /\ chunk' = c /\ agenda' = tasks \o Tail(agenda)
      /\ source' = source /\ registry' = registry /\ status' = "compiling"
  BY DEF Continue
<1>2. agenda \in Seq(TaskType) /\ agenda # <<>> /\ Held(agenda, chunk)
  BY DEF IInv, Typed
<1>3. /\ agenda' \in Seq(TaskType) /\ Len(tasks) \in Nat /\ Len(agenda) \in Nat
      /\ Len(agenda') = Len(tasks) + Len(agenda) - 1
      /\ \A k \in 1 .. Len(tasks) : agenda'[k] = tasks[k]
  BY <1>1, <1>2, AgendaIndex
<1>4. agenda' # <<>>
  <2>1. CASE Now.do = "program"
    <3>1. Len(tasks) >= 1
      BY <2>1
    <3>2. Len(agenda) >= 1
      BY <1>2
    <3>. QED  BY <3>1, <3>2, <1>3
  <2>2. CASE Now.do # "program"
    <3>1. Len(agenda) >= 2
      BY <2>2, <1>2, NotLast DEF Now
    <3>. QED  BY <3>1, <1>3
  <2>. QED  BY <2>1, <2>2
<1>5. Typed'
  BY <1>1, <1>3 DEF IInv, Typed, ParserType
<1>6. Held(agenda, chunk)' /\ Paired(agenda, chunk)'
  BY <1>1
<1>7. \A h \in Headers(chunk) : h \in Headers(c) /\ c.code[h].name = chunk.code[h].name
  BY DEF Preserves, Headers
<1>8. Registered'
  <2>1. ASSUME NEW name \in registry
        PROVE  \/ \E h \in Headers(c) : c.code[h].name = name
               \/ agenda'[1].do \in Reading /\ agenda'[1].name = name
    <3>1. CASE \E h \in Headers(chunk) : chunk.code[h].name = name
      BY <3>1, <1>7
    <3>2. CASE Now.do \in Reading /\ Now.name = name
      <4>1. CASE tasks # <<>> /\ tasks[1].do \in Reading /\ tasks[1].name = Now.name
        <5>1. 1 \in 1 .. Len(tasks)
          BY <4>1
        <5>. QED  BY <5>1, <4>1, <3>2, <1>3
      <4>2. CASE \E h \in Headers(c) : c.code[h].name = Now.name
        BY <4>2, <3>2
      <4>. QED  BY <3>2, <4>1, <4>2
    <3>. QED  BY <3>1, <3>2 DEF IInv, Registered, Reading
  <2>. QED  BY <2>1, <1>1, <1>4 DEF Registered, Now, Reading
<1>9. CallsFollowHeaders'
  <2>1. ASSUME NEW o \in Starts(c), c.code[o].op = "OP_FUNCTION_CALL"
        PROVE  \E h \in Headers(c) : h < o /\ c.code[h].name = c.code[o].name
    <3>1. \E h \in Headers(chunk) : h < o /\ chunk.code[h].name = c.code[o].name
      <4>1. CASE o \in Starts(chunk)
        BY <2>1, <4>1 DEF Preserves, IInv, CallsFollowHeaders, Writing
      <4>2. CASE o \notin Starts(chunk)
        BY <2>1, <4>2 DEF Preserves
      <4>. QED  BY <4>1, <4>2
    <3>. QED  BY <3>1, <1>7
  <2>. QED  BY <2>1, <1>1 DEF CallsFollowHeaders
<1>10. Finished'
  BY <1>1 DEF Finished
<1>. QED  BY <1>1, <1>4, <1>5, <1>6, <1>8, <1>9, <1>10 DEF IInv

LEMMA WritePreserves ==
  ASSUME NEW c, Solid(c), NEW i \in Instruction(Names),
         i.op = "OP_FUNCTION_CALL" => \E h \in Headers(c) : c.code[h].name = i.name
  PROVE  Preserves(c, Write(c, i))
<1>. DEFINE w == Write(c, i)
<1>1. /\ Starts(w) = Ends(c) /\ w.code[c.size] = i
      /\ \A o \in Starts(c) : w.code[o] = c.code[o]
  BY WriteFacts
<1>2. \A h \in Headers(c) : h < c.size
  BY DEF Solid, Headers
<1>. HIDE DEF w
<1>3. Preserves(c, w)
  BY <1>1, <1>2 DEF Preserves, Ends
<1>. QED  BY <1>3 DEF w

LEMMA PatchPreserves ==
  ASSUME NEW c, Solid(c), NEW o \in Starts(c), NEW n \in Nat, NEW w, w = Patch(c, o, n)
  PROVE  Preserves(c, w)
<1>1. Patched(c, o, n, w)
  BY PatchFacts
<1>. QED  BY <1>1 DEF Patched, Preserves

LEMMA PreservesAgain ==
  ASSUME NEW c, NEW w, NEW v, Preserves(c, w), Preserves(w, v),
         \A o \in Starts(v) \ Starts(w) : v.code[o].op # "OP_FUNCTION_CALL"
  PROVE  Preserves(c, v)
BY DEF Preserves

\* The tasks that Stay and Emit are about.
Plain == Deeds \ ({"program", "blockLoop", "block"} \cup Patchers)

LEMMA StayStep ==
  ASSUME IInv, status = "compiling", agenda # <<>>, Now.do \in Plain,
         NEW p \in ParserType, NEW tasks, AllFree(tasks, chunk), Continue(p, chunk, tasks),
         Now.do \in Reading => tasks # <<>> /\ tasks[1].do \in Reading /\ tasks[1].name = Now.name
  PROVE  IInv'
<1>1. Preserves(chunk, chunk)
  BY DEF Preserves
<1>2. Held(tasks \o Tail(agenda), chunk) /\ Paired(tasks \o Tail(agenda), chunk)
  BY Stay DEF IInv, Typed, AllFree, Now, Plain
<1>. QED  BY <1>1, <1>2, ContinueKeeps DEF AllFree, Plain

LEMMA EmitStep ==
  ASSUME IInv, status = "compiling", agenda # <<>>, Now.do \in Plain \ Reading,
         NEW p \in ParserType, NEW tasks, NEW i \in Instruction(Names),
         NEW w, w = Write(chunk, i), AllFree(tasks, w), Continue(p, w, tasks),
         i.op \notin JumpOps \cup ScopeOps \cup {"OP_DEC_FUNCTION", "OP_RETURN"},
         i.op = "OP_FUNCTION_CALL" =>
           Now.do = "declaration" /\ \E h \in Headers(chunk) : chunk.code[h].name = i.name
  PROVE  IInv'
<1>1. Solid(chunk)
  BY DEF IInv, Held, Sound
<1>2. Preserves(chunk, w)
  BY <1>1, WritePreserves
<1>3. Held(tasks \o Tail(agenda), w) /\ Paired(tasks \o Tail(agenda), w)
  BY Emit DEF IInv, Typed, AllFree, Now, Plain
<1>. QED  BY <1>2, <1>3, ContinueKeeps DEF AllFree, Plain

\* What is true of the first task of an agenda that is not empty.
LEMMA Doings ==
  ASSUME IInv, NEW do, Doing(do)
  PROVE  /\ status = "compiling" /\ agenda # <<>> /\ Now.do = do /\ Now \in TaskType
         /\ agenda \in Seq(TaskType) /\ parser \in ParserType /\ source \in Sources
         /\ Solid(chunk) /\ chunk.size \in Nat
         /\ Held(agenda, chunk) /\ Paired(agenda, chunk)
<1>1. /\ status = "compiling" /\ agenda # <<>> /\ Now.do = do
      /\ agenda \in Seq(TaskType) /\ parser \in ParserType /\ source \in Sources
      /\ Held(agenda, chunk) /\ Paired(agenda, chunk)
  BY DEF IInv, Typed, Doing
<1>2. Now \in TaskType
  BY <1>1 DEF Now
<1>3. Solid(chunk) /\ chunk.size \in Nat
  BY <1>1 DEF Held, Sound, Solid
<1>. QED  BY <1>1, <1>2, <1>3

-----------------------------------------------------------------------------
(* Steps that leave the chunk alone *)

\* Tasks made from a name alone.
LEMMA PlainTasks ==
  ASSUME NEW do \in Deeds
  PROVE  /\ Task(do) \in TaskType /\ Task(do).do = do
         /\ do \notin {"program", "declaration", "blockLoop", "body", "prefix", "infix", "binary"}
                        \cup Patchers =>
              \A c : Free(Task(do), c)
BY TaskKinds DEF Free

LEMMA ProgramKeeps ==
  ASSUME IInv, Program
  PROVE  IInv'
<1>. DEFINE tasks == <<Task("declaration"), Task("program")>>
<1>1. Doing("program") /\ Continue(parser, chunk, tasks)
  BY DEF Program
<1>2. /\ tasks \in Seq(TaskType) /\ Len(tasks) = 2 /\ tasks # <<>>
      /\ tasks[1].do = "declaration" /\ tasks[2].do = "program"
  BY PlainTasks DEF Deeds
<1>. HIDE DEF tasks
<1>3. Held(tasks \o Tail(agenda), chunk) /\ Paired(tasks \o Tail(agenda), chunk)
  BY <1>1, <1>2, Doings, StayInProgram DEF Now
<1>4. Preserves(chunk, chunk) /\ "program" \notin Reading
  BY DEF Preserves, Reading
<1>. QED  BY <1>1, <1>2, <1>3, <1>4, Doings, ContinueKeeps

LEMMA BlockLoopKeeps ==
  ASSUME IInv, BlockLoop
  PROVE  IInv'
<1>. DEFINE tasks == <<Task("declaration"), Task("blockLoop")>>
<1>1. Doing("blockLoop") /\ Continue(parser, chunk, tasks)
  BY DEF BlockLoop
<1>2. /\ tasks \in Seq(TaskType) /\ Len(tasks) = 2 /\ tasks # <<>>
      /\ tasks[1].do = "declaration" /\ tasks[2].do = "blockLoop"
  BY PlainTasks DEF Deeds
<1>. HIDE DEF tasks
<1>3. Held(tasks \o Tail(agenda), chunk) /\ Paired(tasks \o Tail(agenda), chunk)
  BY <1>1, <1>2, Doings, StayInBlock DEF Now
<1>4. Preserves(chunk, chunk) /\ "blockLoop" \notin Reading
  BY DEF Preserves, Reading
<1>. QED  BY <1>1, <1>2, <1>3, <1>4, Doings, ContinueKeeps

LEMMA EndOfFileKeeps ==
  ASSUME IInv, EndOfFile
  PROVE  IInv'
<1>. DEFINE p == advanceParser(SkipNewlines(parser))
<1>1. Doing("declaration") /\ Continue(p, chunk, <<>>)
  BY DEF EndOfFile, Declaration
<1>2. p \in ParserType
  BY <1>1, Doings, ParserMoves
<1>3. "declaration" \in Plain /\ "declaration" \notin Reading
  BY DEF Plain, Deeds, Patchers, Reading
<1>. HIDE DEF p
<1>. QED  BY <1>1, <1>2, <1>3, Doings, FreeSequences, StayStep

LEMMA OtherStatementKeeps ==
  ASSUME IInv, OtherStatement
  PROVE  IInv'
<1>. DEFINE p == SkipNewlines(parser)
            tasks == <<Task("statement")>>
<1>1. Doing("declaration") /\ Continue(p, chunk, tasks)
  BY DEF OtherStatement, Declaration
<1>2. p \in ParserType
  BY <1>1, Doings, ParserMoves
<1>3. "declaration" \in Plain /\ "declaration" \notin Reading
  BY DEF Plain, Deeds, Patchers, Reading
<1>4. AllFree(tasks, chunk)
  BY PlainTasks, FreeSequences DEF Deeds, Patchers
<1>. HIDE DEF p, tasks
<1>. QED  BY <1>1, <1>2, <1>3, <1>4, Doings, StayStep

\* The tasks of an assignment.
LEMMA AssignmentTasks ==
  ASSUME NEW name \in Names, NEW c
  PROVE  AllFree(<<Expression, [Task("set") EXCEPT !.name = name]>>, c)
<1>. DEFINE t == [Task("set") EXCEPT !.name = name]
<1>1. "set" \in Deeds
  BY DEF Deeds
<1>2. t \in TaskType /\ t.do = "set"
  BY <1>1, TaskKinds
<1>. HIDE DEF t
<1>3. Free(t, c) /\ t.do \notin Openers
  BY <1>2 DEF Free, Openers, Patchers
<1>. QED  BY <1>2, <1>3, ExpressionTasks, FreeSequences DEF t

LEMMA KeywordKeeps ==
  ASSUME IInv, NEW type, NEW tasks, AllFree(tasks \o <<Task("newlines")>>, chunk),
         Keyword(type, tasks)
  PROVE  IInv'
<1>. DEFINE p == advanceParser(parser)
            all == tasks \o <<Task("newlines")>>
<1>1. Doing("statement") /\ Continue(p, chunk, all)
  BY DEF Keyword
<1>2. p \in ParserType
  BY <1>1, Doings, ParserMoves
<1>3. "statement" \in Plain /\ "statement" \notin Reading
  BY DEF Plain, Deeds, Patchers, Reading
<1>. HIDE DEF p, all
<1>4. AllFree(all, chunk)
  BY DEF all
<1>. QED  BY <1>1, <1>2, <1>3, <1>4, Doings, StayStep

\* A statement reads an expression, or opens a block, before what comes after it.
LEMMA StatementsKeep ==
  ASSUME IInv, IfStatement \/ WhileStatement \/ PrintStatement \/ BlockStatement
  PROVE  IInv'
<1>. DEFINE newlines == Task("newlines")
<1>1. \A c : Free(newlines, c)
  BY PlainTasks DEF Deeds, Patchers
<1>2. newlines \in TaskType /\ newlines.do \notin Openers
  BY PlainTasks DEF Deeds, Openers
<1>. HIDE DEF newlines
<1>3. CASE IfStatement
  <2>. DEFINE t == Task("then")
  <2>1. Free(t, chunk) /\ t \in TaskType /\ t.do \notin Openers
    BY PlainTasks DEF Deeds, Patchers, Openers
  <2>. HIDE DEF t
  <2>2. AllFree(<<Expression, t, newlines>>, chunk)
    BY <2>1, <1>1, <1>2, ExpressionTasks, FreeSequences
  <2>3. <<Expression, t>> \o <<newlines>> = <<Expression, t, newlines>>
    BY <2>1, <1>2, ExpressionTasks, LongerByOne
  <2>. QED  BY <2>2, <2>3, <1>3, KeywordKeeps DEF IfStatement, t, newlines
<1>4. CASE WhileStatement
  <2>. DEFINE t == [Task("body") EXCEPT !.n = chunk.size]
  <2>1. t \in TaskType /\ t.do = "body" /\ t.n = chunk.size
    <3>1. chunk.size \in Nat
      BY DEF IInv, Held, Sound, Solid
    <3>. QED  BY <3>1, TaskKinds DEF Deeds
  <2>. HIDE DEF t
  <2>2. Free(t, chunk) /\ t.do \notin Openers
    BY <2>1 DEF Free, Patchers, Openers
  <2>3. AllFree(<<Expression, t, newlines>>, chunk)
    BY <2>1, <2>2, <1>1, <1>2, ExpressionTasks, FreeSequences
  <2>4. <<Expression, t>> \o <<newlines>> = <<Expression, t, newlines>>
    BY <2>1, <1>2, ExpressionTasks, LongerByOne
  <2>. QED  BY <2>3, <2>4, <1>4, KeywordKeeps DEF WhileStatement, t, newlines
<1>5. CASE PrintStatement
  <2>. DEFINE t == Task("print")
  <2>1. Free(t, chunk) /\ t \in TaskType /\ t.do \notin Openers
    BY PlainTasks DEF Deeds, Patchers, Openers
  <2>. HIDE DEF t
  <2>2. AllFree(<<Expression, t, newlines>>, chunk)
    BY <2>1, <1>1, <1>2, ExpressionTasks, FreeSequences
  <2>3. <<Expression, t>> \o <<newlines>> = <<Expression, t, newlines>>
    BY <2>1, <1>2, ExpressionTasks, LongerByOne
  <2>. QED  BY <2>2, <2>3, <1>5, KeywordKeeps DEF PrintStatement, t, newlines
<1>6. CASE BlockStatement
  <2>. DEFINE t == Task("block")
  <2>1. Free(t, chunk) /\ t \in TaskType
    BY PlainTasks DEF Deeds, Patchers
  <2>. HIDE DEF t
  <2>2. AllFree(<<t, newlines>>, chunk)
    BY <2>1, <1>1, <1>2, FreeSequences
  <2>3. <<t>> \o <<newlines>> = <<t, newlines>>
    BY <2>1, <1>2, LongerByOne
  <2>. QED  BY <2>2, <2>3, <1>6, KeywordKeeps DEF BlockStatement, t, newlines
<1>. QED  BY <1>3, <1>4, <1>5, <1>6

LEMMA ExpressionStatementKeeps ==
  ASSUME IInv, ExpressionStatement
  PROVE  IInv'
<1>. DEFINE tasks == <<Expression, Task("pop"), Task("newlines")>>
<1>1. Doing("statement") /\ Continue(parser, chunk, tasks)
  BY DEF ExpressionStatement
<1>2. AllFree(tasks, chunk)
  <2>1. /\ Free(Task("pop"), chunk) /\ Task("pop") \in TaskType /\ Task("pop").do \notin Openers
        /\ Free(Task("newlines"), chunk) /\ Task("newlines") \in TaskType
        /\ Task("newlines").do \notin Openers
    BY PlainTasks DEF Deeds, Patchers, Openers
  <2>. QED  BY <2>1, ExpressionTasks, FreeSequences
<1>3. "statement" \in Plain /\ "statement" \notin Reading
  BY DEF Plain, Deeds, Patchers, Reading
<1>. HIDE DEF tasks
<1>. QED  BY <1>1, <1>2, <1>3, Doings, StayStep

LEMMA NewlinesKeeps ==
  ASSUME IInv, Newlines
  PROVE  IInv'
<1>. DEFINE p == SkipNewlines(parser)
<1>1. Doing("newlines") /\ Continue(p, chunk, <<>>)
  BY DEF Newlines
<1>2. p \in ParserType
  BY <1>1, Doings, ParserMoves
<1>3. "newlines" \in Plain /\ "newlines" \notin Reading
  BY DEF Plain, Deeds, Patchers, Reading
<1>. HIDE DEF p
<1>. QED  BY <1>1, <1>2, <1>3, Doings, FreeSequences, StayStep

LEMMA CloseKeeps ==
  ASSUME IInv, Close
  PROVE  IInv'
<1>. DEFINE p == consumeIf(parser, {"TK_PAREN_CLOSE"})
<1>1. Doing("close") /\ Continue(p, chunk, <<>>)
  BY DEF Close
<1>2. p \in ParserType
  BY <1>1, Doings, ParserMoves
<1>3. "close" \in Plain /\ "close" \notin Reading
  BY DEF Plain, Deeds, Patchers, Reading
<1>. HIDE DEF p
<1>. QED  BY <1>1, <1>2, <1>3, Doings, FreeSequences, StayStep

-----------------------------------------------------------------------------
(* Statements that write one instruction *)

\* An instruction that neither jumps nor moves between scopes or bodies.
Ordinary(i) == /\ i \in Instruction(Names)
               /\ i.op \notin JumpOps \cup ScopeOps \cup
                                {"OP_DEC_FUNCTION", "OP_RETURN", "OP_FUNCTION_CALL"}

LEMMA OrdinaryInstructions ==
  /\ \A op \in BinaryOps \cup UnaryOps \cup {"OP_TRUE", "OP_FALSE", "OP_POP", "OP_PRINT"} :
       Ordinary(Simple(op))
  /\ \A n \in Nat : Ordinary(Literal("OP_NUMBER", n)) /\ Ordinary(Literal("OP_STRING", n))
  /\ \A x \in Names : /\ Ordinary(Named("OP_GET_VARIABLE", x))
                      /\ Ordinary(Named("OP_SET_VARIABLE", x))
                      /\ Ordinary(Named("OP_DEF_VARIABLE", x))
<1>1. ASSUME NEW op \in BinaryOps \cup UnaryOps \cup {"OP_TRUE", "OP_FALSE", "OP_POP", "OP_PRINT"}
      PROVE  Ordinary(Simple(op))
  <2>1. op \in OpCode /\ op \notin JumpOps \cup ScopeOps \cup
                                     {"OP_DEC_FUNCTION", "OP_RETURN", "OP_FUNCTION_CALL"}
    BY DEF OpCode, BinaryOps, UnaryOps, JumpOps, ScopeOps, ValueOps, ConsumerOps
  <2>. QED  BY <2>1, InstructionTypes, InstructionFields DEF Ordinary
<1>2. ASSUME NEW op \in {"OP_NUMBER", "OP_STRING", "OP_GET_VARIABLE", "OP_SET_VARIABLE",
                         "OP_DEF_VARIABLE"}
      PROVE  op \in OpCode /\ op \notin JumpOps \cup ScopeOps \cup
                                          {"OP_DEC_FUNCTION", "OP_RETURN", "OP_FUNCTION_CALL"}
  BY DEF OpCode, JumpOps, ScopeOps, ValueOps, NameOps
<1>3. ASSUME NEW n \in Nat
      PROVE  Ordinary(Literal("OP_NUMBER", n)) /\ Ordinary(Literal("OP_STRING", n))
  BY <1>2, InstructionTypes, InstructionFields DEF Ordinary
<1>4. ASSUME NEW x \in Names
      PROVE  /\ Ordinary(Named("OP_GET_VARIABLE", x)) /\ Ordinary(Named("OP_SET_VARIABLE", x))
             /\ Ordinary(Named("OP_DEF_VARIABLE", x))
  BY <1>2, InstructionTypes, InstructionFields DEF Ordinary
<1>. QED  BY <1>1, <1>3, <1>4

LEMMA OrdinaryStep ==
  ASSUME IInv, NEW do \in Plain \ Reading, Doing(do), NEW p \in ParserType, NEW tasks,
         NEW i, Ordinary(i), AllFree(tasks, Write(chunk, i)), Continue(p, Write(chunk, i), tasks)
  PROVE  IInv'
BY Doings, EmitStep DEF Ordinary

LEMMA ValuesUsedKeep ==
  ASSUME IInv, SetVariable \/ PopValue \/ PrintValue
  PROVE  IInv'
<1>0. {"set", "pop", "print"} \subseteq Plain \ Reading
  BY DEF Plain, Deeds, Patchers, Reading
<1>1. CASE SetVariable
  <2>1. Doing("set")
    BY <1>1 DEF SetVariable
  <2>2. Now.name \in Names
    BY <2>1, Doings, TaskFields
  <2>3. Ordinary(Named("OP_SET_VARIABLE", Now.name))
    BY <2>2, OrdinaryInstructions
  <2>4. consumeIf(parser, Terminators) \in ParserType
    BY <2>1, Doings, ParserMoves
  <2>. QED  BY <1>0, <1>1, <2>1, <2>3, <2>4, OrdinaryStep, FreeSequences DEF SetVariable
<1>2. CASE PopValue
  <2>1. Doing("pop")
    BY <1>2 DEF PopValue
  <2>2. Ordinary(Simple("OP_POP"))
    BY OrdinaryInstructions
  <2>3. consumeIf(parser, Terminators) \in ParserType
    BY <2>1, Doings, ParserMoves
  <2>. QED  BY <1>0, <1>2, <2>1, <2>2, <2>3, OrdinaryStep, FreeSequences DEF PopValue
<1>3. CASE PrintValue
  <2>1. Doing("print")
    BY <1>3 DEF PrintValue
  <2>2. Ordinary(Simple("OP_PRINT"))
    BY OrdinaryInstructions
  <2>3. parser \in ParserType
    BY <2>1, Doings
  <2>. QED  BY <1>0, <1>3, <2>1, <2>2, <2>3, OrdinaryStep, FreeSequences DEF PrintValue
<1>. QED  BY <1>1, <1>2, <1>3

LEMMA VariableDeclarationKeeps ==
  ASSUME IInv, VariableDeclaration
  PROVE  IInv'
<1>. DEFINE p == consumeIf(advanceParser(SkipNewlines(parser)), {"TK_IDENTIFIER"})
            name == p.previous.text
            c == Write(chunk, Named("OP_DEF_VARIABLE", name))
            q == consumeIf(p, {"TK_ASSIGNMENT"})
            set == <<Expression, [Task("set") EXCEPT !.name = name]>>
<1>1. /\ Doing("declaration")
      /\ Continue(q, c, set) \/ Continue(p, c, <<>>)
  BY DEF VariableDeclaration, Declaration, Assignment
<1>2. p \in ParserType /\ q \in ParserType /\ name \in Names
  <2>1. p \in ParserType
    BY <1>1, Doings, ParserMoves
  <2>. HIDE DEF p
  <2>2. q \in ParserType /\ p.previous \in Token(Names)
    BY <2>1, <1>1, Doings, ParserMoves
  <2>. QED  BY <2>1, <2>2, TokenFields
<1>. HIDE DEF p, q, name
<1>3. Ordinary(Named("OP_DEF_VARIABLE", name))
  BY <1>2, OrdinaryInstructions
<1>4. "declaration" \in Plain \ Reading
  BY DEF Plain, Deeds, Patchers, Reading
<1>5. AllFree(set, c) /\ AllFree(<<>>, c)
  BY <1>2, AssignmentTasks, FreeSequences
<1>. HIDE DEF set
<1>. QED  BY <1>1, <1>2, <1>3, <1>4, <1>5, OrdinaryStep

\* A name in the registry has a header: no function is being read.
LEMMA RegisteredHere ==
  ASSUME IInv, Now.do \notin Reading, NEW name \in registry
  PROVE  \E h \in Headers(chunk) : chunk.code[h].name = name
BY DEF IInv, Registered, Reading

LEMMA NamedStatementKeeps ==
  ASSUME IInv, NamedStatement
  PROVE  IInv'
<1>. DEFINE p == advanceParser(SkipNewlines(parser))
            name == p.previous.text
            i == Named("OP_FUNCTION_CALL", name)
            q == consumeIf(p, {"TK_ASSIGNMENT"})
            set == <<Expression, [Task("set") EXCEPT !.name = name]>>
<1>1. /\ Doing("declaration")
      /\ IF name \in registry THEN Continue(p, Write(chunk, i), <<>>) ELSE Continue(q, chunk, set)
  BY DEF NamedStatement, Declaration, Assignment
<1>2. p \in ParserType /\ q \in ParserType /\ name \in Names
  <2>1. p \in ParserType
    BY <1>1, Doings, ParserMoves
  <2>. HIDE DEF p
  <2>2. q \in ParserType /\ p.previous \in Token(Names)
    BY <2>1, <1>1, Doings, ParserMoves
  <2>. QED  BY <2>1, <2>2, TokenFields
<1>. HIDE DEF p, q, name
<1>3. "declaration" \in Plain \ Reading
  BY DEF Plain, Deeds, Patchers, Reading
<1>4. CASE name \in registry
  <2>1. i \in Instruction(Names) /\ i.op = "OP_FUNCTION_CALL" /\ i.name = name
    <3>1. "OP_FUNCTION_CALL" \in OpCode
      BY DEF OpCode, NameOps
    <3>. QED  BY <3>1, <1>2, InstructionTypes, InstructionFields
  <2>. HIDE DEF i
  <2>2. i.op \notin JumpOps \cup ScopeOps \cup {"OP_DEC_FUNCTION", "OP_RETURN"}
    BY <2>1 DEF JumpOps, ScopeOps
  <2>3. \E h \in Headers(chunk) : chunk.code[h].name = i.name
    BY <2>1, <1>1, <1>3, <1>4, Doings, RegisteredHere
  <2>4. Continue(p, Write(chunk, i), <<>>) /\ AllFree(<<>>, Write(chunk, i))
    BY <1>1, <1>4, FreeSequences
  <2>. QED  BY <2>1, <2>2, <2>3, <2>4, <1>1, <1>2, <1>3, Doings, EmitStep
<1>5. CASE name \notin registry
  <2>1. AllFree(set, chunk) /\ Continue(q, chunk, set)
    BY <1>1, <1>2, <1>5, AssignmentTasks
  <2>. HIDE DEF set
  <2>. QED  BY <2>1, <1>1, <1>2, <1>3, Doings, StayStep
<1>. QED  BY <1>4, <1>5

-----------------------------------------------------------------------------
(* Expressions *)

LEMMA NowFits ==
  ASSUME IInv, NEW do, Doing(do)
  PROVE  /\ do \in {"prefix", "infix"} => Now.n >= 1
         /\ do = "binary" => Now.type \in OperatorTypes
<1>1. PICK place, plan : Planned(agenda, chunk, place, plan)
  BY Doings DEF Held
<1>2. 1 \in 1 .. Len(agenda)
  <2>1. agenda \in Seq(TaskType) /\ agenda # <<>>
    BY Doings
  <2>. QED  BY <2>1
<1>3. Fits(Now, chunk, place, plan[1])
  BY <1>1, <1>2 DEF Planned, Now
<1>. QED  BY <1>3, Doings DEF Fits

LEMMA PrecedenceFacts ==
  ASSUME NEW type
  PROVE  PrecedenceOf(type) \in Nat /\ (PrecedenceOf(type) >= 1 => type \in OperatorTypes)
BY DEF PrecedenceOf, OperatorTypes, PREC_NONE, PREC_OR, PREC_AND, PREC_XOR, PREC_EQUALITY,
       PREC_COMPARISON, PREC_TERM, PREC_FACTOR

LEMMA OperandCodes ==
  ASSUME NEW t \in Token(Names), t.type \in OperandTypes
  PROVE  Ordinary(OperandCode(t))
<1>1. t.text \in Names /\ t.n \in Nat
  BY TokenFields
<1>2. CASE t.type = "TK_NUMBER"
  BY <1>1, <1>2, OrdinaryInstructions DEF OperandCode
<1>3. CASE t.type = "TK_STRING"
  BY <1>1, <1>3, OrdinaryInstructions DEF OperandCode
<1>4. CASE t.type = "TK_BOOLEAN"
  BY <1>4, OrdinaryInstructions DEF OperandCode
<1>5. CASE t.type = "TK_IDENTIFIER"
  BY <1>1, <1>5, OrdinaryInstructions DEF OperandCode
<1>. QED  BY <1>2, <1>3, <1>4, <1>5 DEF OperandTypes

LEMMA PrefixRuleKeeps ==
  ASSUME IInv, PrefixRule
  PROVE  IInv'
<1>. DEFINE p == advanceParser(parser)
            t == p.previous
            infix == Infix(Now.n)
            unary == Operator("unary", t.type)
            close == Task("close")
<1>1. /\ Doing("prefix")
      /\ \/ t.type \in OperandTypes /\ Continue(p, Write(chunk, OperandCode(t)), <<infix>>)
         \/ Continue(p, chunk, <<Expression, close, infix>>)
         \/ Continue(p, chunk, <<Prefix(PREC_UNARY), unary, infix>>)
         \/ Continue(p, chunk, <<>>)
  BY DEF PrefixRule
<1>2. p \in ParserType /\ t \in Token(Names)
  BY <1>1, Doings, ParserMoves
<1>3. infix \in TaskType /\ infix.do \notin Openers /\ \A c : Free(infix, c)
  <2>1. Now.n \in Nat \ {0}
    BY <1>1, Doings, NowFits, TaskFields
  <2>2. infix \in TaskType /\ \A c : Free(infix, c)
    BY <2>1, ExpressionTasks
  <2>3. infix.do = "infix"
    BY <2>1, TaskKinds DEF Infix, Deeds
  <2>. QED  BY <2>2, <2>3 DEF Openers
<1>4. close \in TaskType /\ close.do \notin Openers /\ Free(close, chunk)
  BY PlainTasks DEF Deeds, Patchers, Openers
<1>5. unary \in TaskType /\ unary.do \notin Openers /\ Free(unary, chunk)
  <2>1. t.type \in token_t
    BY <1>2, TokenFields
  <2>2. unary \in TaskType /\ unary.do = "unary"
    BY <2>1, TaskKinds DEF Deeds
  <2>. QED  BY <2>2 DEF Openers, Free, Patchers
<1>6. "prefix" \in Plain \ Reading
  BY DEF Plain, Deeds, Patchers, Reading
<1>. HIDE DEF p, t, infix, unary, close
<1>7. CASE t.type \in OperandTypes /\ Continue(p, Write(chunk, OperandCode(t)), <<infix>>)
  <2>1. Ordinary(OperandCode(t))
    BY <1>2, <1>7, OperandCodes
  <2>2. AllFree(<<infix>>, Write(chunk, OperandCode(t)))
    BY <1>3, FreeSequences
  <2>. QED  BY <2>1, <2>2, <1>1, <1>2, <1>6, <1>7, OrdinaryStep
<1>8. CASE Continue(p, chunk, <<Expression, close, infix>>)
  <2>1. AllFree(<<Expression, close, infix>>, chunk)
    BY <1>3, <1>4, ExpressionTasks, FreeSequences
  <2>. QED  BY <2>1, <1>1, <1>2, <1>6, <1>8, Doings, StayStep
<1>9. CASE Continue(p, chunk, <<Prefix(PREC_UNARY), unary, infix>>)
  <2>1. Prefix(PREC_UNARY) \in TaskType /\ Free(Prefix(PREC_UNARY), chunk)
    BY ExpressionTasks DEF PREC_UNARY
  <2>2. AllFree(<<Prefix(PREC_UNARY), unary, infix>>, chunk)
    BY <2>1, <1>3, <1>5, FreeSequences
  <2>. QED  BY <2>2, <1>1, <1>2, <1>6, <1>9, Doings, StayStep
<1>10. CASE Continue(p, chunk, <<>>)
  BY <1>1, <1>2, <1>6, <1>10, FreeSequences, Doings, StayStep
<1>. QED  BY <1>1, <1>7, <1>8, <1>9, <1>10

LEMMA InfixRuleKeeps ==
  ASSUME IInv, InfixRule
  PROVE  IInv'
<1>. DEFINE type == Current(parser).type
            prefix == Prefix(PrecedenceOf(type) + 1)
            binary == Operator("binary", type)
<1>1. /\ Doing("infix")
      /\ \/ /\ Now.n <= PrecedenceOf(type)
            /\ Continue(advanceParser(parser), chunk, <<prefix, binary, Now>>)
         \/ Continue(parser, chunk, <<>>)
  BY DEF InfixRule
<1>2. "infix" \in Plain \ Reading
  BY DEF Plain, Deeds, Patchers, Reading
<1>3. /\ parser \in ParserType /\ advanceParser(parser) \in ParserType /\ type \in token_t
      /\ Now \in TaskType /\ Now.do = "infix" /\ Now.n \in Nat /\ Now.n >= 1
  <2>1. /\ parser \in ParserType /\ source \in Sources /\ Now \in TaskType /\ Now.do = "infix"
        /\ Now.n >= 1
    BY <1>1, Doings, NowFits
  <2>2. Current(parser) \in Token(Names) /\ advanceParser(parser) \in ParserType
    BY <2>1, ParserMoves
  <2>3. Current(parser).type \in token_t /\ Now.n \in Nat
    BY <2>1, <2>2, TokenFields, TaskFields
  <2>. QED  BY <2>1, <2>2, <2>3
<1>. HIDE DEF type
<1>4. CASE /\ Now.n <= PrecedenceOf(type)
           /\ Continue(advanceParser(parser), chunk, <<prefix, binary, Now>>)
  <2>1. PrecedenceOf(type) \in Nat /\ type \in OperatorTypes
    <3>1. PrecedenceOf(type) \in Nat /\ (PrecedenceOf(type) >= 1 => type \in OperatorTypes)
      BY PrecedenceFacts
    <3>. QED  BY <3>1, <1>3, <1>4
  <2>2. prefix \in TaskType /\ Free(prefix, chunk)
    <3>1. PrecedenceOf(type) + 1 \in Nat \ {0}
      BY <2>1
    <3>. QED  BY <3>1, ExpressionTasks
  <2>3. binary \in TaskType /\ binary.do \notin Openers /\ Free(binary, chunk)
    <3>1. binary \in TaskType /\ binary.do = "binary" /\ binary.type = type
      BY <1>3, TaskKinds DEF Deeds
    <3>. QED  BY <3>1, <2>1 DEF Openers, Free, Patchers
  <2>4. Free(Now, chunk) /\ Now.do \notin Openers
    BY <1>3 DEF Free, Openers, Patchers
  <2>. HIDE DEF prefix, binary
  <2>5. AllFree(<<prefix, binary, Now>>, chunk)
    BY <2>2, <2>3, <2>4, <1>3, FreeSequences
  <2>. QED  BY <2>5, <1>1, <1>2, <1>3, <1>4, Doings, StayStep
<1>5. CASE Continue(parser, chunk, <<>>)
  BY <1>1, <1>2, <1>3, <1>5, FreeSequences, Doings, StayStep
<1>. QED  BY <1>1, <1>4, <1>5

LEMMA UnaryKeeps ==
  ASSUME IInv, Unary
  PROVE  IInv'
<1>1. Doing("unary") /\ Continue(parser, Write(chunk, UnaryCode(Now.type)), <<>>)
  BY DEF Unary
<1>2. Ordinary(UnaryCode(Now.type))
  <2>1. "OP_NEGATE" \in UnaryOps /\ "OP_NOT" \in UnaryOps
    BY DEF UnaryOps
  <2>. QED  BY <2>1, OrdinaryInstructions DEF UnaryCode
<1>3. "unary" \in Plain \ Reading
  BY DEF Plain, Deeds, Patchers, Reading
<1>. QED  BY <1>1, <1>2, <1>3, FreeSequences, Doings, OrdinaryStep

LEMMA BinaryCodes ==
  ASSUME NEW type \in OperatorTypes
  PROVE  \E op \in BinaryOps :
           BinaryCode(type) = <<Simple(op)>> \/ BinaryCode(type) = <<Simple(op), Simple("OP_NOT")>>
<1>1. \E op \in BinaryOps :
        \/ BinaryCode(type) = <<Simple(op)>>
        \/ BinaryCode(type) = <<Simple(op), Simple("OP_NOT")>>
  <2>. HIDE DEF Simple
  <2>. QED  BY DEF BinaryCode, OperatorTypes, BinaryOps
<1>. QED  BY <1>1

LEMMA SameAgain ==
  ASSUME NEW S, NEW s \in Seq(S), s # <<>>
  PROVE  <<s[1]>> \o Tail(s) = s
<1>. DEFINE t == <<s[1]>> \o Tail(s)
<1>1. Tail(s) \in Seq(S) /\ Len(Tail(s)) = Len(s) - 1 /\ Len(s) \in Nat /\ Len(s) >= 1 /\ s[1] \in S
  OBVIOUS
<1>2. <<s[1]>> \in Seq(S) /\ Len(<<s[1]>>) = 1
  BY <1>1
<1>3. t \in Seq(S) /\ Len(t) = Len(s)
  BY <1>1, <1>2
<1>4. ASSUME NEW k \in 1 .. Len(s)
      PROVE  t[k] = s[k]
  <2>1. CASE k = 1
    BY <2>1, <1>1, <1>2
  <2>2. CASE k # 1
    <3>1. k - 1 \in 1 .. Len(Tail(s)) /\ k > 1 /\ k <= 1 + Len(Tail(s))
      BY <2>2, <1>1
    <3>2. t[k] = Tail(s)[k - 1]
      BY <3>1, <1>1, <1>2
    <3>. QED  BY <3>1, <3>2, <1>1
  <2>. QED  BY <2>1, <2>2
<1>. HIDE DEF t
<1>5. t = s
  BY <1>3, <1>4, SeqEqual
<1>. QED  BY <1>5 DEF t

LEMMA BinaryKeeps ==
  ASSUME IInv, Binary
  PROVE  IInv'
<1>1. Doing("binary") /\ Continue(parser, WriteAll(chunk, BinaryCode(Now.type)), <<>>)
  BY DEF Binary
<1>2. "binary" \in Plain \ Reading /\ "binary" \notin {"program", "blockLoop", "block"} \cup Patchers
  BY DEF Plain, Deeds, Patchers, Reading
<1>3. Now.type \in OperatorTypes
  BY <1>1, NowFits
<1>4. PICK op \in BinaryOps : \/ BinaryCode(Now.type) = <<Simple(op)>>
                              \/ BinaryCode(Now.type) = <<Simple(op), Simple("OP_NOT")>>
  BY <1>3, BinaryCodes
<1>. DEFINE i == Simple(op)
            j == Simple("OP_NOT")
<1>5. Ordinary(i) /\ Ordinary(j)
  BY OrdinaryInstructions DEF UnaryOps
<1>. HIDE DEF i, j
<1>6. CASE BinaryCode(Now.type) = <<i>>
  <2>1. WriteAll(chunk, BinaryCode(Now.type)) = Write(chunk, i)
    BY <1>6 DEF WriteAll
  <2>. QED  BY <2>1, <1>1, <1>2, <1>5, Doings, FreeSequences, OrdinaryStep
<1>7. CASE BinaryCode(Now.type) = <<i, j>>
  <2>. DEFINE w == Write(chunk, i)
              v == Write(w, j)
              ag == <<Now>> \o Tail(agenda)
  <2>1. WriteAll(chunk, BinaryCode(Now.type)) = v
    BY <1>7 DEF WriteAll
  <2>2. Solid(chunk) /\ Solid(w)
    BY <1>1, <1>5, Doings, WriteFacts DEF Ordinary
  <2>3. Preserves(chunk, v)
    <3>1. Preserves(chunk, w) /\ Preserves(w, v)
      BY <2>2, <1>5, WritePreserves DEF Ordinary
    <3>2. \A o \in Starts(v) \ Starts(w) : v.code[o].op # "OP_FUNCTION_CALL"
      BY <2>2, <1>5, WriteFacts DEF Ordinary, Ends
    <3>. QED  BY <3>1, <3>2, PreservesAgain
  <2>4. Free(Now, w) /\ Now \in TaskType
    BY <1>1, <1>2, <1>3, Doings DEF Free, Patchers
  <2>5. AllFree(<<Now>>, w) /\ AllFree(<<>>, v)
    BY <2>4, FreeSequences
  <2>6. ag = agenda
    BY <1>1, Doings, SameAgain DEF Now
  <2>7. Held(ag, w) /\ Paired(ag, w)
    BY <2>5, <1>1, <1>2, <1>5, Doings, Emit DEF Ordinary, AllFree, Now
  <2>8. Held(agenda, w) /\ Paired(agenda, w)
    BY <2>6, <2>7, Zenon
  <2>9. Held(<<>> \o Tail(agenda), v) /\ Paired(<<>> \o Tail(agenda), v)
    <3>. HIDE DEF w
    <3>. QED  BY <2>5, <2>8, <1>1, <1>2, <1>5, Doings, Emit DEF Ordinary, AllFree, Now
  <2>10. Continue(parser, v, <<>>)
    BY <2>1, <1>1
  <2>. HIDE DEF v, w, ag
  <2>11. <<>> \in Seq(TaskType) /\ Now.do # "program" /\ Now.do \notin Reading
    BY <1>1, <1>2, Doings
  <2>. QED  BY <2>3, <2>9, <2>10, <2>11, <1>1, Doings, ContinueKeeps
<1>. QED  BY <1>4, <1>6, <1>7 DEF i, j

-----------------------------------------------------------------------------
(* The head of a function *)

LEMMA FunctionNameKeeps ==
  ASSUME IInv, FunctionName
  PROVE  IInv'
<1>. DEFINE p == advanceParser(advanceParser(parser))
            name == p.previous.text
            t == [Task("params") EXCEPT !.name = name]
            tasks == <<t, Task("newlines")>>
<1>1. /\ Doing("statement") /\ parser' = p /\ registry' = registry \cup {name}
      /\ agenda' = tasks \o Tail(agenda)
      /\ source' = source /\ chunk' = chunk /\ status' = status
  BY DEF FunctionName
<1>2. p \in ParserType /\ name \in Names
  <2>1. advanceParser(parser) \in ParserType /\ source \in Sources
    BY <1>1, Doings, ParserMoves
  <2>2. p \in ParserType /\ p.previous \in Token(Names)
    BY <2>1, ParserMoves
  <2>. QED  BY <2>2, TokenFields
<1>. HIDE DEF p, name
<1>3. t \in TaskType /\ t.do = "params" /\ t.name = name
  BY <1>2, TaskKinds DEF Deeds
<1>. HIDE DEF t
<1>4. AllFree(tasks, chunk)
  <2>1. Free(t, chunk)
    BY <1>3 DEF Free, Patchers
  <2>2. /\ Task("newlines") \in TaskType /\ Free(Task("newlines"), chunk)
        /\ Task("newlines").do \notin Openers
    BY PlainTasks DEF Deeds, Patchers, Openers
  <2>. QED  BY <2>1, <2>2, <1>3, FreeSequences
<1>5. Len(tasks) = 2 /\ tasks[1] = t
  OBVIOUS
<1>. HIDE DEF tasks
<1>6. "statement" \in Plain \ Reading
  BY DEF Plain, Deeds, Patchers, Reading
<1>7. Held(agenda', chunk) /\ Paired(agenda', chunk)
  <2>1. /\ agenda \in Seq(TaskType) /\ agenda # <<>> /\ Held(agenda, chunk)
        /\ Paired(agenda, chunk)
        /\ agenda[1].do \notin {"program", "blockLoop", "block"} \cup Patchers
    BY <1>1, <1>6, Doings DEF Plain, Now
  <2>2. Held(tasks \o Tail(agenda), chunk) /\ Paired(tasks \o Tail(agenda), chunk)
    BY <2>1, <1>4, Stay DEF AllFree
  <2>. QED  BY <2>2, <1>1
<1>8. agenda' \in Seq(TaskType) /\ agenda'[1] = t /\ agenda' # <<>>
  <2>1. tasks \in Seq(TaskType) /\ agenda \in Seq(TaskType) /\ agenda # <<>>
    BY <1>1, <1>4, Doings DEF AllFree
  <2>2. /\ agenda' \in Seq(TaskType) /\ Len(agenda') = Len(tasks) + Len(agenda) - 1
        /\ Len(agenda) \in Nat /\ Len(agenda) >= 1
        /\ \A k \in 1 .. Len(tasks) : agenda'[k] = tasks[k]
    BY <1>1, <2>1, AgendaIndex
  <2>3. Len(agenda') >= 2 /\ agenda'[1] = tasks[1]
    BY <2>2, <1>5
  <2>. QED  BY <2>2, <2>3, <1>5
<1>9. Typed'
  BY <1>1, <1>2, <1>8 DEF IInv, Typed, ParserType
<1>10. Held(agenda, chunk)' /\ Paired(agenda, chunk)'
  BY <1>1, <1>7
<1>11. Registered'
  <2>1. ASSUME NEW x \in registry
        PROVE  \E h \in Headers(chunk) : chunk.code[h].name = x
    BY <1>1, <1>6, Doings, RegisteredHere
  <2>. QED  BY <2>1, <1>1, <1>3, <1>8 DEF Registered, Now
<1>12. CallsFollowHeaders' /\ Finished'
  BY <1>1, Doings DEF IInv, CallsFollowHeaders, Finished, Writing
<1>. QED  BY <1>1, <1>8, <1>9, <1>10, <1>11, <1>12 DEF IInv

\* The head goes on: the name stays with the task.
LEMMA HeadStep ==
  ASSUME IInv, NEW do \in Reading \ {"header"}, Doing(do), NEW p \in ParserType,
         NEW t \in TaskType, t.do \in Reading, t.name = Now.name, Continue(p, chunk, <<t>>)
  PROVE  IInv'
<1>1. do \in Plain
  BY DEF Plain, Deeds, Patchers, Reading
<1>2. AllFree(<<t>>, chunk)
  <2>1. Free(t, chunk)
    BY DEF Free, Reading, Patchers
  <2>. QED  BY <2>1, FreeSequences
<1>3. <<t>> # <<>> /\ <<t>>[1] = t
  OBVIOUS
<1>. QED  BY <1>1, <1>2, <1>3, Doings, StayStep

LEMMA HeadsKeep ==
  ASSUME IInv, Parameter \/ EndParameters \/ ReturnType \/ EndReturnTypes
  PROVE  IInv'
<1>0. {"params", "returns"} \subseteq Reading \ {"header"} /\ Reading \subseteq Deeds
  BY DEF Reading, Deeds
<1>1. CASE Parameter
  <2>. DEFINE p == advanceParser(parser)
              name == IF Check(p, {"TK_IDENTIFIER"}) THEN Current(p).text ELSE ""
              t == [Now EXCEPT !.params = Append(Now.params, name)]
  <2>1. Doing("params") /\ Continue(advanceParser(p), chunk, <<t>>)
    BY <1>1 DEF Parameter, InParameters
  <2>2. advanceParser(p) \in ParserType /\ name \in Names
    <3>1. p \in ParserType /\ source \in Sources
      BY <2>1, Doings, ParserMoves
    <3>2. Current(p) \in Token(Names) /\ advanceParser(p) \in ParserType
      BY <3>1, ParserMoves
    <3>. QED  BY <3>2, TokenFields, NamesAssumption
  <2>. HIDE DEF p, name
  <2>3. t \in TaskType /\ t.do = "params" /\ t.name = Now.name
    <3>1. Now \in TaskType /\ Now.do = "params"
      BY <2>1, Doings
    <3>2. Append(Now.params, name) \in Seq(Names)
      BY <3>1, <2>2, TaskFields
    <3>. QED  BY <3>1, <3>2 DEF TaskType
  <2>. HIDE DEF t
  <2>. QED  BY <1>0, <2>1, <2>2, <2>3, HeadStep
<1>2. CASE EndParameters
  <2>. DEFINE t == [Now EXCEPT !.do = "returns"]
              u == [Now EXCEPT !.do = "header"]
  <2>1. /\ Doing("params")
        /\ Continue(advanceParser(parser), chunk, <<t>>) \/ Continue(parser, chunk, <<u>>)
    BY <1>2 DEF EndParameters
  <2>2. /\ t \in TaskType /\ t.do = "returns" /\ t.name = Now.name
        /\ u \in TaskType /\ u.do = "header" /\ u.name = Now.name
    <3>1. Now \in TaskType /\ "returns" \in Deeds /\ "header" \in Deeds
      BY <2>1, Doings DEF Deeds
    <3>. QED  BY <3>1 DEF TaskType
  <2>. HIDE DEF t, u
  <2>3. parser \in ParserType /\ advanceParser(parser) \in ParserType
    BY <2>1, Doings, ParserMoves
  <2>. QED  BY <1>0, <2>1, <2>2, <2>3, HeadStep DEF Reading
<1>3. CASE ReturnType
  <2>. DEFINE t == [Now EXCEPT !.rets = Now.rets + 1]
  <2>1. Doing("returns") /\ Continue(advanceParser(parser), chunk, <<t>>)
    BY <1>3 DEF ReturnType, InReturnTypes
  <2>2. t \in TaskType /\ t.do = "returns" /\ t.name = Now.name
    <3>1. Now \in TaskType /\ Now.do = "returns"
      BY <2>1, Doings
    <3>2. Now.rets + 1 \in Nat
      BY <3>1, TaskFields
    <3>. QED  BY <3>1, <3>2 DEF TaskType
  <2>. HIDE DEF t
  <2>3. advanceParser(parser) \in ParserType
    BY <2>1, Doings, ParserMoves
  <2>. QED  BY <1>0, <2>1, <2>2, <2>3, HeadStep
<1>4. CASE EndReturnTypes
  <2>. DEFINE t == [Now EXCEPT !.do = "header"]
  <2>1. Doing("returns") /\ Continue(parser, chunk, <<t>>)
    BY <1>4 DEF EndReturnTypes
  <2>2. t \in TaskType /\ t.do = "header" /\ t.name = Now.name
    <3>1. Now \in TaskType /\ "header" \in Deeds
      BY <2>1, Doings DEF Deeds
    <3>. QED  BY <3>1 DEF TaskType
  <2>. HIDE DEF t
  <2>3. parser \in ParserType
    BY <2>1, Doings
  <2>. QED  BY <1>0, <2>1, <2>2, <2>3, HeadStep DEF Reading
<1>. QED  BY <1>1, <1>2, <1>3, <1>4

-----------------------------------------------------------------------------
(* Jumps *)

\* What a task has to patch is in the chunk.
LEMMA NowPatches ==
  ASSUME IInv, NEW do \in Patchers, Doing(do)
  PROVE  Now.at \in Starts(chunk) /\ Now.at \in Nat /\ chunk.size - Now.at \in Nat
<1>1. PICK place, plan : Planned(agenda, chunk, place, plan)
  BY Doings DEF Held
<1>2. 1 \in 1 .. Len(agenda)
  <2>1. agenda \in Seq(TaskType) /\ agenda # <<>>
    BY Doings
  <2>. QED  BY <2>1
<1>3. Fits(Now, chunk, place, plan[1])
  BY <1>1, <1>2 DEF Planned, Now
<1>4. Now.at \in Starts(chunk)
  BY <1>3, Doings DEF Fits, Awaits, Patchers
<1>5. Now.at \in 0 .. chunk.size - 1 /\ chunk.size \in Nat
  BY <1>4, Doings DEF Solid
<1>. QED  BY <1>4, <1>5

LEMMA PatchJumpPreserves ==
  ASSUME NEW c, Solid(c), NEW o \in Starts(c)
  PROVE  Preserves(c, patchJump(c, o)) /\ Starts(patchJump(c, o)) = Starts(c)
<1>1. Distance(c, o) \in Nat
  BY DEF Distance, Solid
<1>2. Patched(c, o, Distance(c, o), patchJump(c, o))
  BY <1>1, PatchFacts DEF patchJump
<1>3. Preserves(c, patchJump(c, o))
  BY <1>1, PatchPreserves DEF patchJump
<1>. QED  BY <1>2, <1>3 DEF Patched

LEMMA JumpInstruction ==
  ASSUME NEW op \in JumpOps, NEW n \in Nat
  PROVE  /\ Literal(op, n) \in Instruction(Names) /\ Literal(op, n).op = op
         /\ Literal(op, n).op # "OP_FUNCTION_CALL"
<1>1. op \in OpCode /\ op # "OP_FUNCTION_CALL"
  BY DEF JumpOps, OpCode
<1>. QED  BY <1>1, InstructionTypes, InstructionFields

\* A statement, and the task that patches the jump before it.
LEMMA BranchTasks ==
  ASSUME NEW t \in TaskType, t.do \in {"else", "patch", "loop"}
  PROVE  LET tasks == <<Task("statement"), t>>
         IN  /\ tasks \in Seq(TaskType) /\ Len(tasks) = 2 /\ tasks # <<>>
             /\ tasks[1] = Task("statement") /\ tasks[2] = t
             /\ \A k \in 1 .. 1 : \A c : Free(tasks[k], c)
             /\ \A k \in 2 .. 2 : tasks[k].do \notin Openers
<1>1. Task("statement") \in TaskType /\ \A c : Free(Task("statement"), c)
  BY PlainTasks DEF Deeds, Patchers
<1>2. t.do \notin Openers
  BY DEF Openers
<1>. HIDE DEF Task, Free, Openers
<1>. QED  BY <1>1, <1>2

\* The way out of a condition or of a loop is written, and its branch comes next.
LEMMA BranchStep ==
  ASSUME IInv, NEW do, Doing(do),
         NEW t \in TaskType, t.at = chunk.size,
         \/ do = "then" /\ t.do = "else"
         \/ do = "body" /\ t.do = "loop" /\ t.n = Now.n,
         Continue(parser, Write(chunk, Literal("OP_JUMP_IF_FALSE", Unpatched)),
                  <<Task("statement"), t>>)
  PROVE  IInv'
<1>. DEFINE tasks == <<Task("statement"), t>>
            op == "OP_JUMP_IF_FALSE"
            w == Write(chunk, Literal(op, Unpatched))
<1>1. /\ tasks \in Seq(TaskType) /\ Len(tasks) = 2 /\ tasks # <<>>
      /\ tasks[1] = Task("statement") /\ tasks[2] = t
      /\ \A k \in 1 .. 1 : \A c : Free(tasks[k], c)
      /\ \A k \in 2 .. 2 : tasks[k].do \notin Openers
  BY BranchTasks
<1>. HIDE DEF tasks
<1>2. /\ do \notin {"program", "blockLoop", "block", "endFunction"} /\ do \notin Patchers
      /\ do \notin Reading
  BY DEF Patchers, Reading
<1>3. op \in {"OP_JUMP", "OP_JUMP_IF_FALSE"} /\ op \in JumpOps /\ Unpatched \in Nat
  BY DEF JumpOps, Unpatched
<1>4. Preserves(chunk, w)
  BY <1>3, Doings, JumpInstruction, WritePreserves
<1>5. /\ agenda \in Seq(TaskType) /\ agenda # <<>> /\ Held(agenda, chunk) /\ Paired(agenda, chunk)
      /\ agenda[1].do = do /\ agenda[1] = Now
  BY Doings DEF Now
<1>6. \A k \in 1 .. 2 - 1 : Free(tasks[k], w) \/ (k = 1 /\ tasks[k] = agenda[1])
  BY <1>1
<1>7. /\ tasks[2].at = chunk.size
      /\ \/ tasks[2].do \in {"else", "patch"}
         \/ tasks[2].do = "loop" /\ agenda[1].do = "body" /\ tasks[2].n = agenda[1].n
  BY <1>1, <1>5
<1>. HIDE DEF w, op
<1>8. Held(tasks \o Tail(agenda), w) /\ Paired(tasks \o Tail(agenda), w)
  <2>1. 2 = Len(tasks) /\ 2 >= 2 /\ agenda[1].do \notin Patchers /\ w = Write(chunk, Literal(op, Unpatched))
    BY <1>1, <1>2, <1>5 DEF w
  <2>. QED  BY <2>1, <1>1, <1>2, <1>3, <1>5, <1>6, <1>7, OpenJump
<1>9. Continue(parser, w, tasks)
  BY DEF w, tasks, op
<1>. QED  BY <1>1, <1>2, <1>4, <1>8, <1>9, Doings, ContinueKeeps

LEMMA BranchesKeep ==
  ASSUME IInv, Then \/ LoopBody
  PROVE  IInv'
<1>1. CASE Then
  <2>. DEFINE t == At("else", chunk.size)
  <2>1. /\ Doing("then")
        /\ Continue(parser, Write(chunk, Literal("OP_JUMP_IF_FALSE", Unpatched)),
                    <<Task("statement"), t>>)
    BY <1>1 DEF Then
  <2>2. t \in TaskType /\ t.do = "else" /\ t.at = chunk.size
    BY <2>1, Doings, TaskKinds DEF Deeds
  <2>. HIDE DEF t
  <2>. QED  BY <2>1, <2>2, BranchStep
<1>2. CASE LoopBody
  <2>. DEFINE t == [At("loop", chunk.size) EXCEPT !.n = Now.n]
  <2>1. /\ Doing("body")
        /\ Continue(parser, Write(chunk, Literal("OP_JUMP_IF_FALSE", Unpatched)),
                    <<Task("statement"), t>>)
    BY <1>2 DEF LoopBody
  <2>2. t \in TaskType /\ t.do = "loop" /\ t.at = chunk.size /\ t.n = Now.n
    <3>1. Now.n \in Nat /\ chunk.size \in Nat
      BY <2>1, Doings, TaskFields
    <3>. QED  BY <3>1, TaskKinds DEF Deeds
  <2>. HIDE DEF t
  <2>. QED  BY <2>1, <2>2, BranchStep
<1>. QED  BY <1>1, <1>2

LEMMA PatchJumpKeeps ==
  ASSUME IInv, PatchJump
  PROVE  IInv'
<1>. DEFINE w == patchJump(chunk, Now.at)
<1>1. Doing("patch") /\ Distance(chunk, Now.at) <= JumpMax /\ Continue(parser, w, <<>>)
  BY DEF PatchJump
<1>2. "patch" \in Patchers /\ "patch" \notin Reading
  BY DEF Patchers, Reading
<1>3. Preserves(chunk, w)
  BY <1>1, <1>2, Doings, NowPatches, PatchJumpPreserves
<1>4. Held(<<>> \o Tail(agenda), w) /\ Paired(<<>> \o Tail(agenda), w)
  BY <1>1, Doings, PatchStep DEF Now
<1>5. <<>> \in Seq(TaskType)
  OBVIOUS
<1>6. Now.do # "program" /\ Now.do \notin Reading
  BY <1>1, <1>2, Doings
<1>. HIDE DEF w
<1>. QED  BY <1>1, <1>3, <1>4, <1>5, <1>6, Doings, ContinueKeeps

LEMMA DropFirst ==
  ASSUME NEW S, NEW s \in S, NEW t \in S, NEW u \in S, NEW rest \in Seq(S),
         NEW all, all = <<s, t, u>> \o rest
  PROVE  all \in Seq(S) /\ all # <<>> /\ all[1] = s /\ <<>> \o Tail(all) = <<t, u>> \o rest
<1>1. <<s, t, u>> \in Seq(S) /\ Len(<<s, t, u>>) = 3 /\ <<t, u>> \in Seq(S) /\ Len(<<t, u>>) = 2
  OBVIOUS
<1>2. /\ all \in Seq(S) /\ Len(all) = 3 + Len(rest) /\ Len(rest) \in Nat
      /\ \A k \in 1 .. Len(all) : all[k] = IF k <= 3 THEN <<s, t, u>>[k] ELSE rest[k - 3]
  BY <1>1
<1>3. all # <<>> /\ all[1] = s
  <2>1. 1 \in 1 .. Len(all) /\ 1 <= 3
    BY <1>2
  <2>2. all[1] = <<s, t, u>>[1]
    BY <2>1, <1>2
  <2>. QED  BY <2>1, <2>2, <1>2
<1>4. /\ Tail(all) \in Seq(S) /\ Len(Tail(all)) = 2 + Len(rest)
      /\ \A k \in 1 .. 2 + Len(rest) : Tail(all)[k] = all[k + 1]
  <2>1. /\ Tail(all) \in Seq(S) /\ Len(Tail(all)) = Len(all) - 1
        /\ \A k \in 1 .. Len(all) - 1 : Tail(all)[k] = all[k + 1]
    BY <1>2, <1>3
  <2>2. Len(all) - 1 = 2 + Len(rest)
    BY <1>2
  <2>. QED  BY <2>1, <2>2
<1>. DEFINE more == <<t, u>> \o rest
<1>5. /\ more \in Seq(S) /\ Len(more) = 2 + Len(rest)
      /\ \A k \in 1 .. 2 + Len(rest) : more[k] = IF k <= 2 THEN <<t, u>>[k] ELSE rest[k - 2]
  BY <1>1
<1>. HIDE DEF more
<1>6. ASSUME NEW k \in 1 .. 2 + Len(rest)
      PROVE  Tail(all)[k] = more[k]
  <2>1. k + 1 \in 1 .. Len(all) /\ (k + 1) - 3 = k - 2 /\ (k + 1 <= 3 <=> k <= 2)
    BY <1>2
  <2>2. Tail(all)[k] = IF k <= 2 THEN <<s, t, u>>[k + 1] ELSE rest[k - 2]
    BY <2>1, <1>2, <1>4
  <2>3. k <= 2 => <<s, t, u>>[k + 1] = <<t, u>>[k]
    <3>1. k <= 2 => k = 1 \/ k = 2
      BY <1>2
    <3>. QED  BY <3>1
  <2>. QED  BY <2>2, <2>3, <1>5
<1>7. Tail(all) = more
  BY <1>4, <1>5, <1>6, SeqEqual
<1>8. <<>> \o Tail(all) = Tail(all)
  BY <1>4, ConcatEmptySeq
<1>. QED  BY <1>2, <1>3, <1>7, <1>8 DEF more

LEMMA ElseKeeps ==
  ASSUME IInv, Else
  PROVE  IInv'
<1>. DEFINE jump == Literal("OP_JUMP", Unpatched)
            w == Write(chunk, jump)
            v == patchJump(w, Now.at)
            branch == <<Task("statement"), At("patch", chunk.size)>>
<1>1. /\ Doing("else")
      /\ \/ /\ Distance(w, Now.at) <= JumpMax
            /\ Continue(advanceParser(parser), v, branch)
         \/ /\ Distance(chunk, Now.at) <= JumpMax
            /\ Continue(parser, patchJump(chunk, Now.at), <<>>)
  BY DEF Else
<1>2. "else" \in Patchers /\ "else" \notin Reading
  BY DEF Patchers, Reading
<1>3. Now.at \in Starts(chunk)
  BY <1>1, <1>2, NowPatches
<1>4. /\ agenda \in Seq(TaskType) /\ agenda # <<>> /\ Held(agenda, chunk) /\ Paired(agenda, chunk)
      /\ agenda[1] = Now /\ Now \in TaskType /\ Now.do = "else" /\ Solid(chunk)
      /\ parser \in ParserType /\ advanceParser(parser) \in ParserType
  BY <1>1, Doings, ParserMoves DEF Now
<1>5. CASE Distance(chunk, Now.at) <= JumpMax /\ Continue(parser, patchJump(chunk, Now.at), <<>>)
  <2>. DEFINE x == patchJump(chunk, Now.at)
  <2>1. Preserves(chunk, x)
    BY <1>3, <1>4, PatchJumpPreserves
  <2>2. Held(<<>> \o Tail(agenda), x) /\ Paired(<<>> \o Tail(agenda), x)
    BY <1>4, <1>5, PatchStep
  <2>3. <<>> \in Seq(TaskType) /\ Now.do # "program"
    BY <1>4
  <2>. HIDE DEF x
  <2>4. Continue(parser, x, <<>>)
    BY <1>5 DEF x
  <2>. QED  BY <2>1, <2>2, <2>3, <2>4, <1>1, <1>2, <1>4, Doings, ContinueKeeps
<1>6. CASE Distance(w, Now.at) <= JumpMax /\ Continue(advanceParser(parser), v, branch)
  <2>. DEFINE patch == At("patch", chunk.size)
              tasks == <<Now, Task("statement"), patch>>
              ag == tasks \o Tail(agenda)
  <2>1. patch \in TaskType /\ patch.do = "patch" /\ patch.at = chunk.size
    BY <1>1, Doings, TaskKinds DEF Deeds
  <2>2. /\ jump \in Instruction(Names) /\ jump.op # "OP_FUNCTION_CALL"
        /\ "OP_JUMP" \in {"OP_JUMP", "OP_JUMP_IF_FALSE"}
    BY JumpInstruction DEF JumpOps, Unpatched
  <2>3. Solid(w) /\ Now.at \in Starts(w)
    BY <2>2, <1>3, <1>4, WriteFacts DEF Ends
  <2>4. Preserves(chunk, v)
    <3>1. Preserves(chunk, w)
      BY <2>2, <1>4, WritePreserves
    <3>2. Preserves(w, v) /\ Starts(v) = Starts(w)
      BY <2>3, PatchJumpPreserves
    <3>. HIDE DEF v, w
    <3>. QED  BY <3>1, <3>2, PreservesAgain
  <2>5. Task("statement") \in TaskType /\ \A c : Free(Task("statement"), c)
    BY PlainTasks DEF Deeds, Patchers
  <2>6. Task("statement").do \notin Openers /\ patch.do \notin Openers
    BY <2>1, PlainTasks DEF Deeds, Openers
  <2>. HIDE DEF patch
  <2>7. /\ tasks \in Seq(TaskType) /\ 3 = Len(tasks) /\ 3 >= 2
        /\ tasks[1] = Now /\ tasks[2] = Task("statement") /\ tasks[3] = patch
    BY <2>1, <2>5, <1>4
  <2>. HIDE DEF tasks
  <2>8. /\ \A k \in 1 .. 3 - 1 : Free(tasks[k], w) \/ (k = 1 /\ tasks[k] = agenda[1])
        /\ \A k \in 2 .. 3 : tasks[k].do \notin Openers
    <3>1. (\A k \in 1 .. 3 - 1 : k = 1 \/ k = 2) /\ (\A k \in 2 .. 3 : k = 2 \/ k = 3)
      OBVIOUS
    <3>. QED  BY <3>1, <2>5, <2>6, <2>7, <1>4
  <2>9. Held(ag, w) /\ Paired(ag, w)
    <3>1. agenda[1].do \notin {"program", "blockLoop", "block", "endFunction"}
      BY <1>4
    <3>2. /\ agenda[1].do \in Patchers => tasks[1] = agenda[1]
          /\ tasks[3].at = chunk.size /\ tasks[3].do \in {"else", "patch"}
      BY <2>1, <2>7, <1>4
    <3>3. w = Write(chunk, Literal("OP_JUMP", Unpatched))
      OBVIOUS
    <3>. HIDE DEF w, jump
    <3>. QED  BY <3>1, <3>2, <3>3, <2>2, <2>7, <2>8, <1>4, OpenJump
  <2>10. /\ ag \in Seq(TaskType) /\ ag # <<>> /\ ag[1] = Now
         /\ <<>> \o Tail(ag) = <<Task("statement"), patch>> \o Tail(agenda)
    <3>1. Tail(agenda) \in Seq(TaskType) /\ ag = <<Now, Task("statement"), patch>> \o Tail(agenda)
      BY <1>4 DEF tasks
    <3>. HIDE DEF ag, tasks
    <3>. QED  BY <3>1, <2>1, <2>5, <1>4, DropFirst
  <2>. HIDE DEF ag
  <2>11. Held(<<>> \o Tail(ag), v) /\ Paired(<<>> \o Tail(ag), v)
    <3>1. ag[1].do \in {"else", "patch", "loop"} /\ Distance(w, ag[1].at) <= JumpMax
      BY <2>10, <1>4, <1>6
    <3>2. v = patchJump(w, ag[1].at)
      BY <2>10
    <3>. HIDE DEF v, w
    <3>. QED  BY <3>1, <3>2, <2>9, <2>10, PatchStep
  <2>12. branch \in Seq(TaskType) /\ branch = <<Task("statement"), patch>>
    BY <2>1, <2>5 DEF patch
  <2>. HIDE DEF branch, v
  <2>13. Held(branch \o Tail(agenda), v) /\ Paired(branch \o Tail(agenda), v)
    BY <2>10, <2>11, <2>12
  <2>. QED  BY <2>4, <2>12, <2>13, <1>1, <1>2, <1>4, <1>6, Doings, ContinueKeeps
<1>. QED  BY <1>1, <1>5, <1>6

LEMMA LoopKeeps ==
  ASSUME IInv, Loop
  PROVE  IInv'
<1>. DEFINE n == Distance(chunk, Now.n)
            w == emitLoop(chunk, Now.n)
            v == patchJump(w, Now.at)
            ag == <<Now>> \o Tail(agenda)
<1>1. /\ Doing("loop") /\ n <= JumpMax /\ Distance(w, Now.at) <= JumpMax
      /\ Continue(parser, v, <<>>)
  BY DEF Loop
<1>2. "loop" \in Patchers /\ "loop" \notin Reading
  BY DEF Patchers, Reading
<1>3. Now.at \in Starts(chunk)
  BY <1>1, <1>2, NowPatches
<1>4. /\ agenda \in Seq(TaskType) /\ agenda # <<>> /\ Held(agenda, chunk) /\ Paired(agenda, chunk)
      /\ agenda[1] = Now /\ Now \in TaskType /\ Now.do = "loop" /\ Solid(chunk)
      /\ parser \in ParserType
  BY <1>1, Doings DEF Now
<1>5. ag = agenda
  BY <1>4, SameAgain
<1>6. Held(ag, w) /\ Paired(ag, w)
  <2>1. <<Now>> \in Seq(TaskType) /\ <<Now>> = <<agenda[1]>> /\ Distance(chunk, agenda[1].n) <= JumpMax
    BY <1>1, <1>4
  <2>2. agenda[1].do = "loop"
    BY <1>4
  <2>3. LET x == emitLoop(chunk, agenda[1].n)
        IN  Held(<<Now>> \o Tail(agenda), x) /\ Paired(<<Now>> \o Tail(agenda), x)
    BY <2>1, <2>2, <1>4, EmitLoop
  <2>. QED  BY <2>3, <1>4
<1>7. Held(agenda, w) /\ Paired(agenda, w)
  BY <1>5, <1>6, Zenon
<1>8. Held(<<>> \o Tail(agenda), v) /\ Paired(<<>> \o Tail(agenda), v)
  <2>1. /\ agenda[1].do \in {"else", "patch", "loop"} /\ Distance(w, agenda[1].at) <= JumpMax
        /\ v = patchJump(w, agenda[1].at)
    BY <1>1, <1>4
  <2>. HIDE DEF v, w
  <2>. QED  BY <2>1, <1>4, <1>7, PatchStep
<1>9. Preserves(chunk, v)
  <2>1. n \in Nat
    <3>1. PICK place, plan : Sound(chunk, place) /\ Planned(agenda, chunk, place, plan)
      BY <1>4 DEF Held
    <3>2. 1 \in 1 .. Len(agenda)
      BY <1>4
    <3>3. Fits(Now, chunk, place, plan[1])
      BY <3>1, <3>2, <1>4 DEF Planned
    <3>4. Now.n \in Ends(chunk)
      BY <3>3, <1>4 DEF Fits
    <3>5. chunk.size \in Nat /\ Now.n \in Nat /\ Now.n <= chunk.size
      BY <3>1, <3>4, PlaceTypes
    <3>. QED  BY <3>5 DEF Distance
  <2>2. Literal("OP_LOOP", n) \in Instruction(Names) /\ Literal("OP_LOOP", n).op # "OP_FUNCTION_CALL"
    BY <2>1, JumpInstruction DEF JumpOps
  <2>3. w = Write(chunk, Literal("OP_LOOP", n))
    BY DEF emitLoop
  <2>4. Preserves(chunk, w)
    BY <2>2, <2>3, <1>4, WritePreserves
  <2>5. Solid(w) /\ Now.at \in Starts(w)
    BY <2>2, <2>3, <1>3, <1>4, WriteFacts DEF Ends
  <2>6. Preserves(w, v) /\ Starts(v) = Starts(w)
    BY <2>5, PatchJumpPreserves
  <2>. HIDE DEF v, w
  <2>. QED  BY <2>4, <2>6, PreservesAgain
<1>10. <<>> \in Seq(TaskType) /\ Now.do # "program" /\ Now.do \notin Reading
  BY <1>2, <1>4
<1>. HIDE DEF v, w
<1>. QED  BY <1>1, <1>4, <1>8, <1>9, <1>10, Doings, ContinueKeeps

-----------------------------------------------------------------------------
(* Scopes and functions *)

LEMMA ScopeInstructions ==
  /\ \A op \in {"OP_ENTER_SCOPE", "OP_EXIT_SCOPE", "OP_RETURN"} :
       /\ Simple(op) \in Instruction(Names) /\ Simple(op).op = op
       /\ op # "OP_FUNCTION_CALL"
BY InstructionTypes, InstructionFields DEF OpCode, ScopeOps

LEMMA BlockKeeps ==
  ASSUME IInv, Block
  PROVE  IInv'
<1>. DEFINE p == SkipNewlines(parser)
            tasks == <<Task("blockLoop")>>
            i == Simple("OP_ENTER_SCOPE")
            w == Write(chunk, i)
<1>1. Doing("block") /\ Continue(p, w, tasks)
  BY DEF Block
<1>2. tasks \in Seq(TaskType) /\ Len(tasks) = 1 /\ tasks[1].do = "blockLoop"
  BY PlainTasks DEF Deeds
<1>3. p \in ParserType
  BY <1>1, Doings, ParserMoves
<1>4. i \in Instruction(Names) /\ i.op # "OP_FUNCTION_CALL"
  BY ScopeInstructions
<1>5. Preserves(chunk, w)
  BY <1>1, <1>4, Doings, WritePreserves
<1>. HIDE DEF tasks, p
<1>6. /\ agenda \in Seq(TaskType) /\ agenda # <<>> /\ Held(agenda, chunk) /\ Paired(agenda, chunk)
      /\ agenda[1].do = "block" /\ Now.do # "program" /\ Now.do \notin Reading
  BY <1>1, Doings DEF Now, Reading
<1>7. Held(tasks \o Tail(agenda), w) /\ Paired(tasks \o Tail(agenda), w)
  BY <1>2, <1>6, EnterBlock
<1>. HIDE DEF w
<1>. QED  BY <1>1, <1>2, <1>3, <1>5, <1>6, <1>7, Doings, ContinueKeeps

LEMMA EndBlockKeeps ==
  ASSUME IInv, EndBlock
  PROVE  IInv'
<1>. DEFINE p == SkipNewlines(consumeIf(parser, {"TK_BRACE_CLOSE"}))
            i == Simple("OP_EXIT_SCOPE")
            w == Write(chunk, i)
<1>1. Doing("blockLoop") /\ Continue(p, w, <<>>)
  BY DEF EndBlock
<1>2. <<>> \in Seq(TaskType)
  OBVIOUS
<1>3. p \in ParserType
  <2>1. consumeIf(parser, {"TK_BRACE_CLOSE"}) \in ParserType /\ source \in Sources
    BY <1>1, Doings, ParserMoves
  <2>. QED  BY <2>1, ParserMoves
<1>4. i \in Instruction(Names) /\ i.op # "OP_FUNCTION_CALL"
  BY ScopeInstructions
<1>5. Preserves(chunk, w)
  BY <1>1, <1>4, Doings, WritePreserves
<1>. HIDE DEF p
<1>6. /\ agenda \in Seq(TaskType) /\ agenda # <<>> /\ Held(agenda, chunk) /\ Paired(agenda, chunk)
      /\ agenda[1].do = "blockLoop" /\ Now.do # "program" /\ Now.do \notin Reading
  BY <1>1, Doings DEF Now, Reading
<1>7. Held(<<>> \o Tail(agenda), w) /\ Paired(<<>> \o Tail(agenda), w)
  BY <1>2, <1>6, LeaveBlock
<1>. HIDE DEF w
<1>. QED  BY <1>1, <1>2, <1>3, <1>5, <1>6, <1>7, Doings, ContinueKeeps

LEMMA FunctionHeaderKeeps ==
  ASSUME IInv, FunctionHeader
  PROVE  IInv'
<1>. DEFINE p == consumeIf(parser, {"TK_BRACE_OPEN"})
            i == Header(Now.name, Now.params, Now.rets, Unpatched)
            w == Write(chunk, i)
            tasks == <<Task("block"), At("endFunction", chunk.size)>>
<1>1. Doing("header") /\ Continue(p, w, tasks)
  BY DEF FunctionHeader
<1>2. /\ tasks \in Seq(TaskType) /\ Len(tasks) = 2 /\ tasks # <<>> /\ tasks[1].do = "block"
      /\ tasks[2].do = "endFunction" /\ tasks[2].at = chunk.size
  <2>. DEFINE s == Task("block")
              t == At("endFunction", chunk.size)
  <2>1. s \in TaskType /\ s.do = "block"
    BY PlainTasks DEF Deeds
  <2>2. t \in TaskType /\ t.do = "endFunction" /\ t.at = chunk.size
    BY <1>1, Doings, TaskKinds DEF Deeds
  <2>. HIDE DEF s, t
  <2>3. tasks = <<s, t>>
    BY DEF s, t
  <2>. QED  BY <2>1, <2>2, <2>3
<1>3. p \in ParserType
  BY <1>1, Doings, ParserMoves
<1>4. i \in Instruction(Names) /\ i.op = "OP_DEC_FUNCTION" /\ i.n = Unpatched /\ i.name = Now.name
  <2>1. Now.name \in Names /\ Now.params \in Seq(Names) /\ Now.rets \in Nat /\ Unpatched \in Nat
    BY <1>1, Doings, TaskFields DEF Unpatched
  <2>2. i \in Instruction(Names)
    BY <2>1, InstructionTypes
  <2>. QED  BY <2>2, InstructionFields
<1>. HIDE DEF tasks, p, i
<1>5. Preserves(chunk, w)
  BY <1>1, <1>4, Doings, WritePreserves
<1>6. /\ agenda \in Seq(TaskType) /\ agenda # <<>> /\ Held(agenda, chunk) /\ Paired(agenda, chunk)
      /\ agenda[1].do = "header" /\ Now.do # "program"
  BY <1>1, Doings DEF Now
<1>7. Held(tasks \o Tail(agenda), w) /\ Paired(tasks \o Tail(agenda), w)
  BY <1>2, <1>4, <1>6, OpenFunction
<1>8. \E h \in Headers(w) : w.code[h].name = Now.name
  <2>1. Starts(w) = Ends(chunk) /\ w.code[chunk.size] = i
    BY <1>1, <1>4, Doings, WriteFacts
  <2>2. chunk.size \in Headers(w) /\ w.code[chunk.size].name = Now.name
    BY <2>1, <1>4 DEF Headers, Ends
  <2>. QED  BY <2>2
<1>. HIDE DEF w
<1>. QED  BY <1>1, <1>2, <1>3, <1>5, <1>6, <1>7, <1>8, Doings, ContinueKeeps

LEMMA EndFunctionKeeps ==
  ASSUME IInv, EndFunction
  PROVE  IInv'
<1>. DEFINE i == Simple("OP_RETURN")
            w == Write(chunk, i)
            n == Distance(w, Now.at + 1)
            v == Patch(w, Now.at, n)
<1>1. Doing("endFunction") /\ n <= JumpMax /\ Continue(parser, v, <<>>)
  BY DEF EndFunction
<1>2. "endFunction" \in Patchers /\ "endFunction" \notin Reading
  BY DEF Patchers, Reading
<1>3. Now.at \in Starts(chunk) /\ Now.at \in Nat /\ chunk.size - Now.at \in Nat
  BY <1>1, <1>2, NowPatches
<1>4. /\ agenda \in Seq(TaskType) /\ agenda # <<>> /\ Held(agenda, chunk) /\ Paired(agenda, chunk)
      /\ agenda[1] = Now /\ Now.do = "endFunction" /\ Now.do # "program" /\ Now.do \notin Reading
      /\ Solid(chunk) /\ chunk.size \in Nat /\ parser \in ParserType
  BY <1>1, <1>2, Doings DEF Now
<1>5. i \in Instruction(Names) /\ i.op # "OP_FUNCTION_CALL"
  BY ScopeInstructions
<1>6. /\ Solid(w) /\ Starts(w) = Ends(chunk) /\ w.size \in Nat /\ chunk.size < w.size
  BY <1>4, <1>5, WriteFacts
<1>7. n \in Nat
  <2>1. w.size - (Now.at + 1) \in Nat
    BY <1>3, <1>4, <1>6
  <2>. QED  BY <2>1 DEF Distance
<1>8. Preserves(chunk, v)
  <2>1. Preserves(chunk, w)
    BY <1>4, <1>5, WritePreserves
  <2>2. Now.at \in Starts(w)
    BY <1>3, <1>6 DEF Ends
  <2>3. Preserves(w, v)
    BY <2>2, <1>6, <1>7, PatchPreserves
  <2>4. Patched(w, Now.at, n, v)
    BY <2>2, <1>6, <1>7, PatchFacts
  <2>5. Starts(v) = Starts(w)
    BY <2>4 DEF Patched
  <2>. HIDE DEF v, w
  <2>. QED  BY <2>1, <2>3, <2>5, PreservesAgain
<1>9. Held(<<>> \o Tail(agenda), v) /\ Paired(<<>> \o Tail(agenda), v)
  <2>1. /\ agenda[1].do = "endFunction" /\ w = Write(chunk, Simple("OP_RETURN"))
        /\ Distance(w, agenda[1].at + 1) <= JumpMax
        /\ v = Patch(w, agenda[1].at, Distance(w, agenda[1].at + 1))
    BY <1>1, <1>4
  <2>2. <<>> \in Seq(TaskType)
    OBVIOUS
  <2>. HIDE DEF v, w, i, n
  <2>. QED  BY <2>1, <2>2, <1>4, CloseFunction
<1>10. <<>> \in Seq(TaskType)
  OBVIOUS
<1>. HIDE DEF v, w, n
<1>. QED  BY <1>1, <1>4, <1>8, <1>9, <1>10, Doings, ContinueKeeps

LEMMA EndCompilerKeeps ==
  ASSUME IInv, EndCompiler
  PROVE  IInv'
<1>. DEFINE i == Simple("OP_RETURN")
            w == Write(chunk, i)
            p == consumeIf(advanceParser(parser), {"TK_EOF"})
<1>1. /\ Doing("program") /\ parser' = p /\ chunk' = w /\ agenda' = <<>> /\ registry' = {}
      /\ status' = "done" /\ source' = source
  BY DEF EndCompiler
<1>2. p \in ParserType
  <2>1. advanceParser(parser) \in ParserType /\ source \in Sources
    BY <1>1, Doings, ParserMoves
  <2>. QED  BY <2>1, ParserMoves
<1>3. /\ agenda \in Seq(TaskType) /\ agenda # <<>> /\ Held(agenda, chunk) /\ Paired(agenda, chunk)
      /\ agenda[1].do = "program" /\ Now.do \notin Reading /\ Solid(chunk)
      /\ status = "compiling"
  BY <1>1, Doings DEF Now, Reading
<1>4. /\ Held(<<>>, w) /\ Paired(<<>>, w)
      /\ w.size - 1 \in Starts(w) /\ w.code[w.size - 1] = Simple("OP_RETURN")
      /\ \A o \in Starts(w) :
           /\ w.code[o].op \in JumpOps => JumpTarget(o, w.code[o]) # w.size
           /\ w.code[o].op = "OP_DEC_FUNCTION" => AfterBody(o, w.code[o]) # w.size
  BY <1>3, EndProgram
<1>5. i \in Instruction(Names) /\ i.op # "OP_FUNCTION_CALL"
  BY ScopeInstructions
<1>6. Preserves(chunk, w)
  BY <1>3, <1>5, WritePreserves
<1>. HIDE DEF w, p
<1>7. Typed'
  BY <1>1, <1>2 DEF IInv, Typed, ParserType
<1>8. Held(agenda, chunk)' /\ Paired(agenda, chunk)' /\ Registered' /\ status' # "compiling"
  BY <1>1, <1>4 DEF Registered
<1>9. CallsFollowHeaders'
  <2>1. ASSUME NEW o \in Starts(w), w.code[o].op = "OP_FUNCTION_CALL"
        PROVE  \E h \in Headers(w) : h < o /\ w.code[h].name = w.code[o].name
    <3>1. \E h \in Headers(chunk) : h < o /\ chunk.code[h].name = w.code[o].name
      <4>1. CASE o \in Starts(chunk)
        BY <2>1, <4>1, <1>3, <1>6 DEF Preserves, IInv, CallsFollowHeaders, Writing
      <4>2. CASE o \notin Starts(chunk)
        BY <2>1, <4>2, <1>6 DEF Preserves
      <4>. QED  BY <4>1, <4>2
    <3>. QED  BY <3>1, <1>6 DEF Preserves, Headers
  <2>. QED  BY <2>1, <1>1 DEF CallsFollowHeaders
<1>10. Finished'
  <2>1. \A o \in Starts(w) : w.code[o].op \in JumpOps \cup {"OP_DEC_FUNCTION"} =>
          (IF w.code[o].op = "OP_DEC_FUNCTION" THEN AfterBody(o, w.code[o])
                                               ELSE JumpTarget(o, w.code[o])) # w.size
    BY <1>4
  <2>. QED  BY <2>1, <1>1, <1>4 DEF Finished, Landing
<1>. QED  BY <1>1, <1>7, <1>8, <1>9, <1>10 DEF IInv

\* The process stops, or has.
LEMMA StopsKeep ==
  ASSUME IInv, WildRule \/ Overrun \/ WildName \/ Misencoded \/ TooFar \/ OutOfMemory \/ UNCHANGED vars
  PROVE  IInv'
<1>1. CASE UNCHANGED vars
  BY <1>1 DEF vars, IInv, Typed, ParserType, Registered, CallsFollowHeaders, Finished, Landing,
              Writing, Now
<1>2. CASE WildRule \/ Overrun \/ WildName \/ Misencoded \/ TooFar \/ OutOfMemory
  <2>1. \E why \in {"wild_rule", "overrun", "wild_name", "misencoded", "too_far", "out_of_memory"} :
          Stop(why)
    BY <1>2 DEF WildRule, Overrun, WildName, Misencoded, TooFar, OutOfMemory
  <2>2. /\ status' \notin {"compiling", "done"}
        /\ UNCHANGED <<source, parser, agenda, chunk, registry>>
    BY <2>1 DEF Stop
  <2>. QED  BY <2>2 DEF IInv, Typed, ParserType, Registered, CallsFollowHeaders, Finished,
                        Writing, Now
<1>. QED  BY <1>1, <1>2

-----------------------------------------------------------------------------
(* The theorems *)

LEMMA InitHolds ==
  ASSUME Init
  PROVE  IInv
<1>. DEFINE c == [code |-> [o \in {} |-> Simple("OP_RETURN")], size |-> 0]
            ag == <<Task("program")>>
            place == [p \in {0} |-> Top]
            plan == [k \in 1 .. 1 |-> Top]
<1>1. source \in Sources /\ agenda = ag /\ chunk = c /\ registry = {} /\ status = "compiling"
  BY DEF Init
<1>2. ag \in Seq(TaskType) /\ Len(ag) = 1 /\ ag # <<>> /\ ag[1].do = "program"
  BY PlainTasks DEF Deeds
<1>. HIDE DEF ag
<1>3. parser \in ParserType
  <2>1. Tk("TK_ERROR") \in Token(Names)
    BY NamesAssumption DEF Tk, Token, token_t
  <2>2. 1 \in 1 .. Len(source)
    BY <1>1, SourceFacts
  <2>3. (source[1].type = "TK_ERROR") \in BOOLEAN
    BY Zenon
  <2>. DEFINE had == source[1].type = "TK_ERROR"
  <2>4. parser = [pos |-> 1, previous |-> Tk("TK_ERROR"), hadError |-> had]
    BY DEF Init
  <2>. HIDE DEF had
  <2>5. had \in BOOLEAN
    BY <2>3 DEF had
  <2>. QED  BY <2>1, <2>2, <2>4, <2>5 DEF ParserType
<1>4. Starts(c) = {} /\ c.size = 0 /\ Ends(c) = {0} /\ Headers(c) = {}
  <2>1. Starts(c) = {} /\ c.size = 0
    BY DEF Starts
  <2>. QED  BY <2>1 DEF Ends, Headers
<1>5. Top \in Place /\ Top.owner = -1 /\ Top.level = 0
  BY DEF Top, Place
<1>6. Sound(c, place)
  <2>1. Solid(c)
    <3>1. c.code \in [{} -> Instruction(Names)] /\ c = [code |-> c.code, size |-> c.size]
      OBVIOUS
    <3>. HIDE DEF c
    <3>. QED  BY <3>1, <1>4 DEF Solid
  <2>. HIDE DEF c
  <2>2. \A p, op : Passed(c, place, p, op) = {}
    BY <1>4 DEF Passed
  <2>3. Counted(c, place)
    BY <2>2, <1>4, <1>5, FS_EmptySet DEF Counted
  <2>4. Owned(c, place)
    BY <1>4, <1>5 DEF Owned, Contains
  <2>. QED  BY <2>1, <2>3, <2>4, <1>4, <1>5 DEF Sound
<1>. HIDE DEF c
<1>7. Planned(ag, c, place, plan)
  <2>1. Fits(ag[1], c, place, Top)
    BY <1>2 DEF Fits
  <2>2. (\A k \in 1 .. Len(ag) : k = 1) /\ 1 .. Len(ag) - 1 = {} /\ 2 .. Len(ag) = {}
    <3>1. (\A k \in 1 .. 1 : k = 1) /\ 1 .. 1 - 1 = {} /\ 2 .. 1 = {}
      OBVIOUS
    <3>. QED  BY <3>1, <1>2, Zenon
  <2>3. plan \in [1 .. Len(ag) -> Place] /\ plan[1] = Top /\ place[c.size] = Top
    BY <1>2, <1>4, <1>5
  <2>. HIDE DEF Fits, After, Headers, FunctionStart, Openers, Top, plan, place
  <2>. QED  BY <2>1, <2>2, <2>3, <1>2, <1>4, <1>5 DEF Planned
<1>8. Paired(ag, c)
  <2>1. \A k \in 1 .. Len(ag) : k = 1
    <3>1. \A k \in 1 .. 1 : k = 1
      OBVIOUS
    <3>. QED  BY <3>1, <1>2, Zenon
  <2>2. WaitingIn(ag) = {} /\ BlanksOf(c) = {}
    BY <2>1, <1>2, <1>4 DEF WaitingIn, BlanksOf, Patchers
  <2>. QED  BY <2>2 DEF Paired
<1>9. Held(agenda, chunk) /\ Paired(agenda, chunk)
  BY <1>1, <1>6, <1>7, <1>8 DEF Held
<1>. QED  BY <1>1, <1>2, <1>3, <1>4, <1>9
          DEF IInv, Typed, Registered, CallsFollowHeaders, Finished

LEMMA StepHolds ==
  ASSUME IInv, [Next]_vars
  PROVE  IInv'
<1>1. CASE Program \/ EndCompiler
  BY <1>1, ProgramKeeps, EndCompilerKeeps
<1>2. CASE EndOfFile \/ VariableDeclaration \/ NamedStatement \/ OtherStatement
  BY <1>2, EndOfFileKeeps, VariableDeclarationKeeps, NamedStatementKeeps, OtherStatementKeeps
<1>3. CASE SetVariable \/ PopValue \/ PrintValue
  BY <1>3, ValuesUsedKeep
<1>4. CASE IfStatement \/ WhileStatement \/ PrintStatement \/ BlockStatement
  BY <1>4, StatementsKeep
<1>5. CASE ExpressionStatement \/ Newlines
  BY <1>5, ExpressionStatementKeeps, NewlinesKeeps
<1>6. CASE Then \/ LoopBody
  BY <1>6, BranchesKeep
<1>7. CASE Else \/ PatchJump \/ Loop
  BY <1>7, ElseKeeps, PatchJumpKeeps, LoopKeeps
<1>8. CASE Block \/ BlockLoop \/ EndBlock
  BY <1>8, BlockKeeps, BlockLoopKeeps, EndBlockKeeps
<1>9. CASE PrefixRule \/ InfixRule \/ Close \/ Unary \/ Binary
  BY <1>9, PrefixRuleKeeps, InfixRuleKeeps, CloseKeeps, UnaryKeeps, BinaryKeeps
<1>10. CASE FunctionName
  BY <1>10, FunctionNameKeeps
<1>11. CASE Parameter \/ EndParameters \/ ReturnType \/ EndReturnTypes
  BY <1>11, HeadsKeep
<1>12. CASE FunctionHeader \/ EndFunction
  BY <1>12, FunctionHeaderKeeps, EndFunctionKeeps
<1>13. CASE \/ WildRule \/ Overrun \/ WildName \/ Misencoded \/ TooFar \/ OutOfMemory
            \/ CountOn \/ Rest \/ UNCHANGED vars
  BY <1>13, StopsKeep DEF CountOn, Rest
<1>. QED  BY <1>1, <1>2, <1>3, <1>4, <1>5, <1>6, <1>7, <1>8, <1>9, <1>10, <1>11, <1>12, <1>13
          DEF Next, Step

\* The compiler's invariant: whatever the source, each offset of the chunk has a place that
\* agrees with the places control comes from, and the tasks on the C stack pair what has been
\* opened with what will close or patch it (compiler.c, from compile() down).
THEOREM Invariant ==
  Spec => []IInv
<1>1. Init => IInv
  BY InitHolds
<1>2. IInv /\ [Next]_vars => IInv'
  BY StepHolds
<1>. QED  BY <1>1, <1>2, PTL DEF Spec

LEMMA IInvLands ==
  ASSUME IInv
  PROVE  JumpsLand
<1>1. Blanks = BlanksOf(chunk) /\ Waiting = WaitingIn(agenda)
  BY DEF Blanks, BlanksOf, Waiting, WaitingIn
<1>2. Blanks = {agenda[k].at : k \in Waiting}
  BY <1>1 DEF IInv, Paired
<1>3. \A j, k \in Waiting : agenda[j].at = agenda[k].at => j = k
  BY <1>1 DEF IInv, Paired
<1>4. ASSUME NEW o \in Starts(chunk) \ Blanks, Writing,
             chunk.code[o].op \in JumpOps \cup {"OP_DEC_FUNCTION"}
      PROVE  Landing(o) \in Starts(chunk) \cup (IF status = "done" THEN {} ELSE {chunk.size})
  <2>1. chunk.code[o].n # Unpatched
    BY <1>4 DEF Blanks
  <2>2. PICK place : Sound(chunk, place)
    BY DEF IInv, Held
  <2>3. Flows(chunk, place, o)
    BY <2>2 DEF Sound
  <2>4. Landing(o) \in Ends(chunk)
    BY <1>4, <2>1, <2>3 DEF Flows, Landing
  <2>5. status = "done" => Landing(o) # chunk.size
    BY <1>4 DEF IInv, Finished
  <2>. QED  BY <2>4, <2>5 DEF Ends
<1>. QED  BY <1>2, <1>3, <1>4 DEF JumpsLand

\* Every jump and function header is patched by exactly one function of the descent, and
\* then leads to the start of an instruction (patchJump(), functionDefinition()).
THEOREM JumpsAlwaysLand ==
  Spec => []JumpsLand
<1>1. IInv => JumpsLand
  BY IInvLands
<1>. QED  BY <1>1, Invariant, PTL

\* A call is only compiled after the header of a function of that name: the registry of
\* functions and the chunk agree, although the name is registered first.
THEOREM CallsAlwaysFollowHeaders ==
  Spec => []CallsFollowHeaders
<1>1. IInv => CallsFollowHeaders
  BY DEF IInv
<1>. QED  BY <1>1, Invariant, PTL

LEMMA IInvSafe ==
  ASSUME IInv, status = "done"
  PROVE  ScopeSafe(chunk) /\ \A o \in Starts(chunk) : StaysInBody(chunk, Levels(chunk), o)
<1>1. agenda = <<>> /\ Paired(agenda, chunk)
  BY DEF IInv, Finished
<1>2. BlanksOf(chunk) = {}
  <2>1. WaitingIn(agenda) = {}
    BY <1>1, EmptyLength DEF WaitingIn
  <2>. QED  BY <2>1, <1>1 DEF Paired
<1>3. PICK place : Sound(chunk, place)
  BY DEF IInv, Held
<1>4. chunk.size - 1 \in Starts(chunk) /\ chunk.code[chunk.size - 1] = Simple("OP_RETURN")
  BY DEF IInv, Finished
<1>5. \A o \in Starts(chunk) :
        /\ chunk.code[o].op \in JumpOps => JumpTarget(o, chunk.code[o]) # chunk.size
        /\ chunk.code[o].op = "OP_DEC_FUNCTION" => AfterBody(o, chunk.code[o]) # chunk.size
  BY DEF IInv, Finished, Landing, JumpOps
<1>. QED  BY <1>2, <1>3, <1>4, <1>5, FinishedIsSafe

\* What compile() delivers is scope-safe, whatever errors the source has: blocks, branches
\* and bodies that are never closed leave no scope open on any path.
THEOREM ScopesAlwaysClose ==
  Spec => []ScopesClose
<1>1. IInv => ScopesClose
  BY IInvSafe DEF ScopesClose
<1>. QED  BY <1>1, Invariant, PTL

\* Control never leaves a function's body but by its return, and calls only happen where the
\* machine can come back to: what the machine requires of a chunk, instruction by instruction.
THEOREM BodiesAreKept ==
  Spec => [](status = "done" => \A o \in Starts(chunk) : StaysInBody(chunk, Levels(chunk), o))
<1>1. IInv => (status = "done" => \A o \in Starts(chunk) : StaysInBody(chunk, Levels(chunk), o))
  BY IInvSafe
<1>. QED  BY <1>1, Invariant, PTL

-----------------------------------------------------------------------------
(* How deep the stack can be *)

\* Instructions that begin with an empty stack.
Calm == ScopeOps \cup {"OP_DEF_VARIABLE", "OP_FUNCTION_CALL", "OP_JUMP", "OP_LOOP", "OP_RETURN",
                       "OP_DEC_FUNCTION"}

\* depth bounds the stack at every offset, the end of the chunk included.
Climbs(c, depth, o) ==
  LET i == c.code[o] IN
  /\ FallsThrough(i) => depth[o] + StackEffect(i) <= depth[o + Width(i)]
  /\ i.op \in Calm => depth[o] = 0
  /\ i.op = "OP_JUMP_IF_FALSE" => depth[o] <= 1

Raised(c, depth) ==
  /\ depth \in [Ends(c) -> Nat]
  /\ \A o \in Starts(c) : Climbs(c, depth, o)

\* A task that begins with at most a values on the stack ends with at most b.
Rises(t, a, b) ==
  CASE t.do = "prefix" -> b = a + 1
    [] t.do \in {"infix", "unary", "close"} -> b = a
    [] t.do = "binary" -> a = b + 1
    [] t.do \in {"set", "pop", "print", "then", "body"} -> a = 1 /\ b = 0
    [] OTHER -> a = 0 /\ b = 0

\* The heights at which the tasks begin; nothing is left at the end.
Heights(ag, h) ==
  /\ h \in [1 .. Len(ag) + 1 -> Nat]
  /\ h[Len(ag) + 1] = 0
  /\ \A k \in 1 .. Len(ag) : Rises(ag[k], h[k], h[k + 1])

Lifted(ag, c) ==
  \E depth, h : Raised(c, depth) /\ Heights(ag, h) /\ depth[c.size] <= h[1]

\* The tasks lead from a to b, or from more.
Ladder(tasks, a, b) ==
  \E hs \in [1 .. Len(tasks) + 1 -> Nat] :
    /\ a <= hs[1] /\ hs[Len(tasks) + 1] = b
    /\ \A k \in 1 .. Len(tasks) : Rises(tasks[k], hs[k], hs[k + 1])

LEMMA Ladders ==
  ASSUME NEW a \in Nat, NEW b \in Nat
  PROVE  /\ a <= b => Ladder(<<>>, a, b)
         /\ \A t \in TaskType : Rises(t, a, b) => Ladder(<<t>>, a, b)
         /\ \A s, t \in TaskType, m \in Nat :
              Rises(s, a, m) /\ Rises(t, m, b) => Ladder(<<s, t>>, a, b)
         /\ \A s, t, u \in TaskType, m, n \in Nat :
              Rises(s, a, m) /\ Rises(t, m, n) /\ Rises(u, n, b) => Ladder(<<s, t, u>>, a, b)
<1>1. ASSUME a <= b PROVE Ladder(<<>>, a, b)
  <2>. DEFINE hs == [k \in 1 .. 1 |-> b]
  <2>1. hs \in [1 .. 0 + 1 -> Nat] /\ hs[1] = b /\ 1 .. 0 = {} /\ hs[0 + 1] = b /\ Len(<<>>) = 0
    OBVIOUS
  <2>. HIDE DEF hs
  <2>2. \E x \in [1 .. 0 + 1 -> Nat] :
          /\ a <= x[1] /\ x[0 + 1] = b
          /\ \A k \in 1 .. 0 : Rises(<<>>[k], x[k], x[k + 1])
    BY <1>1, <2>1
  <2>. QED  BY <2>1, <2>2, Zenon DEF Ladder
<1>2. ASSUME NEW t \in TaskType, Rises(t, a, b) PROVE Ladder(<<t>>, a, b)
  <2>. DEFINE hs == [k \in 1 .. 2 |-> IF k = 1 THEN a ELSE b]
  <2>1. /\ hs \in [1 .. 1 + 1 -> Nat] /\ hs[1] = a /\ hs[1 + 1] = b /\ a <= a
        /\ Len(<<t>>) = 1 /\ <<t>>[1] = t /\ \A k \in 1 .. 1 : k = 1
    OBVIOUS
  <2>. HIDE DEF hs
  <2>. QED  BY <1>2, <2>1, Zenon DEF Ladder
<1>3. ASSUME NEW s \in TaskType, NEW t \in TaskType, NEW m \in Nat,
             Rises(s, a, m), Rises(t, m, b)
      PROVE  Ladder(<<s, t>>, a, b)
  <2>. DEFINE hs == [k \in 1 .. 3 |-> IF k = 1 THEN a ELSE IF k = 2 THEN m ELSE b]
  <2>1. /\ hs \in [1 .. 2 + 1 -> Nat] /\ hs[1] = a /\ hs[1 + 1] = m /\ hs[2] = m /\ hs[2 + 1] = b
        /\ a <= a /\ Len(<<s, t>>) = 2 /\ <<s, t>>[1] = s /\ <<s, t>>[2] = t
        /\ \A k \in 1 .. 2 : k = 1 \/ k = 2
    OBVIOUS
  <2>. HIDE DEF hs
  <2>. QED  BY <1>3, <2>1, Zenon DEF Ladder
<1>4. ASSUME NEW s \in TaskType, NEW t \in TaskType, NEW u \in TaskType, NEW m \in Nat, NEW n \in Nat,
             Rises(s, a, m), Rises(t, m, n), Rises(u, n, b)
      PROVE  Ladder(<<s, t, u>>, a, b)
  <2>. DEFINE hs == [k \in 1 .. 4 |-> IF k = 1 THEN a ELSE IF k = 2 THEN m ELSE IF k = 3 THEN n ELSE b]
  <2>1. /\ hs \in [1 .. 3 + 1 -> Nat] /\ hs[1] = a /\ hs[1 + 1] = m /\ hs[2] = m /\ hs[2 + 1] = n
        /\ hs[3] = n /\ hs[3 + 1] = b
        /\ a <= a /\ Len(<<s, t, u>>) = 3 /\ <<s, t, u>>[1] = s /\ <<s, t, u>>[2] = t
        /\ <<s, t, u>>[3] = u
        /\ \A k \in 1 .. 3 : k = 1 \/ k = 2 \/ k = 3
    OBVIOUS
  <2>. HIDE DEF hs
  <2>. QED  BY <1>4, <2>1, Zenon DEF Ladder
<1>. QED  BY <1>1, <1>2, <1>3, <1>4

\* Replacing the task at the head by tasks that lead to where it would have led.
LEMMA LadderHeights ==
  ASSUME NEW ag \in Seq(TaskType), ag # <<>>, NEW h, Heights(ag, h),
         NEW tasks \in Seq(TaskType), NEW a \in Nat, Ladder(tasks, a, h[2])
  PROVE  \E h2 : Heights(tasks \o Tail(ag), h2) /\ a <= h2[1]
<1>. DEFINE ag2 == tasks \o Tail(ag)
            m == Len(tasks)
            n == Len(ag)
<1>1. PICK hs \in [1 .. m + 1 -> Nat] :
        /\ a <= hs[1] /\ hs[m + 1] = h[2]
        /\ \A k \in 1 .. m : Rises(tasks[k], hs[k], hs[k + 1])
  BY DEF Ladder
<1>2. /\ m \in Nat /\ n \in Nat /\ n >= 1 /\ Len(ag2) = m + n - 1
      /\ \A k \in 1 .. m : ag2[k] = tasks[k]
      /\ \A k \in 1 .. Len(ag2) : k > m => k - m + 1 \in 2 .. n /\ ag2[k] = ag[k - m + 1]
  BY AgendaIndex
<1>3. /\ h \in [1 .. n + 1 -> Nat] /\ h[n + 1] = 0
      /\ \A k \in 1 .. n : Rises(ag[k], h[k], h[k + 1])
  BY DEF Heights
<1>. DEFINE h2 == [k \in 1 .. m + n |-> IF k <= m + 1 THEN hs[k] ELSE h[k - m + 1]]
<1>. HIDE DEF m, n, ag2
<1>4. h2 \in [1 .. Len(ag2) + 1 -> Nat]
  <2>1. Len(ag2) + 1 = m + n
    BY <1>2
  <2>2. ASSUME NEW k \in 1 .. m + n
        PROVE  (IF k <= m + 1 THEN hs[k] ELSE h[k - m + 1]) \in Nat
    <3>1. CASE k <= m + 1
      <4>1. k \in 1 .. m + 1
        BY <3>1, <1>2
      <4>. QED  BY <3>1, <4>1
    <3>2. CASE ~(k <= m + 1)
      <4>1. k - m + 1 \in 1 .. n + 1
        BY <3>2, <1>2
      <4>. QED  BY <3>2, <4>1, <1>3
    <3>. QED  BY <3>1, <3>2
  <2>. QED  BY <2>1, <2>2
<1>5. /\ \A k \in 1 .. m + 1 : h2[k] = hs[k]
      /\ \A k \in m + 1 .. m + n : h2[k] = h[k - m + 1]
  <2>1. ASSUME NEW k \in 1 .. m + 1 PROVE h2[k] = hs[k]
    BY <1>2
  <2>2. ASSUME NEW k \in m + 1 .. m + n PROVE h2[k] = h[k - m + 1]
    <3>1. CASE k = m + 1
      BY <3>1, <2>1, <1>1, <1>2
    <3>2. CASE k # m + 1
      BY <3>2, <1>2
    <3>. QED  BY <3>1, <3>2
  <2>. QED  BY <2>1, <2>2
<1>. HIDE DEF h2
<1>6. h2[Len(ag2) + 1] = 0
  <2>1. Len(ag2) + 1 = m + n /\ m + n \in m + 1 .. m + n /\ (m + n) - m + 1 = n + 1
    BY <1>2
  <2>. QED  BY <2>1, <1>3, <1>5
<1>7. ASSUME NEW k \in 1 .. Len(ag2)
      PROVE  Rises(ag2[k], h2[k], h2[k + 1])
  <2>1. CASE k <= m
    <3>1. k \in 1 .. m /\ k \in 1 .. m + 1 /\ k + 1 \in 1 .. m + 1
      BY <2>1, <1>2
    <3>. QED  BY <3>1, <1>1, <1>2, <1>5
  <2>2. CASE k > m
    <3>1. /\ k - m + 1 \in 1 .. n /\ ag2[k] = ag[k - m + 1]
          /\ k \in m + 1 .. m + n /\ k + 1 \in m + 1 .. m + n /\ (k + 1) - m + 1 = (k - m + 1) + 1
      BY <2>2, <1>2
    <3>. QED  BY <3>1, <1>3, <1>5
  <2>. QED  BY <2>1, <2>2, <1>2
<1>8. a <= h2[1]
  BY <1>1, <1>2, <1>5
<1>9. Heights(ag2, h2)
  BY <1>4, <1>6, <1>7 DEF Heights
<1>. QED  BY <1>8, <1>9 DEF ag2

LEMMA WriteRaised ==
  ASSUME NEW c, Solid(c), NEW depth, Raised(c, depth), NEW i \in Instruction(Names),
         NEW a \in Nat, NEW b \in Nat, depth[c.size] <= a,
         i.op \in Calm => a = 0,
         i.op = "OP_JUMP_IF_FALSE" => a <= 1,
         FallsThrough(i) => a + StackEffect(i) <= b,
         NEW w, w = Write(c, i)
  PROVE  \E d2 : Raised(w, d2) /\ d2[w.size] = b
<1>. DEFINE d2 == [p \in Ends(w) |-> IF p = w.size THEN b ELSE IF p = c.size THEN a ELSE depth[p]]
<1>1. /\ w.size = c.size + Width(i) /\ c.size \notin Starts(c) /\ w.size \notin Ends(c)
      /\ Starts(w) = Ends(c) /\ Ends(w) = Ends(c) \cup {w.size}
      /\ w.code[c.size] = i /\ \A o \in Starts(c) : w.code[o] = c.code[o]
  BY WriteFacts
<1>2. /\ depth \in [Ends(c) -> Nat] /\ \A o \in Starts(c) : Climbs(c, depth, o)
      /\ \A p \in Ends(c) : depth[p] \in Nat
  BY DEF Raised
<1>3. d2 \in [Ends(w) -> Nat]
  BY <1>1, <1>2
<1>4. /\ d2[w.size] = b /\ d2[c.size] = a
      /\ \A p \in Ends(c) : depth[p] <= d2[p] /\ d2[p] \in Nat
      /\ \A p \in Starts(c) : d2[p] = depth[p]
  <2>1. c.size \in Ends(c) /\ Starts(c) \subseteq Ends(c)
    BY DEF Ends
  <2>2. d2[w.size] = b /\ d2[c.size] = a
    BY <1>1, <2>1
  <2>3. \A p \in Starts(c) : d2[p] = depth[p]
    BY <1>1, <2>1
  <2>4. ASSUME NEW p \in Ends(c) PROVE depth[p] <= d2[p] /\ d2[p] \in Nat
    <3>1. CASE p = c.size
      BY <3>1, <2>2, <1>2
    <3>2. CASE p # c.size
      <4>1. p \in Starts(c) /\ depth[p] \in Nat
        BY <3>2, <1>2 DEF Ends
      <4>. QED  BY <4>1, <2>3
    <3>. QED  BY <3>1, <3>2
  <2>. QED  BY <2>2, <2>3, <2>4
<1>. HIDE DEF d2
<1>5. ASSUME NEW o \in Starts(w)
      PROVE  Climbs(w, d2, o)
  <2>1. CASE o = c.size
    BY <2>1, <1>1, <1>4 DEF Climbs
  <2>2. CASE o \in Starts(c)
    <3>1. Climbs(c, depth, o) /\ w.code[o] = c.code[o] /\ d2[o] = depth[o]
      BY <2>2, <1>1, <1>2, <1>4
    <3>. DEFINE i0 == c.code[o]
    <3>2. o + Width(i0) \in Ends(c) /\ depth[o] \in Nat
      BY <2>2, <1>2 DEF Solid, Ends
    <3>3. StackEffect(i0) \in Int
      BY DEF StackEffect
    <3>4. depth[o + Width(i0)] <= d2[o + Width(i0)] /\ d2[o + Width(i0)] \in Nat
          /\ depth[o + Width(i0)] \in Nat
      BY <3>2, <1>2, <1>4
    <3>5. FallsThrough(i0) => d2[o] + StackEffect(i0) <= d2[o + Width(i0)]
      <4>1. ASSUME FallsThrough(i0)
            PROVE  d2[o] + StackEffect(i0) <= d2[o + Width(i0)]
        <5>1. depth[o] + StackEffect(i0) <= depth[o + Width(i0)]
          BY <4>1, <3>1 DEF Climbs
        <5>. HIDE DEF i0
        <5>. QED  BY <5>1, <3>1, <3>2, <3>3, <3>4
      <4>. QED  BY <4>1
    <3>. QED  BY <3>1, <3>5 DEF Climbs
  <2>. QED  BY <2>1, <2>2, <1>1 DEF Ends
<1>. QED  BY <1>3, <1>4, <1>5 DEF Raised

LEMMA PatchRaised ==
  ASSUME NEW c, Solid(c), NEW depth, Raised(c, depth), NEW o \in Starts(c), NEW n \in Nat,
         NEW w, w = Patch(c, o, n)
  PROVE  Raised(w, depth) /\ w.size = c.size
<1>1. Patched(c, o, n, w)
  BY PatchFacts
<1>2. /\ w.size = c.size /\ Starts(w) = Starts(c) /\ Ends(w) = Ends(c)
      /\ \A q \in Starts(c) : w.code[q].op = c.code[q].op /\ Width(w.code[q]) = Width(c.code[q])
  BY <1>1 DEF Patched
<1>3. ASSUME NEW q \in Starts(c) PROVE Climbs(w, depth, q)
  <2>1. Climbs(c, depth, q)
    BY DEF Raised
  <2>2. /\ FallsThrough(w.code[q]) = FallsThrough(c.code[q])
        /\ StackEffect(w.code[q]) = StackEffect(c.code[q])
    BY <1>2 DEF FallsThrough, StackEffect
  <2>. QED  BY <2>1, <2>2, <1>2 DEF Climbs
<1>. QED  BY <1>2, <1>3 DEF Raised

-----------------------------------------------------------------------------
(* Steps and heights *)

LEMMA HeadRises ==
  ASSUME NEW ag \in Seq(TaskType), ag # <<>>, NEW h, Heights(ag, h)
  PROVE  h[1] \in Nat /\ h[2] \in Nat /\ Rises(ag[1], h[1], h[2])
<1>1. Len(ag) \in Nat /\ Len(ag) >= 1
  OBVIOUS
<1>2. 1 \in 1 .. Len(ag) /\ 1 \in 1 .. Len(ag) + 1 /\ 1 + 1 \in 1 .. Len(ag) + 1 /\ 1 + 1 = 2
  BY <1>1
<1>. HIDE DEF Rises
<1>. QED  BY <1>2 DEF Heights

LEMMA StayLifts ==
  ASSUME NEW ag \in Seq(TaskType), ag # <<>>, NEW c, Lifted(ag, c), NEW tasks \in Seq(TaskType),
         \A a, b \in Nat : Rises(ag[1], a, b) => Ladder(tasks, a, b)
  PROVE  Lifted(tasks \o Tail(ag), c)
<1>1. PICK depth, h : Raised(c, depth) /\ Heights(ag, h) /\ depth[c.size] <= h[1]
  BY DEF Lifted
<1>2. h[1] \in Nat /\ h[2] \in Nat /\ Ladder(tasks, h[1], h[2])
  BY <1>1, HeadRises
<1>3. PICK h2 : Heights(tasks \o Tail(ag), h2) /\ h[1] <= h2[1]
  BY <1>1, <1>2, LadderHeights
<1>4. depth[c.size] <= h2[1]
  <2>1. depth[c.size] \in Nat
    BY <1>1 DEF Raised, Ends
  <2>2. h2[1] \in Nat
    <3>1. tasks \o Tail(ag) \in Seq(TaskType)
      OBVIOUS
    <3>2. Len(tasks \o Tail(ag)) \in Nat
      BY <3>1
    <3>. QED  BY <3>2, <1>3 DEF Heights
  <2>. QED  BY <2>1, <2>2, <1>1, <1>2, <1>3
<1>. QED  BY <1>1, <1>3, <1>4 DEF Lifted

\* The instruction may be written at height a, and leads on to m.
Leads(i, a, m) ==
  /\ i.op \in Calm => a = 0
  /\ i.op = "OP_JUMP_IF_FALSE" => a <= 1
  /\ FallsThrough(i) => a + StackEffect(i) <= m

LEMMA WriteLifts ==
  ASSUME NEW ag \in Seq(TaskType), ag # <<>>, NEW c, Solid(c), Lifted(ag, c),
         NEW tasks \in Seq(TaskType), NEW i \in Instruction(Names), NEW w, w = Write(c, i),
         \A a, b \in Nat : Rises(ag[1], a, b) => \E m \in Nat : Leads(i, a, m) /\ Ladder(tasks, m, b)
  PROVE  Lifted(tasks \o Tail(ag), w)
<1>1. PICK depth, h : Raised(c, depth) /\ Heights(ag, h) /\ depth[c.size] <= h[1]
  BY DEF Lifted
<1>2. PICK m \in Nat : Leads(i, h[1], m) /\ Ladder(tasks, m, h[2])
  BY <1>1, HeadRises
<1>3. h[1] \in Nat /\ h[2] \in Nat
  BY <1>1, HeadRises
<1>4. PICK h2 : Heights(tasks \o Tail(ag), h2) /\ m <= h2[1]
  BY <1>1, <1>2, <1>3, LadderHeights
<1>5. PICK d2 : Raised(w, d2) /\ d2[w.size] = m
  BY <1>1, <1>2, <1>3, WriteRaised DEF Leads
<1>. QED  BY <1>4, <1>5 DEF Lifted

LEMMA PatchLifts ==
  ASSUME NEW ag, NEW c, Solid(c), Lifted(ag, c), NEW o \in Starts(c), NEW n \in Nat,
         NEW w, w = Patch(c, o, n)
  PROVE  Lifted(ag, w)
  BY PatchRaised DEF Lifted

\* Tasks that begin and end with nothing on the stack.
Ground == Deeds \ {"prefix", "infix", "unary", "close", "binary", "set", "pop", "print", "then", "body"}

LEMMA GroundRises ==
  ASSUME NEW t \in TaskType, t.do \in Ground
  PROVE  \A a, b \in Nat : Rises(t, a, b) <=> a = 0 /\ b = 0
  BY DEF Ground, Rises

LEMMA GroundLadder ==
  ASSUME NEW tasks \in Seq(TaskType), \A k \in 1 .. Len(tasks) : tasks[k].do \in Ground
  PROVE  Ladder(tasks, 0, 0)
<1>. DEFINE hs == [k \in 1 .. Len(tasks) + 1 |-> 0]
<1>1. Len(tasks) \in Nat /\ 1 \in 1 .. Len(tasks) + 1 /\ Len(tasks) + 1 \in 1 .. Len(tasks) + 1
  OBVIOUS
<1>2. hs \in [1 .. Len(tasks) + 1 -> Nat] /\ 0 <= hs[1] /\ hs[Len(tasks) + 1] = 0
  BY <1>1
<1>3. ASSUME NEW k \in 1 .. Len(tasks) PROVE Rises(tasks[k], hs[k], hs[k + 1])
  <2>1. hs[k] = 0 /\ hs[k + 1] = 0
    BY <1>1
  <2>2. tasks[k] \in TaskType
    OBVIOUS
  <2>. QED  BY <2>1, <2>2, GroundRises
<1>. HIDE DEF hs
<1>. QED  BY <1>2, <1>3 DEF Ladder

Grounded(tasks) == tasks \in Seq(TaskType) /\ \A k \in 1 .. Len(tasks) : tasks[k].do \in Ground

LEMMA GroundTasks ==
  /\ Grounded(<<>>)
  /\ \A s \in TaskType : s.do \in Ground => Grounded(<<s>>)
  /\ \A s, t \in TaskType : s.do \in Ground /\ t.do \in Ground => Grounded(<<s, t>>)
<1>1. Grounded(<<>>)
  BY DEF Grounded
<1>2. ASSUME NEW s \in TaskType, s.do \in Ground
      PROVE  Grounded(<<s>>)
  <2>. HIDE DEF Ground
  <2>. QED  BY <1>2 DEF Grounded
<1>3. ASSUME NEW s \in TaskType, NEW t \in TaskType, s.do \in Ground, t.do \in Ground
      PROVE  Grounded(<<s, t>>)
  <2>. HIDE DEF Ground
  <2>1. Len(<<s, t>>) = 2 /\ <<s, t>>[1] = s /\ <<s, t>>[2] = t /\ <<s, t>> \in Seq(TaskType)
    OBVIOUS
  <2>. QED  BY <1>3, <2>1 DEF Grounded
<1>. QED  BY <1>1, <1>2, <1>3

LEMMA GroundKinds ==
  ASSUME NEW do \in {"program", "declaration", "statement", "newlines", "else", "patch", "loop",
                     "block", "blockLoop", "params", "returns", "header", "endFunction"}
  PROVE  do \in Ground /\ do \in Deeds /\ Task(do) \in TaskType /\ Task(do).do = do
BY PlainTasks DEF Ground, Deeds

-----------------------------------------------------------------------------
(* The steps of the compiler, as to heights *)

\* A step that replaces the task and leaves the chunk alone.
LEMMA LiftStay ==
  ASSUME IInv, Lifted(agenda, chunk), NEW do, Doing(do), NEW p, NEW tasks \in Seq(TaskType),
         Continue(p, chunk, tasks),
         \A a, b \in Nat : Rises(Now, a, b) => Ladder(tasks, a, b)
  PROVE  Lifted(agenda, chunk)'
<1>1. agenda' = tasks \o Tail(agenda) /\ chunk' = chunk
  BY DEF Continue
<1>2. agenda \in Seq(TaskType) /\ agenda # <<>> /\ Now = agenda[1]
  BY Doings DEF Now
<1>3. Lifted(tasks \o Tail(agenda), chunk)
  BY <1>2, StayLifts
<1>. QED  BY <1>1, <1>3

\* A step that writes an instruction.
LEMMA LiftWrite ==
  ASSUME IInv, Lifted(agenda, chunk), NEW do, Doing(do), NEW p, NEW tasks \in Seq(TaskType),
         NEW i \in Instruction(Names), Continue(p, Write(chunk, i), tasks),
         \A a, b \in Nat : Rises(Now, a, b) => \E m \in Nat : Leads(i, a, m) /\ Ladder(tasks, m, b)
  PROVE  Lifted(agenda, chunk)'
<1>1. agenda' = tasks \o Tail(agenda) /\ chunk' = Write(chunk, i)
  BY DEF Continue
<1>2. agenda \in Seq(TaskType) /\ agenda # <<>> /\ Now = agenda[1] /\ Solid(chunk)
  BY Doings DEF Now
<1>3. Lifted(tasks \o Tail(agenda), Write(chunk, i))
  BY <1>2, WriteLifts
<1>. QED  BY <1>1, <1>3

\* The same with nothing on the stack before and after.
LEMMA LiftGround ==
  ASSUME IInv, Lifted(agenda, chunk), NEW do \in Ground, Doing(do), NEW p,
         NEW tasks, Grounded(tasks),
         \/ Continue(p, chunk, tasks)
         \/ \E i \in Instruction(Names) : Leads(i, 0, 0) /\ Continue(p, Write(chunk, i), tasks)
  PROVE  Lifted(agenda, chunk)'
<1>1. Now \in TaskType /\ Now.do = do
  BY Doings
<1>2. \A a, b \in Nat : Rises(Now, a, b) => a = 0 /\ b = 0
  BY <1>1, GroundRises
<1>3. tasks \in Seq(TaskType) /\ Ladder(tasks, 0, 0)
  BY GroundLadder DEF Grounded
<1>4. CASE Continue(p, chunk, tasks)
  <2>1. \A a, b \in Nat : Rises(Now, a, b) => Ladder(tasks, a, b)
    BY <1>2, <1>3, Zenon
  <2>. QED  BY <2>1, <1>3, <1>4, LiftStay
<1>5. ASSUME NEW i \in Instruction(Names), Leads(i, 0, 0), Continue(p, Write(chunk, i), tasks)
      PROVE  Lifted(agenda, chunk)'
  <2>1. 0 \in Nat
    OBVIOUS
  <2>2. \A a, b \in Nat : Rises(Now, a, b) => \E m \in Nat : Leads(i, a, m) /\ Ladder(tasks, m, b)
    BY <2>1, <1>2, <1>3, <1>5, Zenon
  <2>. QED  BY <2>2, <1>3, <1>5, LiftWrite
<1>. QED  BY <1>4, <1>5

LEMMA GroundStays ==
  ASSUME IInv, Lifted(agenda, chunk),
         \/ Program \/ EndOfFile \/ OtherStatement \/ Newlines \/ BlockLoop \/ BlockStatement
  PROVE  Lifted(agenda, chunk)'
<1>. DEFINE statement == Task("statement")
            declaration == Task("declaration")
            program == Task("program")
            loop == Task("blockLoop")
            block == Task("block")
            newlines == Task("newlines")
<1>0. /\ statement \in TaskType /\ statement.do \in Ground
      /\ declaration \in TaskType /\ declaration.do \in Ground
      /\ program \in TaskType /\ program.do \in Ground
      /\ loop \in TaskType /\ loop.do \in Ground
      /\ block \in TaskType /\ block.do \in Ground
      /\ newlines \in TaskType /\ newlines.do \in Ground
  BY GroundKinds
<1>. HIDE DEF statement, declaration, program, loop, block, newlines
<1>1. CASE Program
  <2>1. Doing("program") /\ Continue(parser, chunk, <<declaration, program>>)
    BY <1>1 DEF Program, declaration, program
  <2>2. Grounded(<<declaration, program>>) /\ "program" \in Ground
    BY <1>0, GroundTasks, GroundKinds
  <2>. QED  BY <2>1, <2>2, LiftGround
<1>2. CASE EndOfFile
  <2>1. /\ Doing("declaration")
        /\ Continue(advanceParser(SkipNewlines(parser)), chunk, <<>>)
    BY <1>2 DEF EndOfFile, Declaration
  <2>2. Grounded(<<>>) /\ "declaration" \in Ground
    BY GroundTasks, GroundKinds
  <2>. QED  BY <2>1, <2>2, LiftGround
<1>3. CASE OtherStatement
  <2>1. Doing("declaration") /\ Continue(SkipNewlines(parser), chunk, <<statement>>)
    BY <1>3 DEF OtherStatement, Declaration, statement
  <2>2. Grounded(<<statement>>) /\ "declaration" \in Ground
    BY <1>0, GroundTasks, GroundKinds
  <2>. QED  BY <2>1, <2>2, LiftGround
<1>4. CASE Newlines
  <2>1. Doing("newlines") /\ Continue(SkipNewlines(parser), chunk, <<>>)
    BY <1>4 DEF Newlines
  <2>2. Grounded(<<>>) /\ "newlines" \in Ground
    BY GroundTasks, GroundKinds
  <2>. QED  BY <2>1, <2>2, LiftGround
<1>5. CASE BlockLoop
  <2>1. Doing("blockLoop") /\ Continue(parser, chunk, <<declaration, loop>>)
    BY <1>5 DEF BlockLoop, declaration, loop
  <2>2. Grounded(<<declaration, loop>>) /\ "blockLoop" \in Ground
    BY <1>0, GroundTasks, GroundKinds
  <2>. QED  BY <2>1, <2>2, LiftGround
<1>6. CASE BlockStatement
  <2>1. Doing("statement") /\ Continue(advanceParser(parser), chunk, <<block>> \o <<newlines>>)
    BY <1>6 DEF BlockStatement, Keyword, block, newlines
  <2>2. <<block>> \o <<newlines>> = <<block, newlines>>
    BY <1>0, LongerByOne, ZenonT(60)
  <2>3. Continue(advanceParser(parser), chunk, <<block, newlines>>)
    BY <2>1, <2>2, Zenon
  <2>4. Grounded(<<block, newlines>>) /\ "statement" \in Ground
    BY <1>0, GroundTasks, GroundKinds
  <2>. QED  BY <2>1, <2>3, <2>4, LiftGround
<1>. QED  BY <1>1, <1>2, <1>3, <1>4, <1>5, <1>6

LEMMA HeadsLift ==
  ASSUME IInv, Lifted(agenda, chunk),
         \/ FunctionName \/ Parameter \/ EndParameters \/ ReturnType \/ EndReturnTypes
  PROVE  Lifted(agenda, chunk)'
<1>. DEFINE name == advanceParser(advanceParser(parser)).previous.text
            first == [Task("params") EXCEPT !.name = name]
<1>1. CASE FunctionName
  <2>1. /\ Doing("statement") /\ chunk' = chunk
        /\ agenda' = <<first, Task("newlines")>> \o Tail(agenda)
    BY <1>1 DEF FunctionName
  <2>2. name \in Names
    <3>1. advanceParser(parser) \in ParserType /\ source \in Sources
      BY <2>1, Doings, ParserMoves
    <3>2. advanceParser(advanceParser(parser)).previous \in Token(Names)
      BY <3>1, ParserMoves
    <3>. QED  BY <3>2, TokenFields
  <2>. HIDE DEF name
  <2>3. first \in TaskType /\ first.do = "params"
    BY <2>2, TaskKinds DEF Deeds
  <2>. HIDE DEF first
  <2>. DEFINE tasks == <<first, Task("newlines")>>
  <2>4. Grounded(tasks)
    <3>1. Task("newlines") \in TaskType /\ Task("newlines").do \in Ground /\ "params" \in Ground
      BY GroundKinds
    <3>. QED  BY <2>3, <3>1, GroundTasks
  <2>5. tasks \in Seq(TaskType) /\ Ladder(tasks, 0, 0)
    BY <2>4, GroundLadder DEF Grounded
  <2>6. agenda' = tasks \o Tail(agenda)
    BY <2>1
  <2>. HIDE DEF tasks
  <2>7. agenda \in Seq(TaskType) /\ agenda # <<>>
    BY <2>1, Doings
  <2>8. \A a, b \in Nat : Rises(agenda[1], a, b) => Ladder(tasks, a, b)
    <3>1. agenda[1] \in TaskType /\ agenda[1].do \in Ground
      BY <2>1, Doings, GroundKinds DEF Now
    <3>2. \A a, b \in Nat : Rises(agenda[1], a, b) => a = 0 /\ b = 0
      BY <3>1, GroundRises
    <3>. QED  BY <3>2, <2>5, Zenon
  <2>9. Lifted(tasks \o Tail(agenda), chunk)
    BY <2>5, <2>7, <2>8, StayLifts
  <2>. QED  BY <2>1, <2>6, <2>9
<1>2. CASE Parameter \/ EndParameters \/ ReturnType \/ EndReturnTypes
  <2>1. PICK do, p, t :
          /\ do \in {"params", "returns"} /\ Doing(do) /\ Continue(p, chunk, <<t>>)
          /\ \/ \E x \in Names : t = [Now EXCEPT !.params = Append(Now.params, x)]
             \/ t = [Now EXCEPT !.rets = Now.rets + 1]
             \/ \E next \in {"returns", "header"} : t = [Now EXCEPT !.do = next]
    <3>1. CASE Parameter
      <4>. DEFINE q == advanceParser(parser)
                  x == IF Check(q, {"TK_IDENTIFIER"}) THEN Current(q).text ELSE ""
      <4>1. /\ Doing("params")
            /\ Continue(advanceParser(q), chunk, <<[Now EXCEPT !.params = Append(Now.params, x)]>>)
        BY <3>1 DEF Parameter, InParameters
      <4>2. x \in Names
        <5>1. q \in ParserType /\ source \in Sources
          BY <4>1, Doings, ParserMoves
        <5>2. Current(q) \in Token(Names)
          BY <5>1, ParserMoves
        <5>. QED  BY <5>2, TokenFields, NamesAssumption
      <4>. HIDE DEF q, x
      <4>. QED  BY <4>1, <4>2, Zenon
    <3>2. CASE EndParameters
      <4>1. /\ Doing("params")
            /\ \/ Continue(advanceParser(parser), chunk, <<[Now EXCEPT !.do = "returns"]>>)
               \/ Continue(parser, chunk, <<[Now EXCEPT !.do = "header"]>>)
        BY <3>2 DEF EndParameters
      <4>. QED  BY <4>1, Zenon
    <3>3. CASE ReturnType
      <4>1. /\ Doing("returns")
            /\ Continue(advanceParser(parser), chunk, <<[Now EXCEPT !.rets = Now.rets + 1]>>)
        BY <3>3 DEF ReturnType, InReturnTypes
      <4>. QED  BY <4>1, Zenon
    <3>4. CASE EndReturnTypes
      <4>1. Doing("returns") /\ Continue(parser, chunk, <<[Now EXCEPT !.do = "header"]>>)
        BY <3>4 DEF EndReturnTypes
      <4>. QED  BY <4>1, Zenon
    <3>. QED  BY <1>2, <3>1, <3>2, <3>3, <3>4
  <2>2. Now \in TaskType /\ Now.do = do
    BY <2>1, Doings
  <2>3. t \in TaskType /\ t.do \in {"params", "returns", "header"}
    <3>1. CASE \E x \in Names : t = [Now EXCEPT !.params = Append(Now.params, x)]
      <4>1. PICK x \in Names : t = [Now EXCEPT !.params = Append(Now.params, x)]
        BY <3>1
      <4>2. Append(Now.params, x) \in Seq(Names)
        BY <2>2, TaskFields
      <4>. QED  BY <2>1, <2>2, <4>1, <4>2 DEF TaskType
    <3>2. CASE t = [Now EXCEPT !.rets = Now.rets + 1]
      <4>1. Now.rets + 1 \in Nat
        BY <2>2, TaskFields
      <4>. QED  BY <2>1, <2>2, <3>2, <4>1 DEF TaskType
    <3>3. CASE \E next \in {"returns", "header"} : t = [Now EXCEPT !.do = next]
      <4>1. "returns" \in Deeds /\ "header" \in Deeds
        BY DEF Deeds
      <4>. QED  BY <2>2, <3>3, <4>1 DEF TaskType
    <3>. QED  BY <2>1, <3>1, <3>2, <3>3
  <2>4. t.do \in Ground /\ do \in Ground
    <3>1. do \in {"params", "returns"}
      BY <2>1
    <3>2. t.do \in Ground
      BY <2>3, GroundKinds
    <3>. QED  BY <3>1, <3>2, GroundKinds
  <2>5. Grounded(<<t>>)
    BY <2>3, <2>4, GroundTasks
  <2>. QED  BY <2>1, <2>4, <2>5, LiftGround
<1>. QED  BY <1>1, <1>2

\* An instruction that needs no values and leaves none.
LEMMA CalmLeads ==
  /\ \A i : i.op \in Calm => Leads(i, 0, 0)
  /\ \A i : i.op = "OP_FUNCTION_CALL" \/ i.op \in ScopeOps => i.op \in Calm
  /\ \A i : i.op \in {"OP_DEF_VARIABLE", "OP_JUMP", "OP_LOOP", "OP_RETURN", "OP_DEC_FUNCTION"} =>
       i.op \in Calm
BY DEF Leads, Calm, StackEffect, ValueOps, BinaryOps, ConsumerOps, ScopeOps

LEMMA BlocksLift ==
  ASSUME IInv, Lifted(agenda, chunk), Block \/ EndBlock \/ FunctionHeader
  PROVE  Lifted(agenda, chunk)'
<1>1. CASE Block
  <2>. DEFINE i == Simple("OP_ENTER_SCOPE")
  <2>1. /\ Doing("block")
        /\ Continue(SkipNewlines(parser), Write(chunk, i), <<Task("blockLoop")>>)
    BY <1>1 DEF Block
  <2>2. i \in Instruction(Names) /\ i.op \in ScopeOps
    BY InstructionTypes, InstructionFields DEF ScopeOps, OpCode
  <2>. HIDE DEF i
  <2>3. Leads(i, 0, 0)
    BY <2>2, CalmLeads
  <2>4. Grounded(<<Task("blockLoop")>>) /\ "block" \in Ground
    BY GroundTasks, GroundKinds
  <2>. QED  BY <2>1, <2>2, <2>3, <2>4, LiftGround
<1>2. CASE EndBlock
  <2>. DEFINE i == Simple("OP_EXIT_SCOPE")
              p == SkipNewlines(consumeIf(parser, {"TK_BRACE_CLOSE"}))
  <2>1. Doing("blockLoop") /\ Continue(p, Write(chunk, i), <<>>)
    BY <1>2 DEF EndBlock
  <2>2. i \in Instruction(Names) /\ i.op \in ScopeOps
    BY InstructionTypes, InstructionFields DEF ScopeOps, OpCode
  <2>. HIDE DEF i, p
  <2>3. Leads(i, 0, 0)
    BY <2>2, CalmLeads
  <2>4. Grounded(<<>>) /\ "blockLoop" \in Ground
    BY GroundTasks, GroundKinds
  <2>. QED  BY <2>1, <2>2, <2>3, <2>4, LiftGround
<1>3. CASE FunctionHeader
  <2>. DEFINE i == Header(Now.name, Now.params, Now.rets, Unpatched)
              t == At("endFunction", chunk.size)
              p == consumeIf(parser, {"TK_BRACE_OPEN"})
  <2>1. Doing("header") /\ Continue(p, Write(chunk, i), <<Task("block"), t>>)
    BY <1>3 DEF FunctionHeader
  <2>2. i \in Instruction(Names) /\ i.op = "OP_DEC_FUNCTION"
    <3>1. Now \in TaskType
      BY <2>1, Doings
    <3>2. Now.name \in Names /\ Now.params \in Seq(Names) /\ Now.rets \in Nat /\ Unpatched \in Nat
      BY <3>1, TaskFields DEF Unpatched
    <3>. QED  BY <3>2, InstructionTypes, InstructionFields
  <2>3. t \in TaskType /\ t.do = "endFunction"
    BY <2>1, Doings, TaskKinds DEF Deeds
  <2>. HIDE DEF i, t, p
  <2>4. Leads(i, 0, 0)
    BY <2>2, CalmLeads
  <2>5. /\ "header" \in Ground /\ "endFunction" \in Ground
        /\ Task("block") \in TaskType /\ Task("block").do \in Ground
    BY GroundKinds
  <2>6. Grounded(<<Task("block"), t>>)
    BY <2>3, <2>5, GroundTasks
  <2>. QED  BY <2>1, <2>2, <2>4, <2>5, <2>6, LiftGround
<1>. QED  BY <1>1, <1>2, <1>3

\* An expression leaves the one value that the task behind it takes.
LEMMA ValueLadders ==
  ASSUME NEW t \in TaskType, t.do \in {"set", "pop", "print", "then", "body"}
  PROVE  /\ Ladder(<<Expression, t>>, 0, 0)
         /\ \A u \in TaskType : u.do = "newlines" => Ladder(<<Expression, t, u>>, 0, 0)
<1>1. Expression \in TaskType /\ Expression.do = "prefix"
  <2>1. "prefix" \in Deeds /\ PREC_ASSIGNMENT \in Nat
    BY DEF Deeds, PREC_ASSIGNMENT
  <2>. QED  BY <2>1, TaskKinds DEF Expression, Prefix
<1>2. Rises(Expression, 0, 1) /\ Rises(t, 1, 0)
  BY <1>1 DEF Rises
<1>3. \A u \in TaskType : u.do = "newlines" => Rises(u, 0, 0)
  BY DEF Rises
<1>. HIDE DEF Expression, Rises
<1>4. 0 \in Nat /\ 1 \in Nat
  OBVIOUS
<1>. QED  BY <1>1, <1>2, <1>3, <1>4, Ladders

LEMMA NamesLift ==
  ASSUME IInv, Lifted(agenda, chunk), VariableDeclaration \/ NamedStatement
  PROVE  Lifted(agenda, chunk)'
<1>. DEFINE q == advanceParser(SkipNewlines(parser))
            p == consumeIf(q, {"TK_IDENTIFIER"})
<1>1. Doing("declaration") /\ Now \in TaskType /\ Now.do = "declaration" /\ "declaration" \in Ground
  <2>1. Doing("declaration")
    BY DEF VariableDeclaration, NamedStatement, Declaration
  <2>. QED  BY <2>1, Doings, GroundKinds
<1>2. \A a, b \in Nat : Rises(Now, a, b) => a = 0 /\ b = 0
  BY <1>1, GroundRises
<1>3. p.previous.text \in Names /\ q.previous.text \in Names
  <2>1. SkipNewlines(parser) \in ParserType /\ source \in Sources
    BY <1>1, Doings, ParserMoves
  <2>2. q \in ParserType
    BY <2>1, ParserMoves
  <2>. HIDE DEF q
  <2>3. p \in ParserType /\ q.previous \in Token(Names)
    BY <2>1, <2>2, ParserMoves
  <2>. HIDE DEF p
  <2>4. p.previous \in Token(Names)
    BY <2>1, <2>3, ParserMoves
  <2>. QED  BY <2>3, <2>4, TokenFields
<1>4. \A x \in Names : LET t == [Task("set") EXCEPT !.name = x]
                       IN  /\ <<Expression, t>> \in Seq(TaskType)
                           /\ Ladder(<<Expression, t>>, 0, 0)
  <2>. SUFFICES ASSUME NEW x \in Names
                PROVE  /\ <<Expression, [Task("set") EXCEPT !.name = x]>> \in Seq(TaskType)
                       /\ Ladder(<<Expression, [Task("set") EXCEPT !.name = x]>>, 0, 0)
    BY Zenon
  <2>. DEFINE t == [Task("set") EXCEPT !.name = x]
  <2>1. t \in TaskType /\ t.do = "set"
    BY TaskKinds DEF Deeds
  <2>. HIDE DEF t
  <2>2. <<Expression, t>> \in Seq(TaskType)
    BY <2>1, ExpressionTasks
  <2>3. <<Expression, t>> \in Seq(TaskType) /\ Ladder(<<Expression, t>>, 0, 0)
    BY <2>1, <2>2, ValueLadders
  <2>. QED  BY <2>3 DEF t
<1>. HIDE DEF p, q
<1>5. CASE VariableDeclaration
  <2>. DEFINE name == p.previous.text
              i == Named("OP_DEF_VARIABLE", name)
              tasks == <<Expression, [Task("set") EXCEPT !.name = name]>>
  <2>1. \/ Continue(consumeIf(p, {"TK_ASSIGNMENT"}), Write(chunk, i), tasks)
        \/ Continue(p, Write(chunk, i), <<>>)
    BY <1>5 DEF VariableDeclaration, Assignment, p, q
  <2>2. i \in Instruction(Names) /\ i.op = "OP_DEF_VARIABLE"
    BY <1>3, InstructionTypes, InstructionFields DEF OpCode, NameOps
  <2>3. tasks \in Seq(TaskType) /\ Ladder(tasks, 0, 0)
    BY <1>3, <1>4
  <2>4. <<>> \in Seq(TaskType) /\ Ladder(<<>>, 0, 0)
    BY GroundTasks, GroundLadder DEF Grounded
  <2>. HIDE DEF i, tasks
  <2>5. Leads(i, 0, 0) /\ 0 \in Nat
    BY <2>2, CalmLeads
  <2>6. /\ \A a, b \in Nat : Rises(Now, a, b) => \E m \in Nat : Leads(i, a, m) /\ Ladder(tasks, m, b)
        /\ \A a, b \in Nat : Rises(Now, a, b) => \E m \in Nat : Leads(i, a, m) /\ Ladder(<<>>, m, b)
    BY <1>2, <2>3, <2>4, <2>5, Zenon
  <2>. QED  BY <1>1, <2>1, <2>2, <2>3, <2>4, <2>6, LiftWrite
<1>6. CASE NamedStatement
  <2>. DEFINE name == q.previous.text
              i == Named("OP_FUNCTION_CALL", name)
              tasks == <<Expression, [Task("set") EXCEPT !.name = name]>>
  <2>1. \/ Continue(q, Write(chunk, i), <<>>)
        \/ Continue(consumeIf(q, {"TK_ASSIGNMENT"}), chunk, tasks)
    BY <1>6 DEF NamedStatement, Assignment, q
  <2>2. i \in Instruction(Names) /\ i.op = "OP_FUNCTION_CALL"
    BY <1>3, InstructionTypes, InstructionFields DEF OpCode, NameOps
  <2>3. tasks \in Seq(TaskType) /\ Ladder(tasks, 0, 0)
    BY <1>3, <1>4
  <2>. HIDE DEF i, tasks
  <2>4. Leads(i, 0, 0)
    BY <2>2, CalmLeads
  <2>5. \A a, b \in Nat : Rises(Now, a, b) => Ladder(tasks, a, b)
    BY <1>2, <2>3, Zenon
  <2>6. CASE Continue(q, Write(chunk, i), <<>>)
    BY <1>1, <2>2, <2>4, <2>6, GroundTasks, LiftGround
  <2>7. CASE Continue(consumeIf(q, {"TK_ASSIGNMENT"}), chunk, tasks)
    BY <1>1, <2>3, <2>5, <2>7, LiftStay
  <2>. QED  BY <2>1, <2>6, <2>7
<1>. QED  BY <1>5, <1>6

LEMMA StatementsLift ==
  ASSUME IInv, Lifted(agenda, chunk),
         IfStatement \/ WhileStatement \/ PrintStatement \/ ExpressionStatement
  PROVE  Lifted(agenda, chunk)'
<1>. DEFINE newlines == Task("newlines")
<1>1. newlines \in TaskType /\ newlines.do = "newlines"
  BY GroundKinds
<1>. HIDE DEF newlines
<1>2. PICK t \in TaskType :
        /\ t.do \in {"pop", "print", "then", "body"} /\ Doing("statement")
        /\ \E p : \/ Continue(p, chunk, <<Expression, t>> \o <<newlines>>)
                  \/ Continue(p, chunk, <<Expression, t, newlines>>)
  <2>1. Task("then") \in TaskType /\ Task("then").do = "then"
    BY PlainTasks DEF Deeds
  <2>2. Task("print") \in TaskType /\ Task("print").do = "print"
    BY PlainTasks DEF Deeds
  <2>3. Task("pop") \in TaskType /\ Task("pop").do = "pop"
    BY PlainTasks DEF Deeds
  <2>4. CASE IfStatement
    BY <2>1, <2>4, Zenon DEF IfStatement, Keyword, newlines
  <2>5. CASE WhileStatement
    <3>. DEFINE t == [Task("body") EXCEPT !.n = chunk.size]
    <3>1. Doing("statement") /\ Continue(advanceParser(parser), chunk, <<Expression, t>> \o <<newlines>>)
      BY <2>5 DEF WhileStatement, Keyword, newlines
    <3>2. t \in TaskType /\ t.do = "body"
      <4>1. chunk.size \in Nat
        BY <3>1, Doings
      <4>. QED  BY <4>1, TaskKinds DEF Deeds
    <3>. HIDE DEF t
    <3>. QED  BY <3>1, <3>2, Zenon
  <2>6. CASE PrintStatement
    BY <2>2, <2>6, Zenon DEF PrintStatement, Keyword, newlines
  <2>7. CASE ExpressionStatement
    BY <2>3, <2>7, Zenon DEF ExpressionStatement, newlines
  <2>. QED  BY <2>4, <2>5, <2>6, <2>7
<1>. DEFINE tasks == <<Expression, t, newlines>>
<1>3. tasks \in Seq(TaskType) /\ Ladder(tasks, 0, 0)
  BY <1>1, <1>2, ExpressionTasks, ValueLadders
<1>4. \E p : Continue(p, chunk, tasks)
  <2>1. <<Expression, t>> \o <<newlines>> = tasks
    BY <1>1, ExpressionTasks, LongerByOne
  <2>. QED  BY <2>1, <1>2, Zenon
<1>. HIDE DEF tasks
<1>5. \A a, b \in Nat : Rises(Now, a, b) => a = 0 /\ b = 0
  BY <1>2, Doings, GroundKinds, GroundRises
<1>6. \A a, b \in Nat : Rises(Now, a, b) => Ladder(tasks, a, b)
  BY <1>3, <1>5, Zenon
<1>. QED  BY <1>2, <1>3, <1>4, <1>6, LiftStay

LEMMA ValuesUsedLift ==
  ASSUME IInv, Lifted(agenda, chunk), SetVariable \/ PopValue \/ PrintValue
  PROVE  Lifted(agenda, chunk)'
<1>1. PICK do \in {"set", "pop", "print"} : Doing(do)
  BY DEF SetVariable, PopValue, PrintValue
<1>2. PICK i \in Instruction(Names) : /\ i.op \in {"OP_SET_VARIABLE", "OP_POP", "OP_PRINT"}
                                      /\ \E p : Continue(p, Write(chunk, i), <<>>)
  <2>1. CASE SetVariable
    <3>. DEFINE i == Named("OP_SET_VARIABLE", Now.name)
                p == consumeIf(parser, Terminators)
    <3>1. Doing("set") /\ Continue(p, Write(chunk, i), <<>>)
      BY <2>1 DEF SetVariable
    <3>2. i \in Instruction(Names) /\ i.op = "OP_SET_VARIABLE"
      <4>1. Now.name \in Names
        BY <3>1, Doings, TaskFields
      <4>. QED  BY <4>1, InstructionTypes, InstructionFields DEF OpCode, NameOps
    <3>. HIDE DEF i, p
    <3>. QED  BY <3>1, <3>2, Zenon
  <2>2. CASE PopValue
    <3>1. Simple("OP_POP") \in Instruction(Names) /\ Simple("OP_POP").op = "OP_POP"
      BY InstructionTypes, InstructionFields DEF OpCode, ConsumerOps
    <3>. QED  BY <2>2, <3>1, Zenon DEF PopValue
  <2>3. CASE PrintValue
    <3>1. Simple("OP_PRINT") \in Instruction(Names) /\ Simple("OP_PRINT").op = "OP_PRINT"
      BY InstructionTypes, InstructionFields DEF OpCode, ConsumerOps
    <3>. QED  BY <2>3, <3>1, Zenon DEF PrintValue
  <2>. QED  BY <2>1, <2>2, <2>3
<1>3. ASSUME NEW a \in Nat, NEW b \in Nat, Rises(Now, a, b)
      PROVE  \E m \in Nat : Leads(i, a, m) /\ Ladder(<<>>, m, b)
  <2>1. a = 1 /\ b = 0
    BY <1>1, <1>3, Doings DEF Rises
  <2>2. Leads(i, 1, 0)
    BY <1>2 DEF Leads, Calm, StackEffect, ValueOps, BinaryOps, ConsumerOps, ScopeOps
  <2>3. Ladder(<<>>, 0, 0)
    BY GroundTasks, GroundLadder DEF Grounded
  <2>. QED  BY <2>1, <2>2, <2>3
<1>4. <<>> \in Seq(TaskType)
  BY GroundTasks DEF Grounded
<1>. QED  BY <1>1, <1>2, <1>3, <1>4, LiftWrite

LEMMA BranchesLift ==
  ASSUME IInv, Lifted(agenda, chunk), Then \/ LoopBody
  PROVE  Lifted(agenda, chunk)'
<1>. DEFINE i == Literal("OP_JUMP_IF_FALSE", Unpatched)
<1>1. PICK do \in {"then", "body"} : Doing(do)
  BY DEF Then, LoopBody
<1>2. i \in Instruction(Names) /\ i.op = "OP_JUMP_IF_FALSE"
  BY JumpInstruction DEF JumpOps, Unpatched
<1>3. PICK t \in TaskType : t.do \in Ground /\ Continue(parser, Write(chunk, i), <<Task("statement"), t>>)
  <2>1. chunk.size \in Nat /\ Now.n \in Nat
    BY <1>1, Doings, TaskFields
  <2>2. CASE Then
    <3>. DEFINE t == At("else", chunk.size)
    <3>1. t \in TaskType /\ t.do \in Ground
      BY <2>1, TaskKinds, GroundKinds
    <3>2. Continue(parser, Write(chunk, i), <<Task("statement"), t>>)
      BY <2>2 DEF Then
    <3>. HIDE DEF i, t
    <3>. QED  BY <3>1, <3>2
  <2>3. CASE LoopBody
    <3>. DEFINE t == [At("loop", chunk.size) EXCEPT !.n = Now.n]
    <3>1. t \in TaskType /\ t.do \in Ground
      BY <2>1, TaskKinds, GroundKinds
    <3>2. Continue(parser, Write(chunk, i), <<Task("statement"), t>>)
      BY <2>3 DEF LoopBody
    <3>. HIDE DEF i, t
    <3>. QED  BY <3>1, <3>2
  <2>. QED  BY <2>2, <2>3
<1>. DEFINE tasks == <<Task("statement"), t>>
<1>. HIDE DEF i
<1>4. Grounded(tasks)
  BY <1>3, GroundKinds, GroundTasks
<1>5. Continue(parser, Write(chunk, i), tasks)
  BY <1>3
<1>. HIDE DEF tasks
<1>6. tasks \in Seq(TaskType) /\ Ladder(tasks, 0, 0)
  BY <1>4, GroundLadder DEF Grounded
<1>7. ASSUME NEW a \in Nat, NEW b \in Nat, Rises(Now, a, b)
      PROVE  \E m \in Nat : Leads(i, a, m) /\ Ladder(tasks, m, b)
  <2>1. a = 1 /\ b = 0
    BY <1>1, <1>7, Doings DEF Rises
  <2>2. Leads(i, 1, 0)
    BY <1>2 DEF Leads, Calm, StackEffect, ValueOps, BinaryOps, ConsumerOps, ScopeOps
  <2>. QED  BY <2>1, <2>2, <1>6
<1>. QED  BY <1>1, <1>2, <1>5, <1>6, <1>7, LiftWrite

\* The rest of an expression keeps the value that is there.
LEMMA OperandLeads ==
  ASSUME NEW t \in Token(Names), t.type \in OperandTypes, NEW a \in Nat
  PROVE  OperandCode(t) \in Instruction(Names) /\ Leads(OperandCode(t), a, a + 1)
<1>1. OperandCode(t) \in Instruction(Names)
  BY OperandCodes DEF Ordinary
<1>2. OperandCode(t).op \in ValueOps
  <2>. HIDE DEF Literal, Simple, Named
  <2>. QED  BY InstructionFields DEF OperandCode, OperandTypes, ValueOps
<1>. DEFINE i == OperandCode(t)
<1>3. StackEffect(OperandCode(t)) = 1
  <2>1. i.op \in ValueOps
    BY <1>2
  <2>. HIDE DEF i
  <2>2. StackEffect(i) = 1
    BY <2>1 DEF StackEffect, ValueOps, BinaryOps, ConsumerOps
  <2>. QED  BY <2>2 DEF i
<1>4. OperandCode(t).op \notin Calm /\ OperandCode(t).op # "OP_JUMP_IF_FALSE"
  BY <1>2 DEF ValueOps, Calm, ScopeOps
<1>. QED  BY <1>1, <1>3, <1>4 DEF Leads

LEMMA PrefixLifts ==
  ASSUME IInv, Lifted(agenda, chunk), PrefixRule
  PROVE  Lifted(agenda, chunk)'
<1>. DEFINE p == advanceParser(parser)
            t == p.previous
            infix == Infix(Now.n)
            unary == Operator("unary", t.type)
            close == Task("close")
            prefix == Prefix(PREC_UNARY)
<1>1. /\ Doing("prefix")
      /\ \/ t.type \in OperandTypes /\ Continue(p, Write(chunk, OperandCode(t)), <<infix>>)
         \/ Continue(p, chunk, <<Expression, close, infix>>)
         \/ Continue(p, chunk, <<prefix, unary, infix>>)
         \/ Continue(p, chunk, <<>>)
  BY DEF PrefixRule
<1>2. t \in Token(Names)
  BY <1>1, Doings, ParserMoves
<1>3. infix \in TaskType /\ infix.do = "infix"
  <2>1. Now.n \in Nat
    BY <1>1, Doings, TaskFields
  <2>. QED  BY <2>1, TaskKinds DEF Infix, Deeds
<1>4. close \in TaskType /\ close.do = "close"
  BY PlainTasks DEF Deeds
<1>5. unary \in TaskType /\ unary.do = "unary"
  <2>1. t.type \in token_t
    BY <1>2, TokenFields
  <2>. QED  BY <2>1, TaskKinds DEF Deeds
<1>6. /\ Expression \in TaskType /\ Expression.do = "prefix"
      /\ prefix \in TaskType /\ prefix.do = "prefix"
  <2>1. "prefix" \in Deeds /\ PREC_ASSIGNMENT \in Nat /\ PREC_UNARY \in Nat
    BY DEF Deeds, PREC_ASSIGNMENT, PREC_UNARY
  <2>. QED  BY <2>1, TaskKinds DEF Expression, Prefix
<1>. HIDE DEF p, t, infix, unary, close, prefix, Expression
<1>7. \A a, b \in Nat : Rises(Now, a, b) => b = a + 1
  BY <1>1, Doings DEF Rises
<1>8. \A a \in Nat : /\ a + 1 \in Nat /\ Rises(infix, a + 1, a + 1) /\ Rises(close, a + 1, a + 1)
                     /\ Rises(unary, a + 1, a + 1) /\ Rises(Expression, a, a + 1)
                     /\ Rises(prefix, a, a + 1) /\ a <= a + 1
  BY <1>3, <1>4, <1>5, <1>6 DEF Rises
<1>9. CASE t.type \in OperandTypes /\ Continue(p, Write(chunk, OperandCode(t)), <<infix>>)
  <2>1. OperandCode(t) \in Instruction(Names)
    <3>1. 0 \in Nat
      OBVIOUS
    <3>. QED  BY <1>2, <1>9, <3>1, OperandLeads
  <2>2. ASSUME NEW a \in Nat, NEW b \in Nat, Rises(Now, a, b)
        PROVE  \E m \in Nat : Leads(OperandCode(t), a, m) /\ Ladder(<<infix>>, m, b)
    <3>1. b = a + 1 /\ a + 1 \in Nat /\ Rises(infix, a + 1, a + 1)
      BY <1>7, <1>8, <2>2
    <3>2. Leads(OperandCode(t), a, a + 1)
      BY <1>2, <1>9, OperandLeads
    <3>3. Ladder(<<infix>>, b, b)
      <4>1. Rises(infix, b, b)
        BY <3>1
      <4>. QED  BY <4>1, <1>3, Ladders
    <3>4. Leads(OperandCode(t), a, b)
      BY <3>1, <3>2
    <3>. QED  BY <3>3, <3>4, Zenon
  <2>3. <<infix>> \in Seq(TaskType)
    BY <1>3
  <2>. QED  BY <1>1, <1>9, <2>1, <2>2, <2>3, LiftWrite
<1>10. CASE Continue(p, chunk, <<Expression, close, infix>>)
  <2>1. ASSUME NEW a \in Nat, NEW b \in Nat, Rises(Now, a, b)
        PROVE  Ladder(<<Expression, close, infix>>, a, b)
    <3>1. Rises(Expression, a, b) /\ Rises(close, b, b) /\ Rises(infix, b, b)
      BY <1>7, <1>8, <2>1
    <3>. QED  BY <3>1, <1>3, <1>4, <1>6, Ladders
  <2>2. <<Expression, close, infix>> \in Seq(TaskType)
    BY <1>3, <1>4, <1>6
  <2>. QED  BY <1>1, <1>10, <2>1, <2>2, LiftStay
<1>11. CASE Continue(p, chunk, <<prefix, unary, infix>>)
  <2>1. ASSUME NEW a \in Nat, NEW b \in Nat, Rises(Now, a, b)
        PROVE  Ladder(<<prefix, unary, infix>>, a, b)
    <3>1. Rises(prefix, a, b) /\ Rises(unary, b, b) /\ Rises(infix, b, b)
      BY <1>7, <1>8, <2>1
    <3>. QED  BY <3>1, <1>3, <1>5, <1>6, Ladders
  <2>2. <<prefix, unary, infix>> \in Seq(TaskType)
    BY <1>3, <1>5, <1>6
  <2>. QED  BY <1>1, <1>11, <2>1, <2>2, LiftStay
<1>12. CASE Continue(p, chunk, <<>>)
  <2>1. ASSUME NEW a \in Nat, NEW b \in Nat, Rises(Now, a, b)
        PROVE  Ladder(<<>>, a, b)
    <3>1. a <= b
      BY <1>7, <1>8, <2>1
    <3>. QED  BY <3>1, Ladders
  <2>2. <<>> \in Seq(TaskType)
    BY GroundTasks DEF Grounded
  <2>. QED  BY <1>1, <1>12, <2>1, <2>2, LiftStay
<1>. QED  BY <1>1, <1>9, <1>10, <1>11, <1>12

LEMMA InfixLifts ==
  ASSUME IInv, Lifted(agenda, chunk), InfixRule
  PROVE  Lifted(agenda, chunk)'
<1>. DEFINE type == Current(parser).type
            prefix == Prefix(PrecedenceOf(type) + 1)
            binary == Operator("binary", type)
            tasks == <<prefix, binary, Now>>
<1>1. /\ Doing("infix")
      /\ \/ Continue(advanceParser(parser), chunk, tasks)
         \/ Continue(parser, chunk, <<>>)
  BY DEF InfixRule
<1>2. Now \in TaskType /\ Now.do = "infix"
  BY <1>1, Doings
<1>3. type \in token_t
  BY <1>1, Doings, ParserMoves, TokenFields
<1>. HIDE DEF type
<1>4. prefix \in TaskType /\ prefix.do = "prefix"
  <2>1. PrecedenceOf(type) + 1 \in Nat
    BY PrecedenceFacts
  <2>. QED  BY <2>1, TaskKinds DEF Prefix, Deeds
<1>5. binary \in TaskType /\ binary.do = "binary"
  BY <1>3, TaskKinds DEF Deeds
<1>. HIDE DEF prefix, binary
<1>6. \A a, b \in Nat : Rises(Now, a, b) => a = b /\ a <= b
  BY <1>2 DEF Rises
<1>7. \A a \in Nat : /\ a + 1 \in Nat /\ Rises(prefix, a, a + 1) /\ Rises(binary, a + 1, a)
  BY <1>4, <1>5 DEF Rises
<1>8. ASSUME NEW a \in Nat, NEW b \in Nat, Rises(Now, a, b)
      PROVE  Ladder(tasks, a, b) /\ Ladder(<<>>, a, b)
  <2>1. a <= b
    BY <1>6, <1>8
  <2>2. a = b
    BY <1>6, <1>8
  <2>3. PICK m \in Nat : Rises(prefix, a, m) /\ Rises(binary, m, a)
    BY <1>7
  <2>4. Rises(Now, a, a)
    BY <1>8, <2>2
  <2>5. Ladder(tasks, a, a)
    BY <2>3, <2>4, <1>2, <1>4, <1>5, Ladders
  <2>6. Ladder(<<>>, a, b)
    BY <2>1, Ladders
  <2>. QED  BY <2>2, <2>5, <2>6
<1>9. tasks \in Seq(TaskType) /\ <<>> \in Seq(TaskType)
  BY <1>2, <1>4, <1>5
<1>. HIDE DEF tasks
<1>10. CASE Continue(advanceParser(parser), chunk, tasks)
  BY <1>1, <1>8, <1>9, <1>10, LiftStay
<1>11. CASE Continue(parser, chunk, <<>>)
  BY <1>1, <1>8, <1>9, <1>11, LiftStay
<1>. QED  BY <1>1, <1>10, <1>11

LEMMA CloseLifts ==
  ASSUME IInv, Lifted(agenda, chunk), Close
  PROVE  Lifted(agenda, chunk)'
<1>1. Doing("close") /\ Continue(consumeIf(parser, {"TK_PAREN_CLOSE"}), chunk, <<>>)
  BY DEF Close
<1>2. ASSUME NEW a \in Nat, NEW b \in Nat, Rises(Now, a, b)
      PROVE  Ladder(<<>>, a, b)
  <2>1. a <= b
    BY <1>1, <1>2, Doings DEF Rises
  <2>. QED  BY <2>1, Ladders
<1>3. <<>> \in Seq(TaskType)
  BY GroundTasks DEF Grounded
<1>. QED  BY <1>1, <1>2, <1>3, LiftStay

\* Operators take their operands and leave a value.
LEMMA OperatorLeads ==
  ASSUME NEW a \in Nat
  PROVE  /\ \A op \in UnaryOps : /\ Simple(op) \in Instruction(Names)
                                 /\ Leads(Simple(op), a, a)
         /\ \A op \in BinaryOps : /\ Simple(op) \in Instruction(Names)
                                  /\ Leads(Simple(op), a + 1, a)
<1>1. ASSUME NEW op \in UnaryOps
      PROVE  Simple(op) \in Instruction(Names) /\ Leads(Simple(op), a, a)
  <2>1. Simple(op) \in Instruction(Names) /\ Simple(op).op = op
    BY InstructionTypes, InstructionFields DEF OpCode
  <2>2. op \notin Calm /\ op # "OP_JUMP_IF_FALSE" /\ op \notin ValueOps /\ op \notin BinaryOps \cup ConsumerOps
    BY DEF UnaryOps, Calm, ScopeOps, ValueOps, BinaryOps, ConsumerOps
  <2>3. StackEffect(Simple(op)) = 0
    BY <2>1, <2>2 DEF StackEffect
  <2>. QED  BY <2>1, <2>2, <2>3 DEF Leads
<1>2. ASSUME NEW op \in BinaryOps
      PROVE  Simple(op) \in Instruction(Names) /\ Leads(Simple(op), a + 1, a)
  <2>1. Simple(op) \in Instruction(Names) /\ Simple(op).op = op
    BY InstructionTypes, InstructionFields DEF OpCode
  <2>2. op \notin Calm /\ op # "OP_JUMP_IF_FALSE" /\ op \notin ValueOps
    BY DEF Calm, ScopeOps, ValueOps, BinaryOps
  <2>3. StackEffect(Simple(op)) = -1
    BY <2>1, <2>2 DEF StackEffect
  <2>. QED  BY <2>1, <2>2, <2>3 DEF Leads
<1>. QED  BY <1>1, <1>2

LEMMA UnaryLifts ==
  ASSUME IInv, Lifted(agenda, chunk), Unary
  PROVE  Lifted(agenda, chunk)'
<1>1. Doing("unary") /\ Continue(parser, Write(chunk, UnaryCode(Now.type)), <<>>)
  BY DEF Unary
<1>2. PICK op \in UnaryOps : UnaryCode(Now.type) = Simple(op)
  BY DEF UnaryCode, UnaryOps
<1>3. Simple(op) \in Instruction(Names)
  <2>1. 0 \in Nat
    OBVIOUS
  <2>. QED  BY <2>1, OperatorLeads
<1>4. ASSUME NEW a \in Nat, NEW b \in Nat, Rises(Now, a, b)
      PROVE  \E m \in Nat : Leads(Simple(op), a, m) /\ Ladder(<<>>, m, b)
  <2>1. a <= b
    BY <1>1, <1>4, Doings DEF Rises
  <2>. QED  BY <2>1, Ladders, OperatorLeads
<1>5. <<>> \in Seq(TaskType)
  BY GroundTasks DEF Grounded
<1>. QED  BY <1>1, <1>2, <1>3, <1>4, <1>5, LiftWrite

LEMMA HeadReplaced ==
  ASSUME NEW ag \in Seq(TaskType), ag # <<>>, NEW t \in TaskType
  PROVE  LET new == <<t>> \o Tail(ag)
         IN  new \in Seq(TaskType) /\ new # <<>> /\ new[1] = t /\ Tail(new) = Tail(ag)
<1>. DEFINE new == <<t>> \o Tail(ag)
<1>1. Tail(ag) \in Seq(TaskType) /\ <<t>> \in Seq(TaskType) /\ Len(<<t>>) = 1 /\ <<t>>[1] = t
      /\ Len(Tail(ag)) \in Nat
  OBVIOUS
<1>2. /\ new \in Seq(TaskType) /\ Len(new) = 1 + Len(Tail(ag)) /\ new[1] = t
      /\ \A k \in 1 .. Len(Tail(ag)) : new[k + 1] = Tail(ag)[k]
  BY <1>1
<1>. HIDE DEF new
<1>3. new # <<>>
  BY <1>1, <1>2
<1>4. /\ Tail(new) \in Seq(TaskType) /\ Len(Tail(new)) = Len(Tail(ag))
      /\ \A k \in 1 .. Len(Tail(ag)) : Tail(new)[k] = new[k + 1]
  BY <1>1, <1>2, <1>3
<1>5. Tail(new) = Tail(ag)
  BY <1>1, <1>2, <1>4, SeqEqual
<1>. QED  BY <1>2, <1>3, <1>5 DEF new

LEMMA BinaryLifts ==
  ASSUME IInv, Lifted(agenda, chunk), Binary
  PROVE  Lifted(agenda, chunk)'
<1>1. Doing("binary") /\ Continue(parser, WriteAll(chunk, BinaryCode(Now.type)), <<>>)
  BY DEF Binary
<1>2. Now.type \in OperatorTypes
  BY <1>1, NowFits
<1>3. PICK op \in BinaryOps : \/ BinaryCode(Now.type) = <<Simple(op)>>
                              \/ BinaryCode(Now.type) = <<Simple(op), Simple("OP_NOT")>>
  BY <1>2, BinaryCodes
<1>. DEFINE i == Simple(op)
            j == Simple("OP_NOT")
<1>4. i \in Instruction(Names) /\ j \in Instruction(Names)
  <2>1. 0 \in Nat /\ "OP_NOT" \in UnaryOps
    BY DEF UnaryOps
  <2>. QED  BY <2>1, OperatorLeads
<1>5. \A a \in Nat : Leads(i, a + 1, a) /\ Leads(j, a, a)
  BY OperatorLeads DEF UnaryOps
<1>6. \A a, b \in Nat : Rises(Now, a, b) => a = b + 1
  BY <1>1, Doings DEF Rises
<1>7. <<>> \in Seq(TaskType) /\ \A b \in Nat : Ladder(<<>>, b, b)
  BY Ladders
<1>. HIDE DEF i, j
<1>8. CASE BinaryCode(Now.type) = <<i>>
  <2>1. Continue(parser, Write(chunk, i), <<>>)
    BY <1>1, <1>8 DEF WriteAll
  <2>2. ASSUME NEW a \in Nat, NEW b \in Nat, Rises(Now, a, b)
        PROVE  \E m \in Nat : Leads(i, a, m) /\ Ladder(<<>>, m, b)
    BY <1>5, <1>6, <1>7, <2>2
  <2>. QED  BY <1>1, <1>4, <1>7, <2>1, <2>2, LiftWrite
<1>9. CASE BinaryCode(Now.type) = <<i, j>>
  <2>. DEFINE w == Write(chunk, i)
              v == Write(w, j)
              mid == At("unary", 0)
              ag == <<mid>> \o Tail(agenda)
  <2>1. agenda' = <<>> \o Tail(agenda) /\ chunk' = v
    BY <1>1, <1>9 DEF WriteAll, Continue
  <2>2. /\ Solid(chunk) /\ agenda \in Seq(TaskType) /\ agenda # <<>> /\ Now = agenda[1]
    BY <1>1, Doings DEF Now
  <2>3. Solid(w)
    BY <1>4, <2>2, WriteFacts
  <2>4. mid \in TaskType /\ mid.do = "unary"
    BY TaskKinds DEF Deeds
  <2>. HIDE DEF w, mid
  <2>5. \A b \in Nat : Ladder(<<mid>>, b, b)
    <3>1. \A b \in Nat : Rises(mid, b, b)
      BY <2>4 DEF Rises
    <3>. QED  BY <3>1, <2>4, Ladders
  <2>6. <<mid>> \in Seq(TaskType)
    BY <2>4
  <2>7. Lifted(ag, w)
    <3>1. ASSUME NEW a \in Nat, NEW b \in Nat, Rises(agenda[1], a, b)
          PROVE  \E m \in Nat : Leads(i, a, m) /\ Ladder(<<mid>>, m, b)
      BY <1>5, <1>6, <2>2, <2>5, <3>1
    <3>. QED  BY <1>4, <2>2, <2>6, <3>1, WriteLifts DEF w
  <2>8. /\ ag \in Seq(TaskType) /\ ag # <<>> /\ ag[1] = mid /\ Tail(ag) = Tail(agenda)
    BY <2>2, <2>4, <2>6, HeadReplaced
  <2>. HIDE DEF ag
  <2>9. Lifted(<<>> \o Tail(ag), v)
    <3>1. ASSUME NEW a \in Nat, NEW b \in Nat, Rises(ag[1], a, b)
          PROVE  \E m \in Nat : Leads(j, a, m) /\ Ladder(<<>>, m, b)
      <4>1. a = b
        BY <2>4, <2>8, <3>1 DEF Rises
      <4>. QED  BY <4>1, <1>5, <1>7
    <3>. QED  BY <1>4, <1>7, <2>3, <2>7, <2>8, <3>1, WriteLifts
  <2>. QED  BY <2>1, <2>8, <2>9, Zenon
<1>. QED  BY <1>3, <1>8, <1>9 DEF i, j

\* A jump or header is patched, after an instruction has been written or not.
LEMMA LiftPatch ==
  ASSUME IInv, Lifted(agenda, chunk), NEW do \in {"else", "patch", "loop", "endFunction"}, Doing(do),
         NEW tasks, Grounded(tasks), NEW c,
         c = chunk \/ \E i \in Instruction(Names) : i.op \in Calm /\ c = Write(chunk, i),
         NEW n \in Nat, NEW p, Continue(p, Patch(c, Now.at, n), tasks)
  PROVE  Lifted(agenda, chunk)'
<1>1. /\ agenda \in Seq(TaskType) /\ agenda # <<>> /\ Now = agenda[1] /\ Solid(chunk)
      /\ Now \in TaskType /\ Now.do = do
  BY Doings DEF Now
<1>2. Now.at \in Starts(chunk)
  BY NowPatches DEF Patchers
<1>3. \A a, b \in Nat : Rises(agenda[1], a, b) => a = 0 /\ b = 0
  BY <1>1, GroundKinds, GroundRises
<1>4. tasks \in Seq(TaskType) /\ Ladder(tasks, 0, 0) /\ 0 \in Nat
  BY GroundLadder DEF Grounded
<1>5. Lifted(tasks \o Tail(agenda), c) /\ Solid(c) /\ Now.at \in Starts(c)
  <2>1. CASE c = chunk
    <3>1. \A a, b \in Nat : Rises(agenda[1], a, b) => Ladder(tasks, a, b)
      BY <1>3, <1>4, Zenon
    <3>2. Lifted(tasks \o Tail(agenda), chunk)
      BY <3>1, <1>1, <1>4, StayLifts
    <3>. QED  BY <2>1, <3>2, <1>1, <1>2
  <2>2. ASSUME NEW i \in Instruction(Names), i.op \in Calm, c = Write(chunk, i)
        PROVE  Lifted(tasks \o Tail(agenda), c) /\ Solid(c) /\ Now.at \in Starts(c)
    <3>1. Leads(i, 0, 0)
      BY <2>2, CalmLeads
    <3>2. \A a, b \in Nat : Rises(agenda[1], a, b) => \E m \in Nat : Leads(i, a, m) /\ Ladder(tasks, m, b)
      BY <3>1, <1>3, <1>4, Zenon
    <3>3. Lifted(tasks \o Tail(agenda), c)
      BY <2>2, <3>2, <1>1, <1>4, WriteLifts
    <3>4. Solid(c) /\ Now.at \in Starts(c)
      BY <2>2, <1>1, <1>2, WriteFacts DEF Ends
    <3>. QED  BY <3>3, <3>4
  <2>. QED  BY <2>1, <2>2
<1>6. agenda' = tasks \o Tail(agenda) /\ chunk' = Patch(c, Now.at, n)
  BY DEF Continue
<1>7. Lifted(tasks \o Tail(agenda), Patch(c, Now.at, n))
  BY <1>5, PatchLifts
<1>. QED  BY <1>6, <1>7

LEMMA PatchesLift ==
  ASSUME IInv, Lifted(agenda, chunk), Else \/ PatchJump \/ Loop \/ EndFunction
  PROVE  Lifted(agenda, chunk)'
<1>1. ASSUME NEW do \in Patchers, Doing(do)
      PROVE  /\ Now.at \in Starts(chunk) /\ Now.at \in Nat /\ chunk.size - Now.at \in Nat
             /\ Solid(chunk) /\ chunk.size \in Nat
             /\ \A i \in Instruction(Names) : /\ Write(chunk, i).size - Now.at \in Nat
                                              /\ Write(chunk, i).size - (Now.at + 1) \in Nat
  <2>1. Now.at \in Starts(chunk) /\ Now.at \in Nat /\ chunk.size - Now.at \in Nat
    BY <1>1, NowPatches
  <2>2. Solid(chunk) /\ chunk.size \in Nat
    BY <1>1, Doings
  <2>3. ASSUME NEW i \in Instruction(Names)
        PROVE  Write(chunk, i).size \in Nat /\ chunk.size < Write(chunk, i).size
    BY <2>2, WriteFacts
  <2>. QED  BY <2>1, <2>2, <2>3
<1>2. CASE Else
  <2>. DEFINE jump == Literal("OP_JUMP", Unpatched)
              w == Write(chunk, jump)
              patch == At("patch", chunk.size)
  <2>1. /\ Doing("else")
        /\ \/ Continue(advanceParser(parser), Patch(w, Now.at, w.size - Now.at), <<Task("statement"), patch>>)
           \/ Continue(parser, Patch(chunk, Now.at, chunk.size - Now.at), <<>>)
    BY <1>2 DEF Else, patchJump, Distance
  <2>2. jump \in Instruction(Names) /\ jump.op \in Calm
    BY JumpInstruction, CalmLeads DEF JumpOps, Unpatched
  <2>3. /\ Task("statement") \in TaskType /\ Task("statement").do \in Ground
        /\ patch \in TaskType /\ patch.do \in Ground
    BY <2>1, Doings, TaskKinds, GroundKinds
  <2>. HIDE DEF patch, jump
  <2>4. Grounded(<<>>) /\ Grounded(<<Task("statement"), patch>>)
    BY <2>3, GroundTasks
  <2>5. w.size - Now.at \in Nat /\ chunk.size - Now.at \in Nat
    BY <1>1, <2>1, <2>2 DEF Patchers
  <2>6. w = chunk \/ \E i \in Instruction(Names) : i.op \in Calm /\ w = Write(chunk, i)
    BY <2>2
  <2>. HIDE DEF w
  <2>7. CASE Continue(parser, Patch(chunk, Now.at, chunk.size - Now.at), <<>>)
    BY <2>1, <2>4, <2>5, <2>7, LiftPatch
  <2>8. CASE Continue(advanceParser(parser), Patch(w, Now.at, w.size - Now.at), <<Task("statement"), patch>>)
    BY <2>1, <2>4, <2>5, <2>6, <2>8, LiftPatch
  <2>. QED  BY <2>1, <2>7, <2>8
<1>3. CASE PatchJump
  <2>1. Doing("patch") /\ Continue(parser, Patch(chunk, Now.at, chunk.size - Now.at), <<>>)
    BY <1>3 DEF PatchJump, patchJump, Distance
  <2>2. chunk.size - Now.at \in Nat
    BY <1>1, <2>1 DEF Patchers
  <2>. QED  BY <2>1, <2>2, GroundTasks, LiftPatch
<1>4. CASE Loop
  <2>. DEFINE i == Literal("OP_LOOP", Distance(chunk, Now.n))
              w == Write(chunk, i)
  <2>1. Doing("loop") /\ Continue(parser, Patch(w, Now.at, w.size - Now.at), <<>>)
    BY <1>4 DEF Loop, emitLoop, patchJump, Distance
  <2>2. Distance(chunk, Now.n) \in Nat
    <3>1. PICK place, plan : Planned(agenda, chunk, place, plan)
      BY <2>1, Doings DEF Held
    <3>2. 1 \in 1 .. Len(agenda)
      <4>1. agenda \in Seq(TaskType) /\ agenda # <<>>
        BY <2>1, Doings
      <4>. QED  BY <4>1
    <3>3. Fits(Now, chunk, place, plan[1])
      BY <3>1, <3>2 DEF Planned, Now
    <3>4. Now.n \in Ends(chunk)
      BY <2>1, <3>3, Doings DEF Fits
    <3>5. chunk.size \in Nat /\ Starts(chunk) \subseteq 0 .. chunk.size - 1
      BY <2>1, Doings DEF Solid
    <3>. QED  BY <3>4, <3>5 DEF Ends, Distance
  <2>3. i \in Instruction(Names) /\ i.op \in Calm
    BY <2>2, JumpInstruction, CalmLeads DEF JumpOps
  <2>. HIDE DEF i
  <2>4. w.size - Now.at \in Nat
    BY <1>1, <2>1, <2>3 DEF Patchers
  <2>5. w = chunk \/ \E j \in Instruction(Names) : j.op \in Calm /\ w = Write(chunk, j)
    BY <2>3
  <2>. HIDE DEF w
  <2>. QED  BY <2>1, <2>4, <2>5, GroundTasks, LiftPatch
<1>5. CASE EndFunction
  <2>. DEFINE i == Simple("OP_RETURN")
              w == Write(chunk, i)
  <2>1. Doing("endFunction") /\ Continue(parser, Patch(w, Now.at, w.size - (Now.at + 1)), <<>>)
    BY <1>5 DEF EndFunction, Distance
  <2>2. i \in Instruction(Names) /\ i.op \in Calm
    BY ScopeInstructions, InstructionFields, CalmLeads
  <2>. HIDE DEF i
  <2>3. w.size - (Now.at + 1) \in Nat
    BY <1>1, <2>1, <2>2 DEF Patchers
  <2>4. w = chunk \/ \E j \in Instruction(Names) : j.op \in Calm /\ w = Write(chunk, j)
    BY <2>2
  <2>. HIDE DEF w
  <2>. QED  BY <2>1, <2>3, <2>4, GroundTasks, LiftPatch
<1>. QED  BY <1>2, <1>3, <1>4, <1>5

LEMMA EndLifts ==
  ASSUME IInv, Lifted(agenda, chunk), EndCompiler
  PROVE  Lifted(agenda, chunk)'
<1>. DEFINE i == Simple("OP_RETURN")
<1>1. Doing("program") /\ chunk' = Write(chunk, i) /\ agenda' = <<>>
  BY DEF EndCompiler
<1>2. i \in Instruction(Names) /\ i.op \in Calm
  BY ScopeInstructions, InstructionFields, CalmLeads
<1>. HIDE DEF i
<1>3. agenda \in Seq(TaskType) /\ agenda # <<>> /\ Solid(chunk) /\ agenda[1].do = "program"
      /\ agenda[1] \in TaskType
  BY <1>1, Doings DEF Now
<1>4. <<>> \o Tail(agenda) = <<>>
  <2>1. PICK place, plan : Planned(agenda, chunk, place, plan)
    BY <1>1, Doings DEF Held
  <2>2. 1 \in 1 .. Len(agenda)
    BY <1>3
  <2>3. Len(agenda) = 1
    BY <2>1, <2>2, <1>3 DEF Planned
  <2>4. Tail(agenda) \in Seq(TaskType) /\ Len(Tail(agenda)) = 0
    BY <2>3, <1>3
  <2>5. Tail(agenda) = <<>>
    BY <2>4, EmptySeq
  <2>. QED  BY <2>5
<1>5. \A a, b \in Nat : Rises(agenda[1], a, b) => a = 0 /\ b = 0
  BY <1>3, GroundKinds, GroundRises
<1>6. Leads(i, 0, 0) /\ Ladder(<<>>, 0, 0) /\ <<>> \in Seq(TaskType) /\ 0 \in Nat
  BY <1>2, CalmLeads, GroundTasks, GroundLadder DEF Grounded
<1>7. \A a, b \in Nat : Rises(agenda[1], a, b) => \E m \in Nat : Leads(i, a, m) /\ Ladder(<<>>, m, b)
  BY <1>5, <1>6, Zenon
<1>8. Lifted(<<>> \o Tail(agenda), Write(chunk, i))
  BY <1>2, <1>3, <1>6, <1>7, WriteLifts
<1>. QED  BY <1>1, <1>4, <1>8

LEMMA StopsLift ==
  ASSUME Lifted(agenda, chunk),
         \/ WildRule \/ Overrun \/ WildName \/ Misencoded \/ TooFar \/ OutOfMemory \/ UNCHANGED vars
  PROVE  Lifted(agenda, chunk)'
<1>1. agenda' = agenda /\ chunk' = chunk
  BY DEF vars, Stop, WildRule, Overrun, WildName, Misencoded, TooFar, OutOfMemory
<1>. QED  BY <1>1

LEMMA InitLifted ==
  ASSUME Init
  PROVE  Lifted(agenda, chunk)
<1>. DEFINE c == [code |-> [o \in {} |-> Simple("OP_RETURN")], size |-> 0]
            ag == <<Task("program")>>
            depth == [p \in {0} |-> 0]
            h == [k \in 1 .. 2 |-> 0]
<1>1. agenda = ag /\ chunk = c
  BY DEF Init
<1>2. ag[1] \in TaskType /\ ag[1].do = "program" /\ Len(ag) = 1
  BY GroundKinds
<1>. HIDE DEF ag
<1>3. Starts(c) = {} /\ c.size = 0 /\ Ends(c) = {0}
  <2>1. Starts(c) = {} /\ c.size = 0
    BY DEF Starts
  <2>. QED  BY <2>1 DEF Ends
<1>. HIDE DEF c
<1>4. Raised(c, depth) /\ depth[c.size] <= h[1]
  BY <1>3 DEF Raised
<1>5. Heights(ag, h)
  <2>1. h \in [1 .. 1 + 1 -> Nat] /\ h[1 + 1] = 0 /\ h[1] = 0 /\ (\A k \in 1 .. 1 : k = 1)
    OBVIOUS
  <2>2. Rises(ag[1], 0, 0)
    BY <1>2 DEF Rises
  <2>. HIDE DEF h
  <2>. QED  BY <1>2, <2>1, <2>2, Zenon DEF Heights
<1>. QED  BY <1>1, <1>4, <1>5 DEF Lifted

LEMMA StepLifts ==
  ASSUME IInv, Lifted(agenda, chunk), [Next]_vars
  PROVE  Lifted(agenda, chunk)'
<1>1. CASE Program \/ EndOfFile \/ OtherStatement \/ Newlines \/ BlockLoop \/ BlockStatement
  BY <1>1, GroundStays
<1>2. CASE FunctionName \/ Parameter \/ EndParameters \/ ReturnType \/ EndReturnTypes
  BY <1>2, HeadsLift
<1>3. CASE Block \/ EndBlock \/ FunctionHeader
  BY <1>3, BlocksLift
<1>4. CASE VariableDeclaration \/ NamedStatement
  BY <1>4, NamesLift
<1>5. CASE IfStatement \/ WhileStatement \/ PrintStatement \/ ExpressionStatement
  BY <1>5, StatementsLift
<1>6. CASE SetVariable \/ PopValue \/ PrintValue
  BY <1>6, ValuesUsedLift
<1>7. CASE Then \/ LoopBody
  BY <1>7, BranchesLift
<1>8. CASE PrefixRule \/ InfixRule \/ Close \/ Unary \/ Binary
  BY <1>8, PrefixLifts, InfixLifts, CloseLifts, UnaryLifts, BinaryLifts
<1>9. CASE Else \/ PatchJump \/ Loop \/ EndFunction
  BY <1>9, PatchesLift
<1>10. CASE EndCompiler
  BY <1>10, EndLifts
<1>11. CASE \/ WildRule \/ Overrun \/ WildName \/ Misencoded \/ TooFar \/ OutOfMemory
            \/ CountOn \/ Rest \/ UNCHANGED vars
  BY <1>11, StopsLift DEF CountOn, Rest
<1>. QED  BY <1>1, <1>2, <1>3, <1>4, <1>5, <1>6, <1>7, <1>8, <1>9, <1>10, <1>11 DEF Next, Step

\* What the compiler delivers of any source.
LEMMA DeliveredWhenDone ==
  ASSUME IInv, Lifted(agenda, chunk), status = "done"
  PROVE  Deliverable(chunk) /\ chunk.code \in [Starts(chunk) -> Instruction(Names)]
<1>1. ScopeSafe(chunk) /\ \A o \in Starts(chunk) : StaysInBody(chunk, Levels(chunk), o)
  BY IInvSafe
<1>2. agenda = <<>> /\ chunk.size - 1 \in Starts(chunk)
  BY DEF IInv, Finished
<1>3. Solid(chunk)
  BY DEF IInv, Held, Sound
<1>4. 0 \in Starts(chunk)
  <2>1. chunk.size \in Nat /\ chunk.size # 0 /\ 0 \in Ends(chunk)
    BY <1>2, <1>3 DEF Solid
  <2>. QED  BY <2>1 DEF Ends
<1>5. PICK depth, h : Raised(chunk, depth) /\ Heights(agenda, h) /\ depth[chunk.size] <= h[1]
  BY DEF Lifted
<1>. DEFINE d == [o \in Starts(chunk) |-> depth[o]]
<1>6. /\ d \in [Starts(chunk) -> Nat] /\ \A o \in Starts(chunk) : d[o] = depth[o] /\ d[o] \in Nat
  BY <1>5 DEF Raised, Ends
<1>. HIDE DEF d
<1>7. ASSUME NEW o \in Starts(chunk)
      PROVE  LET i == chunk.code[o] IN
             /\ FallsThrough(i) => d[o] + StackEffect(i) <= d[o + Width(i)]
             /\ i.op \in JumpOps => d[o] + StackEffect(i) <= d[JumpTarget(o, i)]
             /\ i.op = "OP_DEC_FUNCTION" => d[o] <= d[AfterBody(o, i)]
             /\ i.op \in {"OP_FUNCTION_CALL", "OP_RETURN"} => d[o] = 0
  <2>. DEFINE i == chunk.code[o]
  <2>1. Climbs(chunk, depth, o)
    BY <1>5 DEF Raised
  <2>2. /\ FallsThrough(i) => o + Width(i) \in Starts(chunk)
        /\ i.op \in JumpOps => JumpTarget(o, i) \in Starts(chunk)
        /\ i.op = "OP_DEC_FUNCTION" => AfterBody(o, i) \in Starts(chunk)
    BY <1>1 DEF ScopeSafe
  <2>. HIDE DEF i
  <2>3. /\ FallsThrough(i) => d[o] + StackEffect(i) <= depth[o + Width(i)]
        /\ i.op \in Calm => d[o] = 0
        /\ i.op = "OP_JUMP_IF_FALSE" => d[o] <= 1
    BY <2>1, <1>6 DEF Climbs, i
  <2>4. FallsThrough(i) => d[o] + StackEffect(i) <= d[o + Width(i)]
    BY <2>2, <2>3, <1>6
  <2>5. /\ i.op \in {"OP_FUNCTION_CALL", "OP_RETURN", "OP_DEC_FUNCTION", "OP_JUMP", "OP_LOOP"} =>
             i.op \in Calm
        /\ i.op \in {"OP_JUMP", "OP_LOOP"} => StackEffect(i) = 0
        /\ i.op = "OP_JUMP_IF_FALSE" => StackEffect(i) = -1
    BY DEF Calm, StackEffect, ValueOps, BinaryOps, ConsumerOps
  <2>6. i.op = "OP_DEC_FUNCTION" => d[o] <= d[AfterBody(o, i)]
    BY <2>2, <2>3, <2>5, <1>6
  <2>7. i.op \in JumpOps => d[o] + StackEffect(i) <= d[JumpTarget(o, i)]
    <3>1. i.op \in JumpOps => i.op \in {"OP_JUMP", "OP_LOOP"} \/ i.op = "OP_JUMP_IF_FALSE"
      BY DEF JumpOps
    <3>2. CASE i.op \in {"OP_JUMP", "OP_LOOP"}
      BY <3>2, <2>2, <2>3, <2>5, <1>6 DEF JumpOps
    <3>3. CASE i.op = "OP_JUMP_IF_FALSE"
      BY <3>3, <2>2, <2>3, <2>5, <1>6 DEF JumpOps
    <3>. QED  BY <3>1, <3>2, <3>3
  <2>. QED  BY <2>3, <2>4, <2>5, <2>6, <2>7 DEF i
<1>8. Bounds(chunk, d)
  BY <1>6, <1>7 DEF Bounds
<1>. QED  BY <1>1, <1>3, <1>4, <1>8 DEF Deliverable, Solid

\* What the machine may take for granted of a chunk that compile() delivers, however broken
\* the source: its scopes balance, control stays in bodies, and the values that a failed
\* expression leaves out are never more than those a whole one has, so that the stack is
\* bounded at every offset and empty at calls and returns.
THEOREM ChunksAreDeliverable ==
  Spec => [](status = "done" => Deliverable(chunk))
<1>1. Init => IInv /\ Lifted(agenda, chunk)
  BY InitHolds, InitLifted
<1>2. IInv /\ Lifted(agenda, chunk) /\ [Next]_vars => (IInv /\ Lifted(agenda, chunk))'
  BY StepHolds, StepLifts
<1>3. IInv /\ Lifted(agenda, chunk) => (status = "done" => Deliverable(chunk))
  BY DeliveredWhenDone
<1>. QED  BY <1>1, <1>2, <1>3, PTL DEF Spec

-----------------------------------------------------------------------------
(* How long the chunk can be *)

\* What a task writes, in units, and what the tasks it goes on with write without
\* passing another token: a header has a unit for every parameter and return type.
Price(t) ==
  CASE t.do \in {"program", "statement", "set", "pop", "print", "blockLoop", "loop", "unary",
                 "endFunction"} -> 1
    [] t.do \in {"then", "block", "binary"} -> 2
    [] t.do = "body" -> 3
    [] t.do \in {"params", "returns", "header"} -> 4 + Len(t.params) + t.rets
    [] OTHER -> 0

\* What is owed at the start of every task; nothing is owed at the end.
Bill(ag, h) ==
  /\ h \in [1 .. Len(ag) + 1 -> Nat]
  /\ h[Len(ag) + 1] = 0
  /\ \A k \in 1 .. Len(ag) : h[k] = Price(ag[k]) + h[k + 1]

Owes(ag, a) == \E h : Bill(ag, h) /\ h[1] = a

\* The tasks have the price q together.
Costs(tasks, q) ==
  \A b \in Nat :
    \E hs \in [1 .. Len(tasks) + 1 -> Nat] :
      /\ hs[1] = q + b /\ hs[Len(tasks) + 1] = b
      /\ \A k \in 1 .. Len(tasks) : hs[k] = Price(tasks[k]) + hs[k + 1]

LEMMA PriceType ==
  ASSUME NEW t \in TaskType
  PROVE  Price(t) \in Nat
<1>1. Len(t.params) \in Nat /\ t.rets \in Nat
  BY TaskFields
<1>2. Price(t) \in {0, 1, 2, 3} \/ Price(t) = 4 + Len(t.params) + t.rets
  BY Zenon DEF Price
<1>. QED  BY <1>1, <1>2

LEMMA Costings ==
  /\ Costs(<<>>, 0)
  /\ \A s \in TaskType, x \in Nat : Price(s) = x => Costs(<<s>>, x)
  /\ \A s, t \in TaskType, x, y \in Nat : Price(s) = x /\ Price(t) = y => Costs(<<s, t>>, x + y)
  /\ \A s, t, u \in TaskType, x, y, z \in Nat :
       Price(s) = x /\ Price(t) = y /\ Price(u) = z => Costs(<<s, t, u>>, x + y + z)
<1>1. Costs(<<>>, 0)
  <2>. SUFFICES ASSUME NEW b \in Nat
                PROVE  \E hs \in [1 .. 0 + 1 -> Nat] :
                         /\ hs[1] = 0 + b /\ hs[0 + 1] = b
                         /\ \A k \in 1 .. 0 : hs[k] = Price(<<>>[k]) + hs[k + 1]
    <3>1. Len(<<>>) = 0
      OBVIOUS
    <3>. QED  BY <3>1 DEF Costs
  <2>. DEFINE hs == [k \in 1 .. 1 |-> b]
  <2>1. hs \in [1 .. 0 + 1 -> Nat] /\ hs[1] = 0 + b /\ 1 .. 0 = {} /\ hs[0 + 1] = b
    OBVIOUS
  <2>. HIDE DEF hs
  <2>. QED  BY <2>1
<1>2. ASSUME NEW s \in TaskType, NEW x \in Nat, Price(s) = x
      PROVE  Costs(<<s>>, x)
  <2>. DEFINE tasks == <<s>>
  <2>1. Len(tasks) = 1 /\ tasks[1] = s
    OBVIOUS
  <2>. HIDE DEF tasks
  <2>2. ASSUME NEW b \in Nat
        PROVE  \E hs \in [1 .. 1 + 1 -> Nat] :
                 /\ hs[1] = x + b /\ hs[1 + 1] = b
                 /\ \A k \in 1 .. 1 : hs[k] = Price(tasks[k]) + hs[k + 1]
    <3>. DEFINE hs == [k \in 1 .. 2 |-> IF k = 1 THEN x + b ELSE b]
    <3>1. /\ hs \in [1 .. 1 + 1 -> Nat] /\ hs[1] = x + b /\ hs[1 + 1] = b
          /\ \A k \in 1 .. 1 : k = 1
      OBVIOUS
    <3>. HIDE DEF hs
    <3>. QED  BY <1>2, <2>1, <3>1
  <2>3. Costs(tasks, x)
    BY <2>1, <2>2 DEF Costs
  <2>. QED  BY <2>3 DEF tasks
<1>3. ASSUME NEW s \in TaskType, NEW t \in TaskType, NEW x \in Nat, NEW y \in Nat,
             Price(s) = x, Price(t) = y
      PROVE  Costs(<<s, t>>, x + y)
  <2>. DEFINE tasks == <<s, t>>
  <2>1. Len(tasks) = 2 /\ tasks[1] = s /\ tasks[2] = t
    OBVIOUS
  <2>. HIDE DEF tasks
  <2>2. ASSUME NEW b \in Nat
        PROVE  \E hs \in [1 .. Len(tasks) + 1 -> Nat] :
                 /\ hs[1] = (x + y) + b /\ hs[Len(tasks) + 1] = b
                 /\ \A k \in 1 .. Len(tasks) : hs[k] = Price(tasks[k]) + hs[k + 1]
    <3>. DEFINE hs == [k \in 1 .. 3 |-> IF k = 1 THEN (x + y) + b ELSE IF k = 2 THEN y + b ELSE b]
    <3>1. /\ hs \in [1 .. 2 + 1 -> Nat] /\ hs[1] = (x + y) + b /\ hs[1 + 1] = y + b
          /\ hs[2] = y + b /\ hs[2 + 1] = b
          /\ \A k \in 1 .. 2 : k = 1 \/ k = 2
      OBVIOUS
    <3>. HIDE DEF hs
    <3>2. hs[1] = Price(tasks[1]) + hs[1 + 1] /\ hs[2] = Price(tasks[2]) + hs[2 + 1]
      BY <1>3, <2>1, <3>1
    <3>3. hs \in [1 .. Len(tasks) + 1 -> Nat] /\ hs[Len(tasks) + 1] = b
      BY <2>1, <3>1
    <3>4. \A k \in 1 .. Len(tasks) : hs[k] = Price(tasks[k]) + hs[k + 1]
      BY <2>1, <3>1, <3>2, Zenon
    <3>. QED  BY <3>1, <3>3, <3>4, Zenon
  <2>3. Costs(tasks, x + y)
    BY <2>2, Zenon DEF Costs
  <2>. QED  BY <2>3 DEF tasks
<1>4. ASSUME NEW s \in TaskType, NEW t \in TaskType, NEW u \in TaskType,
             NEW x \in Nat, NEW y \in Nat, NEW z \in Nat,
             Price(s) = x, Price(t) = y, Price(u) = z
      PROVE  Costs(<<s, t, u>>, x + y + z)
  <2>. DEFINE tasks == <<s, t, u>>
  <2>1. Len(tasks) = 3 /\ tasks[1] = s /\ tasks[2] = t /\ tasks[3] = u
    OBVIOUS
  <2>. HIDE DEF tasks
  <2>2. ASSUME NEW b \in Nat
        PROVE  \E hs \in [1 .. Len(tasks) + 1 -> Nat] :
                 /\ hs[1] = (x + y + z) + b /\ hs[Len(tasks) + 1] = b
                 /\ \A k \in 1 .. Len(tasks) : hs[k] = Price(tasks[k]) + hs[k + 1]
    <3>. DEFINE hs == [k \in 1 .. 4 |-> IF k = 1 THEN (x + y + z) + b
                                        ELSE IF k = 2 THEN y + z + b ELSE IF k = 3 THEN z + b ELSE b]
    <3>1. /\ hs \in [1 .. 3 + 1 -> Nat] /\ hs[1] = (x + y + z) + b /\ hs[1 + 1] = y + z + b
          /\ hs[2] = y + z + b /\ hs[2 + 1] = z + b /\ hs[3] = z + b /\ hs[3 + 1] = b
          /\ \A k \in 1 .. 3 : k = 1 \/ k = 2 \/ k = 3
      OBVIOUS
    <3>. HIDE DEF hs
    <3>2. /\ hs[1] = Price(tasks[1]) + hs[1 + 1] /\ hs[2] = Price(tasks[2]) + hs[2 + 1]
          /\ hs[3] = Price(tasks[3]) + hs[3 + 1]
      BY <1>4, <2>1, <3>1
    <3>3. hs \in [1 .. Len(tasks) + 1 -> Nat] /\ hs[Len(tasks) + 1] = b
      BY <2>1, <3>1
    <3>4. \A k \in 1 .. Len(tasks) : hs[k] = Price(tasks[k]) + hs[k + 1]
      BY <2>1, <3>1, <3>2, Zenon
    <3>. QED  BY <3>1, <3>3, <3>4, Zenon
  <2>3. Costs(tasks, x + y + z)
    BY <2>2, Zenon DEF Costs
  <2>. QED  BY <2>3 DEF tasks
<1>. QED  BY <1>1, <1>2, <1>3, <1>4

\* Replacing the task at the head: its price goes, and that of the new tasks comes.
LEMMA HeadPaid ==
  ASSUME NEW ag \in Seq(TaskType), ag # <<>>, NEW a, Owes(ag, a),
         NEW tasks \in Seq(TaskType), NEW q \in Nat, Costs(tasks, q)
  PROVE  /\ a \in Nat /\ Price(ag[1]) \in Nat /\ a - Price(ag[1]) \in Nat
         /\ Owes(tasks \o Tail(ag), a - Price(ag[1]) + q)
<1>. DEFINE ag2 == tasks \o Tail(ag)
            m == Len(tasks)
            n == Len(ag)
<1>1. PICK h : Bill(ag, h) /\ h[1] = a
  BY DEF Owes
<1>2. /\ m \in Nat /\ n \in Nat /\ n >= 1 /\ Len(ag2) = m + n - 1
      /\ \A k \in 1 .. m : ag2[k] = tasks[k]
      /\ \A k \in 1 .. Len(ag2) : k > m => k - m + 1 \in 2 .. n /\ ag2[k] = ag[k - m + 1]
  BY AgendaIndex
<1>3. /\ h \in [1 .. n + 1 -> Nat] /\ h[n + 1] = 0
      /\ \A k \in 1 .. n : h[k] = Price(ag[k]) + h[k + 1]
  BY <1>1 DEF Bill
<1>4. ag[1] \in TaskType /\ Price(ag[1]) \in Nat
  <2>1. ag[1] \in TaskType
    OBVIOUS
  <2>. QED  BY <2>1, PriceType
<1>. HIDE DEF m, n, ag2
<1>5. a = Price(ag[1]) + h[2] /\ a \in Nat /\ h[2] \in Nat
  <2>1. 1 \in 1 .. n /\ 1 \in 1 .. n + 1 /\ 1 + 1 \in 1 .. n + 1 /\ 1 + 1 = 2
    BY <1>2
  <2>. QED  BY <1>1, <1>3, <2>1
<1>6. PICK hs \in [1 .. m + 1 -> Nat] :
        /\ hs[1] = q + h[2] /\ hs[m + 1] = h[2]
        /\ \A k \in 1 .. m : hs[k] = Price(tasks[k]) + hs[k + 1]
  BY <1>5 DEF Costs, m
<1>. DEFINE h2 == [k \in 1 .. m + n |-> IF k <= m + 1 THEN hs[k] ELSE h[k - m + 1]]
<1>7. h2 \in [1 .. Len(ag2) + 1 -> Nat]
  <2>1. Len(ag2) + 1 = m + n
    BY <1>2
  <2>2. ASSUME NEW k \in 1 .. m + n
        PROVE  (IF k <= m + 1 THEN hs[k] ELSE h[k - m + 1]) \in Nat
    <3>1. CASE k <= m + 1
      <4>1. k \in 1 .. m + 1
        BY <3>1, <1>2
      <4>. QED  BY <3>1, <4>1
    <3>2. CASE ~(k <= m + 1)
      <4>1. k - m + 1 \in 1 .. n + 1
        BY <3>2, <1>2
      <4>. QED  BY <3>2, <4>1, <1>3
    <3>. QED  BY <3>1, <3>2
  <2>. QED  BY <2>1, <2>2
<1>8. /\ \A k \in 1 .. m + 1 : h2[k] = hs[k]
      /\ \A k \in m + 1 .. m + n : h2[k] = h[k - m + 1]
  <2>1. ASSUME NEW k \in 1 .. m + 1 PROVE h2[k] = hs[k]
    BY <1>2
  <2>2. ASSUME NEW k \in m + 1 .. m + n PROVE h2[k] = h[k - m + 1]
    <3>1. CASE k = m + 1
      BY <3>1, <2>1, <1>6, <1>2
    <3>2. CASE k # m + 1
      BY <3>2, <1>2
    <3>. QED  BY <3>1, <3>2
  <2>. QED  BY <2>1, <2>2
<1>. HIDE DEF h2
<1>9. h2[Len(ag2) + 1] = 0
  <2>1. Len(ag2) + 1 = m + n /\ m + n \in m + 1 .. m + n /\ (m + n) - m + 1 = n + 1
    BY <1>2
  <2>. QED  BY <2>1, <1>3, <1>8
<1>10. ASSUME NEW k \in 1 .. Len(ag2)
       PROVE  h2[k] = Price(ag2[k]) + h2[k + 1]
  <2>1. CASE k <= m
    <3>1. k \in 1 .. m /\ k \in 1 .. m + 1 /\ k + 1 \in 1 .. m + 1
      BY <2>1, <1>2
    <3>. QED  BY <3>1, <1>6, <1>2, <1>8
  <2>2. CASE k > m
    <3>1. /\ k - m + 1 \in 1 .. n /\ ag2[k] = ag[k - m + 1]
          /\ k \in m + 1 .. m + n /\ k + 1 \in m + 1 .. m + n /\ (k + 1) - m + 1 = (k - m + 1) + 1
      BY <2>2, <1>2
    <3>. QED  BY <3>1, <1>3, <1>8
  <2>. QED  BY <2>1, <2>2, <1>2
<1>11. h2[1] = a - Price(ag[1]) + q
  <2>1. 1 \in 1 .. m + 1
    BY <1>2
  <2>2. h2[1] = q + h[2]
    BY <2>1, <1>6, <1>8
  <2>. QED  BY <2>2, <1>4, <1>5, SMTT(30)
<1>12. Bill(ag2, h2)
  BY <1>7, <1>9, <1>10 DEF Bill
<1>13. a - Price(ag[1]) \in Nat
  BY <1>4, <1>5
<1>. QED  BY <1>4, <1>5, <1>11, <1>12, <1>13 DEF Owes, ag2

LEMMA Prices ==
  ASSUME NEW t
  PROVE  /\ t.do \in {"program", "statement", "set", "pop", "print", "blockLoop", "loop", "unary",
                      "endFunction"} => Price(t) = 1
         /\ t.do \in {"then", "block", "binary"} => Price(t) = 2
         /\ t.do = "body" => Price(t) = 3
         /\ t.do \in {"params", "returns", "header"} => Price(t) = 4 + Len(t.params) + t.rets
         /\ t.do \in {"declaration", "newlines", "else", "patch", "prefix", "infix", "close"} =>
              Price(t) = 0
BY DEF Price

LEMMA UnitType == Unit \in Nat
BY NameBytesAssumption DEF Unit

Bytes(k) == Unit * k

LEMMA UnitTimes ==
  ASSUME NEW j \in Nat, NEW k \in Nat
  PROVE  /\ Bytes(j) \in Nat /\ Bytes(1) = Unit /\ Bytes(0) = 0
         /\ Bytes(j + k) = Bytes(j) + Bytes(k)
         /\ j <= k => Bytes(j) <= Bytes(k)
<1>. PICK u \in Nat : u = Unit
  BY UnitType
<1>1. /\ u * j \in Nat /\ u * k \in Nat /\ u * 1 = u /\ u * 0 = 0
      /\ u * (j + k) = u * j + u * k
  OBVIOUS
<1>2. ASSUME j <= k PROVE u * j <= u * k
  <2>1. PICK d \in Nat : k = j + d
    <3>1. k - j \in Nat /\ k = j + (k - j)
      BY <1>2
    <3>. QED  BY <3>1
  <2>2. u * k = u * j + u * d /\ u * d \in Nat
    BY <2>1
  <2>. QED  BY <1>1, <2>2
<1>. QED  BY <1>1, <1>2 DEF Bytes

\* An instruction fits in a unit, and a header in one more for each name and type.
LEMMA InstructionUnits ==
  ASSUME NEW i \in Instruction(Names)
  PROVE  /\ i.op # "OP_DEC_FUNCTION" => Width(i) <= Unit
         /\ i.op = "OP_DEC_FUNCTION" => Width(i) <= Bytes(1 + (Len(i.params) + i.rets))
<1>1. ASSUME i.op # "OP_DEC_FUNCTION" PROVE Width(i) <= Unit
  <2>1. Width(i) \in {9, 1 + NameBytes, 3, 1}
    BY <1>1, Zenon DEF Width
  <2>. QED  BY <2>1, NameBytesAssumption DEF Unit
<1>2. ASSUME i.op = "OP_DEC_FUNCTION"
      PROVE  Width(i) <= Bytes(1 + (Len(i.params) + i.rets))
  <2>1. PICK l \in Nat : l = Len(i.params)
    <3>1. i.params \in Seq(Names)
      BY DEF Instruction
    <3>. QED  BY <3>1
  <2>2. PICK r \in Nat : r = i.rets
    BY DEF Instruction
  <2>3. PICK e \in Nat : e = NameBytes
    BY NameBytesAssumption
  <2>4. Width(i) = 1 + 2 + e + 1 + l * (1 + e) + 1 + r
    BY <1>2, <2>1, <2>2, <2>3 DEF Width, NameOps, JumpOps
  <2>5. Unit * (1 + (l + r)) = (9 + e) + (9 + e) * l + (9 + e) * r
    BY <2>3 DEF Unit
  <2>6. (9 + e) * l = 8 * l + l * (1 + e) /\ l * (1 + e) \in Nat
    OBVIOUS
  <2>7. (9 + e) * r = r + (8 + e) * r /\ (8 + e) * r \in Nat
    OBVIOUS
  <2>8. PICK x \in Nat : x = l * (1 + e)
    BY <2>6
  <2>9. PICK y \in Nat : y = (8 + e) * r
    BY <2>7
  <2>10. Width(i) = 1 + 2 + e + 1 + x + 1 + r
    BY <2>4, <2>8
  <2>11. Unit * (1 + (l + r)) = (9 + e) + (8 * l + x) + (r + y)
    BY <2>5, <2>6, <2>7, <2>8, <2>9
  <2>12. Width(i) <= Unit * (1 + (l + r))
    BY <2>10, <2>11
  <2>. QED  BY <2>1, <2>2, <2>12 DEF Bytes
<1>. QED  BY <1>1, <1>2

-----------------------------------------------------------------------------
(* What is left to pay for *)

\* The text ends, and no lexical error repeats for ever.
Ended == source[Len(source)].type = "TK_EOF"

\* Every token pays for four units.
Left(p) == 4 * (Len(source) - p.pos)

\* A statement or an expression is about to pass the current token.
Credit ==
  IF agenda # <<>> /\ agenda[1].do \in {"statement", "prefix"} /\ parser.pos < Len(source)
    THEN 1 ELSE 0

\* The loops over parameters and return types do not end at the end of the source, and write
\* nothing there.
Endless ==
  agenda # <<>> /\ agenda[1].do \in {"params", "returns"} /\ parser.pos = Len(source)

Paid ==
  \E k \in Nat :
    /\ chunk.size <= Bytes(k)
    /\ k <= 4 * Len(source) - 2
    /\ \/ Endless
       \/ \E a \in Nat : Owes(agenda, a) /\ k + a + Left(parser) <= 4 * Len(source) - 3 + Credit

LEMMA ParserGoesOn ==
  ASSUME source \in Sources, NEW p \in ParserType
  PROVE  /\ p.pos \in 1 .. Len(source) /\ Len(source) \in Nat
         /\ SkipNewlines(p).pos >= p.pos
         /\ p.pos < Len(source) => advanceParser(p).pos = p.pos + 1
         /\ p.pos = Len(source) => advanceParser(p).pos = p.pos
         /\ advanceParser(p).pos >= p.pos
         /\ \A types : consumeIf(p, types).pos >= p.pos
<1>1. p.pos \in 1 .. Len(source) /\ Len(source) \in Nat
  BY SourceFacts DEF ParserType
<1>2. /\ p.pos < Len(source) => advanceParser(p).pos = p.pos + 1
      /\ p.pos = Len(source) => advanceParser(p).pos = p.pos
      /\ advanceParser(p).pos >= p.pos
  BY <1>1 DEF advanceParser, MoveTo
<1>3. SkipNewlines(p).pos >= p.pos
  <2>. DEFINE P(k) == /\ source[k].type # "TK_NEWLINE"
                      /\ \A j \in p.pos .. k - 1 : source[j].type = "TK_NEWLINE"
              to == CHOOSE k \in p.pos .. Len(source) : P(k)
  <2>1. \E k \in p.pos .. Len(source) : P(k)
    BY <1>1, NewlinesEnd
  <2>. HIDE DEF P
  <2>2. to \in p.pos .. Len(source)
    BY <2>1
  <2>3. SkipNewlines(p) = IF to = p.pos THEN p ELSE MoveTo(p, to, source[to - 1])
    BY DEF SkipNewlines, P
  <2>. HIDE DEF to
  <2>4. SkipNewlines(p).pos = to
    BY <2>3 DEF MoveTo
  <2>. QED  BY <2>2, <2>4, <1>1
<1>4. ASSUME NEW types PROVE consumeIf(p, types).pos >= p.pos
  <2>1. consumeIf(p, types).pos \in {p.pos, advanceParser(p).pos}
    BY DEF consumeIf, ParserType
  <2>. QED  BY <2>1, <1>1, <1>2
<1>. QED  BY <1>1, <1>2, <1>3, <1>4

LEMMA EndOfSource ==
  ASSUME source \in Sources, Ended, NEW p \in ParserType
  PROVE  Current(p).type = "TK_EOF" <=> p.pos = Len(source)
<1>1. p.pos \in 1 .. Len(source) /\ Len(source) \in Nat
  BY ParserGoesOn
<1>2. \A k \in 1 .. Len(source) - 1 : source[k].type # "TK_EOF"
  BY SourcesAssumption DEF Source
<1>3. p.pos # Len(source) => p.pos \in 1 .. Len(source) - 1
  BY <1>1
<1>. QED  BY <1>1, <1>2, <1>3 DEF Ended, Current

LEMMA LeftFacts ==
  ASSUME source \in Sources, NEW p \in ParserType, NEW q \in ParserType
  PROVE  /\ Left(p) \in Nat
         /\ p.pos >= q.pos => Left(p) <= Left(q)
         /\ p.pos > q.pos => Left(p) + 4 <= Left(q)
<1>1. p.pos \in 1 .. Len(source) /\ q.pos \in 1 .. Len(source) /\ Len(source) \in Nat
  BY ParserGoesOn
<1>. QED  BY <1>1, SMTT(30) DEF Left

LEMMA CreditFacts ==
  ASSUME IInv, NEW do, Doing(do)
  PROVE  /\ Credit \in {0, 1}
         /\ do \notin {"statement", "prefix"} => Credit = 0
         /\ do \in {"statement", "prefix"} => Credit = IF parser.pos < Len(source) THEN 1 ELSE 0
         /\ do \notin {"params", "returns"} => ~Endless
         /\ parser.pos < Len(source) => ~Endless
         /\ parser.pos >= Len(source) => Credit = 0
         /\ Endless => do \in {"params", "returns"} /\ parser.pos = Len(source)
<1>1. agenda # <<>> /\ agenda[1].do = do
  BY Doings DEF Now
<1>2. parser.pos \in 1 .. Len(source) /\ Len(source) \in Nat
  BY Doings, ParserGoesOn
<1>3. parser.pos < Len(source) => parser.pos # Len(source) /\ ~(parser.pos >= Len(source))
  BY <1>2
<1>. QED  BY <1>1, <1>3, Zenon DEF Credit, Endless

\* What is written, promised and left to come is no more than what was promised and left.
Balanced(w, q, p) == w + q + Left(p) + Credit <= Price(Now) + Left(parser) + Credit'

\* A step that writes w units and leaves tasks of price q, for the tokens it passes.
LEMMA StepPaid ==
  ASSUME IInv, Paid, NEW do, Doing(do), ~Endless,
         NEW tasks \in Seq(TaskType), NEW q \in Nat, Costs(tasks, q),
         NEW w \in Nat, NEW p \in ParserType, NEW size \in Nat, size <= chunk.size + Bytes(w),
         agenda' = tasks \o Tail(agenda), parser' = p, source' = source, chunk'.size = size,
         Balanced(w, q, p)
  PROVE  Paid'
<1>1. /\ agenda \in Seq(TaskType) /\ agenda # <<>> /\ Now = agenda[1] /\ source \in Sources
      /\ parser \in ParserType /\ chunk.size \in Nat
  BY Doings DEF Now
<1>2. PICK k \in Nat, a \in Nat :
        /\ chunk.size <= Bytes(k) /\ Owes(agenda, a)
        /\ k + a + Left(parser) <= 4 * Len(source) - 3 + Credit
  BY DEF Paid
<1>3. /\ Price(Now) \in Nat /\ a - Price(Now) \in Nat
      /\ Owes(tasks \o Tail(agenda), a - Price(Now) + q)
  BY <1>1, <1>2, HeadPaid
<1>4. /\ Left(p) \in Nat /\ Left(parser) \in Nat /\ Len(source) \in Nat
  BY <1>1, LeftFacts, ParserGoesOn
<1>5. Credit \in {0, 1}
  BY CreditFacts
<1>6. Credit' \in {0, 1}
  BY DEF Credit
<1>. DEFINE k2 == k + w
            a2 == a - Price(Now) + q
<1>7. /\ k2 \in Nat /\ a2 \in Nat
      /\ k2 + a2 + Left(p) <= 4 * Len(source) - 3 + Credit'
      /\ k2 <= 4 * Len(source) - 2
  <2>1. PICK t \in Nat, price \in Nat, left \in Nat, left2 \in Nat, n \in Nat,
             credit \in {0, 1}, credit2 \in {0, 1} :
         /\ t = a - Price(Now)
         /\ price = Price(Now) /\ left = Left(parser) /\ left2 = Left(p) /\ n = Len(source)
         /\ credit = Credit /\ credit2 = Credit'
    BY <1>3, <1>4, <1>5, <1>6, Zenon
  <2>2. /\ k + a + left <= 4 * n - 3 + credit
        /\ w + q + left2 + credit <= price + left + credit2
        /\ t = a - price
    BY <1>2, <2>1, Zenon DEF Balanced
  <2>3. (k + w) + (t + q) + left2 <= 4 * n - 3 + credit2
    BY <2>2
  <2>4. k + w \in Nat /\ t + q \in Nat /\ k + w <= 4 * n - 2
    BY <2>3
  <2>. QED  BY <2>1, <2>3, <2>4, Zenon
<1>8. size <= Bytes(k2)
  <2>1. Bytes(k2) = Bytes(k) + Bytes(w) /\ Bytes(k) \in Nat /\ Bytes(w) \in Nat
    BY UnitTimes
  <2>. HIDE DEF k2
  <2>. QED  BY <2>1, <1>1, <1>2, SMTT(30)
<1>. HIDE DEF k2, a2
<1>11. Owes(agenda', a2)
  BY <1>3 DEF a2
<1>12. Left(parser)' = Left(p)
  BY DEF Left
<1>. QED  BY <1>7, <1>8, <1>11, <1>12 DEF Paid

\* A step that need not pass a token.
LEMMA PayIdle ==
  ASSUME IInv, Paid, NEW do, Doing(do), ~Endless, Credit = 0,
         NEW tasks \in Seq(TaskType), NEW q \in Nat, Costs(tasks, q),
         NEW w \in Nat, NEW p \in ParserType, p.pos >= parser.pos,
         NEW c, c.size \in Nat, c.size <= chunk.size + Bytes(w), Continue(p, c, tasks),
         w + q <= Price(Now)
  PROVE  Paid'
<1>1. agenda' = tasks \o Tail(agenda) /\ parser' = p /\ source' = source /\ chunk'.size = c.size
  BY DEF Continue
<1>2. source \in Sources /\ parser \in ParserType
  BY Doings
<1>3. Left(p) <= Left(parser) /\ Left(p) \in Nat /\ Left(parser) \in Nat
  BY <1>2, LeftFacts
<1>4. PICK credit \in {0, 1} : credit = Credit'
  BY DEF Credit
<1>5. Price(Now) \in Nat
  BY Doings, PriceType
<1>6. Balanced(w, q, p)
  BY <1>3, <1>4, <1>5, SMTT(30) DEF Balanced
<1>. QED  BY <1>1, <1>6, StepPaid

\* A step that passes a token has three more units, when it starts a statement or an expression.
LEMMA PayToken ==
  ASSUME IInv, Paid, NEW do, Doing(do),
         NEW tasks \in Seq(TaskType), NEW q \in Nat, Costs(tasks, q),
         NEW w \in Nat, NEW p \in ParserType, p.pos > parser.pos,
         NEW c, c.size \in Nat, c.size <= chunk.size + Bytes(w), Continue(p, c, tasks),
         w + q <= Price(Now) + 3
  PROVE  Paid'
<1>1. agenda' = tasks \o Tail(agenda) /\ parser' = p /\ source' = source /\ chunk'.size = c.size
  BY DEF Continue
<1>2. /\ p.pos \in 1 .. Len(source) /\ parser.pos \in 1 .. Len(source) /\ Len(source) \in Nat
  BY Doings, ParserGoesOn
<1>3. Left(p) + 4 <= Left(parser) /\ Left(p) \in Nat /\ Left(parser) \in Nat
  <2>1. source \in Sources /\ parser \in ParserType
    BY Doings
  <2>. QED  BY <2>1, LeftFacts
<1>4. PICK credit \in {0, 1} : credit = Credit'
  BY DEF Credit
<1>5. Price(Now) \in Nat
  BY Doings, PriceType
<1>6. Credit \in {0, 1} /\ ~Endless
  <2>1. parser.pos < Len(source)
    BY <1>2
  <2>. QED  BY <2>1, CreditFacts
<1>7. Balanced(w, q, p)
  BY <1>3, <1>4, <1>5, <1>6, SMTT(30) DEF Balanced
<1>. QED  BY <1>1, <1>6, <1>7, StepPaid

LEMMA Sizes ==
  ASSUME IInv, NEW do, Doing(do)
  PROVE  /\ chunk.size \in Nat /\ chunk.size <= chunk.size + Bytes(0)
         /\ \A i \in Instruction(Names) :
              i.op # "OP_DEC_FUNCTION" => /\ Write(chunk, i).size \in Nat
                                          /\ Write(chunk, i).size <= chunk.size + Bytes(1)
<1>1. Solid(chunk) /\ chunk.size \in Nat
  BY Doings
<1>2. Bytes(0) = 0 /\ Bytes(1) = Unit /\ Unit \in Nat
  BY UnitTimes, UnitType
<1>3. ASSUME NEW i \in Instruction(Names), i.op # "OP_DEC_FUNCTION"
      PROVE  Write(chunk, i).size \in Nat /\ Write(chunk, i).size <= chunk.size + Bytes(1)
  <2>1. Write(chunk, i).size = chunk.size + Width(i) /\ Write(chunk, i).size \in Nat
    BY <1>1, WriteFacts
  <2>2. Width(i) <= Unit
    BY <1>3, InstructionUnits
  <2>3. Width(i) \in Nat
    BY WidthType
  <2>. QED  BY <1>1, <1>2, <2>1, <2>2, <2>3
<1>. QED  BY <1>1, <1>2, <1>3

\* The tasks that neither pass a token on credit nor may run for ever.
Steady == Deeds \ {"statement", "prefix", "params", "returns"}

LEMMA IdleStay ==
  ASSUME IInv, Paid, NEW do \in Steady, Doing(do),
         NEW tasks \in Seq(TaskType), NEW q \in Nat, Costs(tasks, q),
         NEW p \in ParserType, p.pos >= parser.pos, Continue(p, chunk, tasks), q <= Price(Now)
  PROVE  Paid'
<1>1. Credit = 0 /\ ~Endless
  BY CreditFacts DEF Steady
<1>2. chunk.size \in Nat /\ chunk.size <= chunk.size + Bytes(0)
  BY Sizes
<1>3. 0 \in Nat /\ 0 + q <= Price(Now)
  OBVIOUS
<1>. QED  BY <1>1, <1>2, <1>3, PayIdle

LEMMA IdleWrite ==
  ASSUME IInv, Paid, NEW do \in Steady, Doing(do),
         NEW tasks \in Seq(TaskType), NEW q \in Nat, Costs(tasks, q),
         NEW p \in ParserType, p.pos >= parser.pos,
         NEW i \in Instruction(Names), i.op # "OP_DEC_FUNCTION",
         Continue(p, Write(chunk, i), tasks), 1 + q <= Price(Now)
  PROVE  Paid'
<1>1. Credit = 0 /\ ~Endless
  BY CreditFacts DEF Steady
<1>. DEFINE c == Write(chunk, i)
<1>2. c.size \in Nat /\ c.size <= chunk.size + Bytes(1) /\ Continue(p, c, tasks) /\ 1 \in Nat
  BY Sizes
<1>. HIDE DEF c
<1>. QED  BY <1>1, <1>2, PayIdle

LEMMA TokenStay ==
  ASSUME IInv, Paid, NEW do, Doing(do),
         NEW tasks \in Seq(TaskType), NEW q \in Nat, Costs(tasks, q),
         NEW p \in ParserType, p.pos > parser.pos, Continue(p, chunk, tasks), q <= Price(Now) + 3
  PROVE  Paid'
<1>1. chunk.size \in Nat /\ chunk.size <= chunk.size + Bytes(0)
  BY Sizes
<1>2. 0 \in Nat /\ 0 + q <= Price(Now) + 3
  OBVIOUS
<1>. QED  BY <1>1, <1>2, PayToken

LEMMA TokenWrite ==
  ASSUME IInv, Paid, NEW do, Doing(do),
         NEW tasks \in Seq(TaskType), NEW q \in Nat, Costs(tasks, q),
         NEW p \in ParserType, p.pos > parser.pos,
         NEW i \in Instruction(Names), i.op # "OP_DEC_FUNCTION",
         Continue(p, Write(chunk, i), tasks), q <= 2
  PROVE  Paid'
<1>. DEFINE c == Write(chunk, i)
<1>1. c.size \in Nat /\ c.size <= chunk.size + Bytes(1) /\ Continue(p, c, tasks) /\ 1 \in Nat
  BY Sizes
<1>2. 1 + q <= Price(Now) + 3
  <2>1. Price(Now) \in Nat
    BY Doings, PriceType
  <2>. QED  BY <2>1
<1>. HIDE DEF c
<1>. QED  BY <1>1, <1>2, PayToken

LEMMA TokenAhead ==
  ASSUME source \in Sources, Ended, NEW p \in ParserType, Current(p).type # "TK_EOF"
  PROVE  p.pos < Len(source) /\ advanceParser(p).pos > p.pos
<1>1. p.pos \in 1 .. Len(source) /\ Len(source) \in Nat
  BY ParserGoesOn
<1>2. p.pos # Len(source)
  BY EndOfSource
<1>3. p.pos < Len(source)
  BY <1>1, <1>2
<1>4. advanceParser(p).pos = p.pos + 1
  BY <1>3, ParserGoesOn
<1>. QED  BY <1>1, <1>3, <1>4

LEMMA TaskPrices ==
  /\ \A do \in {"program", "statement", "pop", "print", "blockLoop"} :
       Task(do) \in TaskType /\ Price(Task(do)) = 1
  /\ \A do \in {"then", "block"} : Task(do) \in TaskType /\ Price(Task(do)) = 2
  /\ \A do \in {"declaration", "newlines", "close"} : Task(do) \in TaskType /\ Price(Task(do)) = 0
  /\ Expression \in TaskType /\ Price(Expression) = 0 /\ Expression.do = "prefix"
<1>1. \A do \in Deeds : Task(do) \in TaskType /\ Task(do).do = do
  BY TaskKinds
<1>2. /\ {"program", "statement", "pop", "print", "blockLoop"} \subseteq Deeds
      /\ {"then", "block"} \subseteq Deeds /\ {"declaration", "newlines", "close"} \subseteq Deeds
  BY DEF Deeds
<1>3. Expression \in TaskType /\ Expression.do = "prefix"
  <2>1. "prefix" \in Deeds /\ PREC_ASSIGNMENT \in Nat
    BY DEF Deeds, PREC_ASSIGNMENT
  <2>. QED  BY <2>1, TaskKinds DEF Expression, Prefix
<1>. HIDE DEF Task, Expression
<1>4. ASSUME NEW do \in {"program", "statement", "pop", "print", "blockLoop"}
      PROVE  Task(do) \in TaskType /\ Price(Task(do)) = 1
  <2>1. Task(do) \in TaskType /\ Task(do).do = do
    BY <1>1, <1>2
  <2>. QED  BY <2>1, Prices
<1>5. ASSUME NEW do \in {"then", "block"} PROVE Task(do) \in TaskType /\ Price(Task(do)) = 2
  <2>1. Task(do) \in TaskType /\ Task(do).do = do
    BY <1>1, <1>2
  <2>. QED  BY <2>1, Prices
<1>6. ASSUME NEW do \in {"declaration", "newlines", "close"}
      PROVE  Task(do) \in TaskType /\ Price(Task(do)) = 0
  <2>1. Task(do) \in TaskType /\ Task(do).do = do
    BY <1>1, <1>2
  <2>. QED  BY <2>1, Prices
<1>7. Price(Expression) = 0
  BY <1>3, Prices
<1>. QED  BY <1>3, <1>4, <1>5, <1>6, <1>7

-----------------------------------------------------------------------------
(* The steps of the compiler, as to prices *)

LEMMA IdlesPay ==
  ASSUME IInv, Paid, Program \/ EndOfFile \/ Newlines \/ BlockLoop \/ Close
  PROVE  Paid'
<1>. DEFINE declaration == Task("declaration")
            program == Task("program")
            loop == Task("blockLoop")
<1>0. /\ declaration \in TaskType /\ Price(declaration) = 0
      /\ program \in TaskType /\ Price(program) = 1
      /\ loop \in TaskType /\ Price(loop) = 1
      /\ 0 \in Nat /\ 1 \in Nat
  BY TaskPrices
<1>. HIDE DEF declaration, program, loop
<1>1. <<>> \in Seq(TaskType) /\ Costs(<<>>, 0)
  BY Costings, GroundTasks DEF Grounded
<1>2. CASE Program
  <2>. DEFINE tasks == <<declaration, program>>
  <2>1. Doing("program") /\ Continue(parser, chunk, tasks)
    BY <1>2 DEF Program, declaration, program
  <2>2. tasks \in Seq(TaskType) /\ Costs(tasks, 1)
    <3>1. Costs(tasks, 0 + 1)
      BY <1>0, Costings, Zenon
    <3>. QED  BY <1>0, <3>1
  <2>. HIDE DEF tasks
  <2>3. parser \in ParserType /\ parser.pos >= parser.pos /\ 1 <= Price(Now) /\ "program" \in Steady
    <3>1. parser.pos \in Nat
      BY <2>1, Doings DEF ParserType
    <3>. QED  BY <2>1, <3>1, Doings, Prices DEF Steady, Deeds
  <2>. QED  BY <1>0, <2>1, <2>2, <2>3, IdleStay
<1>3. CASE BlockLoop
  <2>. DEFINE tasks == <<declaration, loop>>
  <2>1. Doing("blockLoop") /\ Continue(parser, chunk, tasks)
    BY <1>3 DEF BlockLoop, declaration, loop
  <2>2. tasks \in Seq(TaskType) /\ Costs(tasks, 1)
    <3>1. Costs(tasks, 0 + 1)
      BY <1>0, Costings, Zenon
    <3>. QED  BY <1>0, <3>1
  <2>. HIDE DEF tasks
  <2>3. parser \in ParserType /\ parser.pos >= parser.pos /\ 1 <= Price(Now) /\ "blockLoop" \in Steady
    <3>1. parser.pos \in Nat
      BY <2>1, Doings DEF ParserType
    <3>. QED  BY <2>1, <3>1, Doings, Prices DEF Steady, Deeds
  <2>. QED  BY <1>0, <2>1, <2>2, <2>3, IdleStay
<1>4. CASE EndOfFile \/ Newlines \/ Close
  <2>1. PICK do, p : do \in Steady /\ Doing(do) /\ Continue(p, chunk, <<>>)
                  /\ p \in {advanceParser(SkipNewlines(parser)), SkipNewlines(parser),
                            consumeIf(parser, {"TK_PAREN_CLOSE"})}
    BY <1>4, Zenon DEF EndOfFile, Declaration, Newlines, Close, Steady, Deeds
  <2>2. source \in Sources /\ parser \in ParserType /\ parser.pos \in 1 .. Len(source)
        /\ Len(source) \in Nat
    BY <2>1, Doings, ParserGoesOn
  <2>3. p \in ParserType /\ p.pos >= parser.pos
    <3>1. SkipNewlines(parser) \in ParserType /\ SkipNewlines(parser).pos >= parser.pos
          /\ SkipNewlines(parser).pos \in 1 .. Len(source)
      BY <2>2, ParserMoves, ParserGoesOn
    <3>2. /\ advanceParser(SkipNewlines(parser)) \in ParserType
          /\ advanceParser(SkipNewlines(parser)).pos >= SkipNewlines(parser).pos
          /\ advanceParser(SkipNewlines(parser)).pos \in 1 .. Len(source)
      BY <2>2, <3>1, ParserMoves, ParserGoesOn
    <3>3. advanceParser(SkipNewlines(parser)).pos >= parser.pos
      BY <2>2, <3>1, <3>2
    <3>4. /\ consumeIf(parser, {"TK_PAREN_CLOSE"}) \in ParserType
          /\ consumeIf(parser, {"TK_PAREN_CLOSE"}).pos >= parser.pos
      BY <2>2, ParserMoves, ParserGoesOn
    <3>. QED  BY <2>1, <3>1, <3>2, <3>3, <3>4, Zenon
  <2>4. 0 <= Price(Now)
    <3>1. Price(Now) \in Nat
      BY <2>1, Doings, PriceType
    <3>. QED  BY <3>1
  <2>. QED  BY <1>0, <1>1, <2>1, <2>3, <2>4, IdleStay
<1>. QED  BY <1>2, <1>3, <1>4

LEMMA UnitsPay ==
  ASSUME IInv, Paid, SetVariable \/ PopValue \/ PrintValue \/ EndBlock \/ Unary
  PROVE  Paid'
<1>1. PICK do \in {"set", "pop", "print", "blockLoop", "unary"} : Doing(do)
  BY DEF SetVariable, PopValue, PrintValue, EndBlock, Unary
<1>2. source \in Sources /\ parser \in ParserType /\ Now \in TaskType /\ Now.do = do
      /\ parser.pos \in 1 .. Len(source) /\ Len(source) \in Nat
  BY <1>1, Doings, ParserGoesOn
<1>3. PICK i \in Instruction(Names), p \in ParserType :
        p.pos >= parser.pos /\ i.op # "OP_DEC_FUNCTION" /\ Continue(p, Write(chunk, i), <<>>)
  <2>1. consumeIf(parser, Terminators) \in ParserType /\ consumeIf(parser, Terminators).pos >= parser.pos
    BY <1>2, ParserMoves, ParserGoesOn
  <2>2. parser.pos >= parser.pos
    BY <1>2
  <2>3. CASE SetVariable
    <3>. DEFINE i == Named("OP_SET_VARIABLE", Now.name)
    <3>1. Continue(consumeIf(parser, Terminators), Write(chunk, i), <<>>)
      BY <2>3 DEF SetVariable
    <3>2. i \in Instruction(Names) /\ i.op = "OP_SET_VARIABLE"
      <4>1. Now.name \in Names
        BY <1>2, TaskFields
      <4>. QED  BY <4>1, InstructionTypes, InstructionFields DEF OpCode, NameOps
    <3>. HIDE DEF i
    <3>3. i.op # "OP_DEC_FUNCTION"
      BY <3>2
    <3>. QED  BY <2>1, <3>1, <3>2, <3>3, Zenon
  <2>4. CASE PopValue
    <3>1. Simple("OP_POP") \in Instruction(Names) /\ Simple("OP_POP").op # "OP_DEC_FUNCTION"
      BY InstructionTypes, InstructionFields DEF OpCode, ConsumerOps
    <3>. QED  BY <2>1, <2>4, <3>1, Zenon DEF PopValue
  <2>5. CASE PrintValue
    <3>1. Simple("OP_PRINT") \in Instruction(Names) /\ Simple("OP_PRINT").op # "OP_DEC_FUNCTION"
      BY InstructionTypes, InstructionFields DEF OpCode, ConsumerOps
    <3>. QED  BY <1>2, <2>2, <2>5, <3>1, Zenon DEF PrintValue
  <2>6. CASE EndBlock
    <3>. DEFINE q == consumeIf(parser, {"TK_BRACE_CLOSE"})
    <3>1. Continue(SkipNewlines(q), Write(chunk, Simple("OP_EXIT_SCOPE")), <<>>)
      BY <2>6 DEF EndBlock
    <3>2. Simple("OP_EXIT_SCOPE") \in Instruction(Names) /\ Simple("OP_EXIT_SCOPE").op # "OP_DEC_FUNCTION"
      BY InstructionTypes, InstructionFields DEF OpCode, ScopeOps
    <3>3. q \in ParserType /\ q.pos >= parser.pos
      BY <1>2, ParserMoves, ParserGoesOn
    <3>. HIDE DEF q
    <3>4. SkipNewlines(q) \in ParserType /\ SkipNewlines(q).pos >= q.pos /\ q.pos \in 1 .. Len(source)
      BY <1>2, <3>3, ParserMoves, ParserGoesOn
    <3>5. SkipNewlines(q).pos \in 1 .. Len(source)
      BY <1>2, <3>4, ParserGoesOn
    <3>6. SkipNewlines(q).pos >= parser.pos
      BY <1>2, <3>3, <3>4, <3>5
    <3>. QED  BY <3>1, <3>2, <3>4, <3>6, Zenon
  <2>7. CASE Unary
    <3>1. Continue(parser, Write(chunk, UnaryCode(Now.type)), <<>>)
      BY <2>7 DEF Unary
    <3>2. PICK op \in UnaryOps : UnaryCode(Now.type) = Simple(op)
      BY DEF UnaryCode, UnaryOps
    <3>3. Simple(op) \in Instruction(Names) /\ Simple(op).op # "OP_DEC_FUNCTION"
      BY InstructionTypes, InstructionFields DEF OpCode, UnaryOps
    <3>. QED  BY <1>2, <2>2, <3>1, <3>2, <3>3, Zenon
  <2>. QED  BY <2>3, <2>4, <2>5, <2>6, <2>7
<1>4. <<>> \in Seq(TaskType) /\ Costs(<<>>, 0) /\ 0 \in Nat
  BY Costings, GroundTasks DEF Grounded
<1>5. Price(Now) = 1 /\ do \in Steady
  BY <1>1, <1>2, Prices DEF Steady, Deeds
<1>6. 1 + 0 <= Price(Now)
  BY <1>5
<1>. QED  BY <1>1, <1>3, <1>4, <1>5, <1>6, IdleWrite

LEMMA OpenersPay ==
  ASSUME IInv, Paid, Then \/ LoopBody \/ Block
  PROVE  Paid'
<1>0. /\ Task("statement") \in TaskType /\ Price(Task("statement")) = 1
      /\ Task("blockLoop") \in TaskType /\ Price(Task("blockLoop")) = 1
      /\ 0 \in Nat /\ 1 \in Nat /\ 2 \in Nat
  BY TaskPrices
<1>. DEFINE statement == Task("statement")
            loop == Task("blockLoop")
            i == Literal("OP_JUMP_IF_FALSE", Unpatched)
<1>1. i \in Instruction(Names) /\ i.op # "OP_DEC_FUNCTION"
  BY JumpInstruction DEF JumpOps, Unpatched
<1>2. CASE Then
  <2>. DEFINE t == At("else", chunk.size)
              tasks == <<statement, t>>
  <2>1. Doing("then") /\ Continue(parser, Write(chunk, i), tasks)
    BY <1>2 DEF Then
  <2>2. t \in TaskType /\ Price(t) = 0
    <3>1. t \in TaskType /\ t.do = "else"
      BY <2>1, Doings, TaskKinds DEF Deeds
    <3>. QED  BY <3>1, Prices
  <2>. HIDE DEF t, i, statement
  <2>3. tasks \in Seq(TaskType) /\ Costs(tasks, 1)
    <3>1. Costs(tasks, 1 + 0)
      BY <1>0, <2>2, Costings, Zenon DEF statement
    <3>. QED  BY <1>0, <2>2, <3>1 DEF statement
  <2>. HIDE DEF tasks
  <2>4. parser \in ParserType /\ parser.pos >= parser.pos /\ 1 + 1 <= Price(Now) /\ "then" \in Steady
    <3>1. parser.pos \in Nat
      BY <2>1, Doings DEF ParserType
    <3>. QED  BY <2>1, <3>1, Doings, Prices DEF Steady, Deeds
  <2>. QED  BY <1>0, <1>1, <2>1, <2>3, <2>4, IdleWrite
<1>3. CASE LoopBody
  <2>. DEFINE t == [At("loop", chunk.size) EXCEPT !.n = Now.n]
              tasks == <<statement, t>>
  <2>1. Doing("body") /\ Continue(parser, Write(chunk, i), tasks)
    BY <1>3 DEF LoopBody
  <2>2. t \in TaskType /\ Price(t) = 1
    <3>1. chunk.size \in Nat /\ Now.n \in Nat
      BY <2>1, Doings, TaskFields
    <3>2. t \in TaskType /\ t.do = "loop"
      BY <3>1, TaskKinds DEF Deeds
    <3>. QED  BY <3>2, Prices
  <2>. HIDE DEF t, i, statement
  <2>3. tasks \in Seq(TaskType) /\ Costs(tasks, 2)
    <3>1. Costs(tasks, 1 + 1)
      BY <1>0, <2>2, Costings, Zenon DEF statement
    <3>. QED  BY <1>0, <2>2, <3>1 DEF statement
  <2>. HIDE DEF tasks
  <2>4. parser \in ParserType /\ parser.pos >= parser.pos /\ 1 + 2 <= Price(Now) /\ "body" \in Steady
    <3>1. parser.pos \in Nat
      BY <2>1, Doings DEF ParserType
    <3>. QED  BY <2>1, <3>1, Doings, Prices DEF Steady, Deeds
  <2>. QED  BY <1>0, <1>1, <2>1, <2>3, <2>4, IdleWrite
<1>4. CASE Block
  <2>. DEFINE enter == Simple("OP_ENTER_SCOPE")
              tasks == <<loop>>
  <2>1. Doing("block") /\ Continue(SkipNewlines(parser), Write(chunk, enter), tasks)
    BY <1>4 DEF Block
  <2>2. enter \in Instruction(Names) /\ enter.op # "OP_DEC_FUNCTION"
    BY InstructionTypes, InstructionFields DEF OpCode, ScopeOps
  <2>. HIDE DEF enter, loop
  <2>3. tasks \in Seq(TaskType) /\ Costs(tasks, 1)
    BY <1>0, Costings DEF loop
  <2>. HIDE DEF tasks
  <2>4. SkipNewlines(parser) \in ParserType /\ SkipNewlines(parser).pos >= parser.pos
    BY <2>1, Doings, ParserMoves, ParserGoesOn
  <2>5. 1 + 1 <= Price(Now) /\ "block" \in Steady
    BY <2>1, Doings, Prices DEF Steady, Deeds
  <2>. QED  BY <1>0, <2>1, <2>2, <2>3, <2>4, <2>5, IdleWrite
<1>. QED  BY <1>2, <1>3, <1>4

LEMMA PatchKeepsSize ==
  ASSUME NEW c, NEW o, NEW n
  PROVE  Patch(c, o, n).size = c.size
BY DEF Patch

LEMMA PatchesPay ==
  ASSUME IInv, Ended, Paid, Else \/ PatchJump \/ Loop \/ EndFunction
  PROVE  Paid'
<1>1. PICK do \in Patchers : Doing(do)
  BY DEF Else, PatchJump, Loop, EndFunction, Patchers
<1>2. /\ source \in Sources /\ parser \in ParserType /\ Now \in TaskType /\ Now.do = do
      /\ chunk.size \in Nat /\ chunk.size <= chunk.size + Bytes(0)
      /\ \A i \in Instruction(Names) :
           i.op # "OP_DEC_FUNCTION" => /\ Write(chunk, i).size \in Nat
                                       /\ Write(chunk, i).size <= chunk.size + Bytes(1)
  BY <1>1, Doings, Sizes
<1>3. /\ <<>> \in Seq(TaskType) /\ Costs(<<>>, 0) /\ 0 \in Nat /\ 1 \in Nat
      /\ parser.pos >= parser.pos
  <2>1. parser.pos \in Nat
    BY <1>2 DEF ParserType
  <2>. QED  BY <2>1, Costings, GroundTasks DEF Grounded
<1>4. Credit = 0 /\ ~Endless /\ Price(Now) \in Nat /\ 0 + 0 <= Price(Now)
      /\ (do \in {"loop", "endFunction"} => 1 + 0 <= Price(Now))
  <2>1. Credit = 0 /\ ~Endless
    BY <1>1, CreditFacts DEF Patchers
  <2>2. Price(Now) \in Nat /\ (do \in {"loop", "endFunction"} => Price(Now) = 1)
    BY <1>2, PriceType, Prices
  <2>. QED  BY <2>1, <2>2
<1>5. ASSUME NEW c, NEW n, c.size \in Nat, c.size <= chunk.size + Bytes(0),
             Continue(parser, Patch(c, Now.at, n), <<>>)
      PROVE  Paid'
  <2>. DEFINE d == Patch(c, Now.at, n)
  <2>1. d.size \in Nat /\ d.size <= chunk.size + Bytes(0) /\ Continue(parser, d, <<>>)
    BY <1>5, PatchKeepsSize
  <2>. HIDE DEF d
  <2>. QED  BY <1>1, <1>2, <1>3, <1>4, <2>1, PayIdle
<1>6. ASSUME NEW c, NEW n, c.size \in Nat, c.size <= chunk.size + Bytes(1),
             Continue(parser, Patch(c, Now.at, n), <<>>), do \in {"loop", "endFunction"}
      PROVE  Paid'
  <2>. DEFINE d == Patch(c, Now.at, n)
  <2>1. d.size \in Nat /\ d.size <= chunk.size + Bytes(1) /\ Continue(parser, d, <<>>)
    BY <1>6, PatchKeepsSize
  <2>. HIDE DEF d
  <2>. QED  BY <1>1, <1>2, <1>3, <1>4, <1>6, <2>1, PayIdle
<1>7. CASE PatchJump
  <2>1. Continue(parser, Patch(chunk, Now.at, Distance(chunk, Now.at)), <<>>)
    BY <1>7 DEF PatchJump, patchJump
  <2>. QED  BY <1>2, <1>5, <2>1
<1>8. CASE Loop
  <2>. DEFINE i == Literal("OP_LOOP", Distance(chunk, Now.n))
              w == Write(chunk, i)
              n == Distance(w, Now.at)
  <2>1. Doing("loop") /\ Continue(parser, Patch(w, Now.at, n), <<>>)
    BY <1>8 DEF Loop, emitLoop, patchJump
  <2>2. w.size \in Nat /\ w.size <= chunk.size + Bytes(1)
    <3>1. Width(i) = 3
      BY InstructionFields DEF Width, JumpOps, NameOps
    <3>2. w.size = chunk.size + 3
      BY <3>1 DEF Write
    <3>3. Bytes(1) = 9 + NameBytes /\ NameBytes \in Nat
      BY UnitTimes, NameBytesAssumption DEF Unit
    <3>. HIDE DEF w
    <3>. QED  BY <1>2, <3>2, <3>3
  <2>3. do \in {"loop", "endFunction"}
    BY <1>2, <2>1, Doings
  <2>. HIDE DEF w, n
  <2>. QED  BY <1>6, <2>1, <2>2, <2>3
<1>9. CASE EndFunction
  <2>. DEFINE i == Simple("OP_RETURN")
              w == Write(chunk, i)
              n == Distance(w, Now.at + 1)
  <2>1. Doing("endFunction") /\ Continue(parser, Patch(w, Now.at, n), <<>>)
    BY <1>9 DEF EndFunction
  <2>2. i \in Instruction(Names) /\ i.op # "OP_DEC_FUNCTION"
    BY ScopeInstructions, InstructionFields
  <2>3. do \in {"loop", "endFunction"}
    BY <1>2, <2>1, Doings
  <2>. HIDE DEF i
  <2>4. w.size \in Nat /\ w.size <= chunk.size + Bytes(1)
    BY <1>2, <2>2
  <2>. HIDE DEF w, n
  <2>. QED  BY <1>6, <2>1, <2>3, <2>4
<1>10. CASE Else
  <2>. DEFINE jump == Literal("OP_JUMP", Unpatched)
              w == Write(chunk, jump)
              d == Patch(w, Now.at, Distance(w, Now.at))
              statement == Task("statement")
              patch == At("patch", chunk.size)
              tasks == <<statement, patch>>
              p == advanceParser(parser)
  <2>1. /\ Doing("else")
        /\ \/ Check(parser, {"TK_ELSE"}) /\ Continue(p, d, tasks)
           \/ Continue(parser, Patch(chunk, Now.at, Distance(chunk, Now.at)), <<>>)
    BY <1>10 DEF Else, patchJump
  <2>2. CASE Continue(parser, Patch(chunk, Now.at, Distance(chunk, Now.at)), <<>>)
    BY <1>2, <1>5, <2>2
  <2>3. CASE Check(parser, {"TK_ELSE"}) /\ Continue(p, d, tasks)
    <3>1. jump \in Instruction(Names) /\ jump.op # "OP_DEC_FUNCTION"
      BY JumpInstruction DEF JumpOps, Unpatched
    <3>. HIDE DEF jump
    <3>2. d.size \in Nat /\ d.size <= chunk.size + Bytes(1)
      <4>1. w.size \in Nat /\ w.size <= chunk.size + Bytes(1)
        BY <1>2, <3>1
      <4>. HIDE DEF w
      <4>. QED  BY <4>1, PatchKeepsSize
    <3>. HIDE DEF d
    <3>3. statement \in TaskType /\ Price(statement) = 1
      BY TaskPrices
    <3>4. patch \in TaskType /\ Price(patch) = 0
      <4>1. patch \in TaskType /\ patch.do = "patch"
        BY <1>2, TaskKinds DEF Deeds
      <4>. QED  BY <4>1, Prices
    <3>. HIDE DEF statement, patch
    <3>5. tasks \in Seq(TaskType) /\ Costs(tasks, 1)
      <4>1. Costs(tasks, 1 + 0)
        BY <1>3, <3>3, <3>4, Costings, Zenon
      <4>. QED  BY <3>3, <3>4, <4>1
    <3>. HIDE DEF tasks
    <3>6. p \in ParserType /\ p.pos > parser.pos
      <4>1. Current(parser).type # "TK_EOF"
        BY <2>3 DEF Check
      <4>. QED  BY <1>2, <4>1, ParserMoves, TokenAhead
    <3>. HIDE DEF p
    <3>7. 1 + 1 <= Price(Now) + 3
      BY <1>4
    <3>. QED  BY <1>1, <1>3, <2>3, <3>2, <3>5, <3>6, <3>7, PayToken
  <2>. QED  BY <2>1, <2>2, <2>3
<1>. QED  BY <1>7, <1>8, <1>9, <1>10

LEMMA NewHead ==
  ASSUME NEW ag \in Seq(TaskType), ag # <<>>, NEW tasks \in Seq(TaskType), Len(tasks) >= 1,
         NEW new, new = tasks \o Tail(ag)
  PROVE  new # <<>> /\ new[1] = tasks[1] /\ new \in Seq(TaskType)
<1>1. /\ new \in Seq(TaskType) /\ Len(tasks) \in Nat /\ Len(ag) \in Nat /\ Len(ag) >= 1
      /\ Len(new) = Len(tasks) + Len(ag) - 1
      /\ \A k \in 1 .. Len(tasks) : new[k] = tasks[k]
  BY AgendaIndex
<1>2. 1 \in 1 .. Len(tasks) /\ Len(new) # 0
  BY <1>1
<1>3. new # <<>>
  BY <1>2
<1>. QED  BY <1>1, <1>2, <1>3

LEMMA StatementsPay ==
  ASSUME IInv, Ended, Paid,
         \/ IfStatement \/ WhileStatement \/ PrintStatement \/ BlockStatement \/ ExpressionStatement
  PROVE  Paid'
<1>1. Doing("statement")
  BY DEF IfStatement, WhileStatement, PrintStatement, BlockStatement, ExpressionStatement, Keyword
<1>2. /\ source \in Sources /\ parser \in ParserType /\ Now \in TaskType /\ Now.do = "statement"
      /\ agenda \in Seq(TaskType) /\ Price(Now) = 1
  BY <1>1, Doings, Prices
<1>. DEFINE newlines == Task("newlines")
            block == Task("block")
            p == advanceParser(parser)
<1>3. /\ Expression \in TaskType /\ Price(Expression) = 0 /\ Expression.do = "prefix"
      /\ newlines \in TaskType /\ Price(newlines) = 0
      /\ block \in TaskType /\ Price(block) = 2
      /\ 0 \in Nat /\ 1 \in Nat /\ 2 \in Nat /\ 3 \in Nat
  BY TaskPrices
<1>. HIDE DEF newlines, block, Expression
<1>4. ASSUME NEW t \in TaskType, NEW q \in Nat, Price(t) = q
      PROVE  /\ <<Expression, t, newlines>> \in Seq(TaskType) /\ Costs(<<Expression, t, newlines>>, q)
             /\ <<Expression, t>> \o <<newlines>> = <<Expression, t, newlines>>
  <2>1. Costs(<<Expression, t, newlines>>, 0 + q + 0)
    BY <1>3, <1>4, Costings, Zenon
  <2>2. 0 + q + 0 = q
    OBVIOUS
  <2>3. Costs(<<Expression, t, newlines>>, q)
    BY <2>1, <2>2
  <2>4. <<Expression, t, newlines>> \in Seq(TaskType)
    BY <1>3
  <2>5. <<Expression, t>> \o <<newlines>> = <<Expression, t, newlines>>
    BY <1>3, LongerByOne, ZenonT(60)
  <2>. QED  BY <2>3, <2>4, <2>5
<1>5. ASSUME NEW type \in {"TK_IF", "TK_WHILE", "TK_PRINT", "TK_BRACE_OPEN"}, Check(parser, {type}),
             NEW tasks \in Seq(TaskType), NEW q \in Nat, Costs(tasks, q), q <= 4,
             Continue(p, chunk, tasks)
      PROVE  Paid'
  <2>1. Current(parser).type # "TK_EOF"
    BY <1>5 DEF Check
  <2>2. p \in ParserType /\ p.pos > parser.pos
    BY <1>2, <2>1, ParserMoves, TokenAhead
  <2>3. q <= Price(Now) + 3
    BY <1>2, <1>5
  <2>. HIDE DEF p
  <2>. QED  BY <1>1, <1>5, <2>2, <2>3, TokenStay
<1>. HIDE DEF p
<1>6. CASE IfStatement
  <2>. DEFINE t == Task("then")
              tasks == <<Expression, t, newlines>>
  <2>1. t \in TaskType /\ Price(t) = 2
    BY TaskPrices
  <2>2. Check(parser, {"TK_IF"}) /\ Continue(p, chunk, <<Expression, t>> \o <<newlines>>)
    BY <1>6 DEF IfStatement, Keyword, newlines, p
  <2>. HIDE DEF t
  <2>3. tasks \in Seq(TaskType) /\ Costs(tasks, 2) /\ Continue(p, chunk, tasks)
    BY <1>3, <1>4, <2>1, <2>2
  <2>. HIDE DEF tasks
  <2>4. 2 <= 4 /\ "TK_IF" \in {"TK_IF", "TK_WHILE", "TK_PRINT", "TK_BRACE_OPEN"}
    OBVIOUS
  <2>. QED  BY <1>3, <1>5, <2>2, <2>3, <2>4
<1>7. CASE WhileStatement
  <2>. DEFINE t == [Task("body") EXCEPT !.n = chunk.size]
              tasks == <<Expression, t, newlines>>
  <2>1. t \in TaskType /\ Price(t) = 3
    <3>1. chunk.size \in Nat
      BY <1>1, Doings
    <3>2. t \in TaskType /\ t.do = "body"
      BY <3>1, TaskKinds DEF Deeds
    <3>. QED  BY <3>2, Prices
  <2>2. Check(parser, {"TK_WHILE"}) /\ Continue(p, chunk, <<Expression, t>> \o <<newlines>>)
    BY <1>7 DEF WhileStatement, Keyword, newlines, p
  <2>. HIDE DEF t
  <2>3. tasks \in Seq(TaskType) /\ Costs(tasks, 3) /\ Continue(p, chunk, tasks)
    BY <1>3, <1>4, <2>1, <2>2
  <2>. HIDE DEF tasks
  <2>4. 3 <= 4 /\ "TK_WHILE" \in {"TK_IF", "TK_WHILE", "TK_PRINT", "TK_BRACE_OPEN"}
    OBVIOUS
  <2>. QED  BY <1>3, <1>5, <2>2, <2>3, <2>4
<1>8. CASE PrintStatement
  <2>. DEFINE t == Task("print")
              tasks == <<Expression, t, newlines>>
  <2>1. t \in TaskType /\ Price(t) = 1
    BY TaskPrices
  <2>2. Check(parser, {"TK_PRINT"}) /\ Continue(p, chunk, <<Expression, t>> \o <<newlines>>)
    BY <1>8 DEF PrintStatement, Keyword, newlines, p
  <2>. HIDE DEF t
  <2>3. tasks \in Seq(TaskType) /\ Costs(tasks, 1) /\ Continue(p, chunk, tasks)
    BY <1>3, <1>4, <2>1, <2>2
  <2>. HIDE DEF tasks
  <2>4. 1 <= 4 /\ "TK_PRINT" \in {"TK_IF", "TK_WHILE", "TK_PRINT", "TK_BRACE_OPEN"}
    OBVIOUS
  <2>. QED  BY <1>3, <1>5, <2>2, <2>3, <2>4
<1>9. CASE BlockStatement
  <2>. DEFINE tasks == <<block, newlines>>
  <2>1. Check(parser, {"TK_BRACE_OPEN"}) /\ Continue(p, chunk, <<block>> \o <<newlines>>)
    BY <1>9 DEF BlockStatement, Keyword, block, newlines, p
  <2>2. <<block>> \o <<newlines>> = tasks
    BY <1>3, LongerByOne, ZenonT(60)
  <2>3. tasks \in Seq(TaskType) /\ Costs(tasks, 2)
    <3>1. Costs(tasks, 2 + 0)
      BY <1>3, Costings, Zenon
    <3>. QED  BY <1>3, <3>1
  <2>4. Continue(p, chunk, tasks)
    BY <2>1, <2>2, Zenon
  <2>. HIDE DEF tasks
  <2>5. 2 <= 4 /\ "TK_BRACE_OPEN" \in {"TK_IF", "TK_WHILE", "TK_PRINT", "TK_BRACE_OPEN"}
    OBVIOUS
  <2>. QED  BY <1>3, <1>5, <2>1, <2>3, <2>4, <2>5
<1>10. CASE ExpressionStatement
  <2>. DEFINE t == Task("pop")
              tasks == <<Expression, t, newlines>>
  <2>1. t \in TaskType /\ Price(t) = 1
    BY TaskPrices
  <2>2. Continue(parser, chunk, tasks)
    BY <1>10 DEF ExpressionStatement, newlines
  <2>. HIDE DEF t
  <2>3. tasks \in Seq(TaskType) /\ Costs(tasks, 1) /\ Len(tasks) = 3 /\ tasks[1] = Expression
    BY <1>3, <1>4, <2>1
  <2>. HIDE DEF tasks
  <2>4. /\ agenda' = tasks \o Tail(agenda) /\ parser' = parser /\ source' = source
        /\ chunk'.size = chunk.size
    BY <2>2 DEF Continue
  <2>5. Credit' = Credit
    <3>1. agenda # <<>> /\ agenda[1].do = "statement"
      BY <1>1, Doings DEF Now
    <3>2. agenda' # <<>> /\ agenda'[1] = Expression
      <4>1. Len(tasks) >= 1
        BY <2>3
      <4>. QED  BY <1>2, <2>3, <2>4, <3>1, <4>1, NewHead
    <3>. QED  BY <1>3, <2>4, <3>1, <3>2, Zenon DEF Credit
  <2>6. Balanced(0, 1, parser)
    <3>1. Left(parser) \in Nat /\ Credit \in {0, 1}
      BY <1>1, <1>2, LeftFacts, CreditFacts
    <3>. QED  BY <1>2, <2>5, <3>1 DEF Balanced
  <2>7. chunk.size \in Nat /\ chunk.size <= chunk.size + Bytes(0) /\ ~Endless
    BY <1>1, Sizes, CreditFacts
  <2>. QED  BY <1>1, <1>2, <1>3, <2>3, <2>4, <2>6, <2>7, StepPaid
<1>. QED  BY <1>6, <1>7, <1>8, <1>9, <1>10

LEMMA NamesPay ==
  ASSUME IInv, Ended, Paid, VariableDeclaration \/ NamedStatement
  PROVE  Paid'
<1>. DEFINE s == SkipNewlines(parser)
            q == advanceParser(s)
            p == consumeIf(q, {"TK_IDENTIFIER"})
<1>1. Doing("declaration") /\ Current(s).type # "TK_EOF"
  BY DEF VariableDeclaration, NamedStatement, Declaration, Check
<1>2. /\ source \in Sources /\ parser \in ParserType /\ Len(source) \in Nat
      /\ parser.pos \in 1 .. Len(source)
  BY <1>1, Doings, ParserGoesOn
<1>3. s \in ParserType /\ s.pos >= parser.pos /\ s.pos \in 1 .. Len(source)
  <2>1. s \in ParserType /\ s.pos >= parser.pos
    BY <1>2, ParserMoves, ParserGoesOn
  <2>. QED  BY <2>1, <1>2, ParserGoesOn
<1>4. q \in ParserType /\ q.pos > s.pos /\ q.pos \in 1 .. Len(source)
  <2>. HIDE DEF s
  <2>1. q \in ParserType /\ q.pos > s.pos
    BY <1>1, <1>2, <1>3, ParserMoves, TokenAhead
  <2>. QED  BY <2>1, <1>2, ParserGoesOn
<1>5. p \in ParserType /\ p.pos >= q.pos /\ p.pos \in 1 .. Len(source)
  <2>. HIDE DEF q
  <2>1. p \in ParserType /\ p.pos >= q.pos
    BY <1>2, <1>4, ParserMoves, ParserGoesOn
  <2>. QED  BY <2>1, <1>2, ParserGoesOn
<1>6. ASSUME NEW r \in {p, q}
      PROVE  /\ r \in ParserType /\ r.pos > parser.pos
             /\ consumeIf(r, {"TK_ASSIGNMENT"}) \in ParserType
             /\ consumeIf(r, {"TK_ASSIGNMENT"}).pos > parser.pos
             /\ r.previous.text \in Names
  <2>. HIDE DEF s, q, p
  <2>1. r \in ParserType /\ r.pos >= q.pos /\ r.pos \in 1 .. Len(source)
    BY <1>4, <1>5, <1>6
  <2>2. r.pos > parser.pos
    BY <1>2, <1>3, <1>4, <2>1
  <2>3. /\ consumeIf(r, {"TK_ASSIGNMENT"}) \in ParserType
        /\ consumeIf(r, {"TK_ASSIGNMENT"}).pos >= r.pos
        /\ r.previous \in Token(Names)
    BY <1>2, <2>1, ParserMoves, ParserGoesOn
  <2>4. consumeIf(r, {"TK_ASSIGNMENT"}).pos \in 1 .. Len(source)
    BY <1>2, <2>3, ParserGoesOn
  <2>5. consumeIf(r, {"TK_ASSIGNMENT"}).pos > parser.pos
    BY <1>2, <2>1, <2>2, <2>3, <2>4
  <2>. QED  BY <2>1, <2>2, <2>3, <2>5, TokenFields
<1>7. /\ <<>> \in Seq(TaskType) /\ Costs(<<>>, 0) /\ 0 \in Nat /\ 1 \in Nat /\ 0 <= 2 /\ 1 <= 2
      /\ 1 <= Price(Now) + 3
  <2>1. Price(Now) \in Nat
    BY <1>1, Doings, PriceType
  <2>. QED  BY <2>1, Costings, GroundTasks DEF Grounded
<1>8. ASSUME NEW x \in Names
      PROVE  LET t == [Task("set") EXCEPT !.name = x]
             IN  <<Expression, t>> \in Seq(TaskType) /\ Costs(<<Expression, t>>, 1)
  <2>. DEFINE t == [Task("set") EXCEPT !.name = x]
  <2>1. t \in TaskType /\ Price(t) = 1
    <3>1. t \in TaskType /\ t.do = "set"
      BY TaskKinds DEF Deeds
    <3>. QED  BY <3>1, Prices
  <2>2. Expression \in TaskType /\ Price(Expression) = 0
    BY TaskPrices
  <2>. HIDE DEF t, Expression
  <2>3. Costs(<<Expression, t>>, 0 + 1)
    BY <1>7, <2>1, <2>2, Costings, Zenon
  <2>4. <<Expression, t>> \in Seq(TaskType) /\ Costs(<<Expression, t>>, 1)
    BY <2>1, <2>2, <2>3
  <2>. QED  BY <2>4 DEF t
<1>9. CASE VariableDeclaration
  <2>. DEFINE name == p.previous.text
              i == Named("OP_DEF_VARIABLE", name)
              tasks == <<Expression, [Task("set") EXCEPT !.name = name]>>
              r == consumeIf(p, {"TK_ASSIGNMENT"})
  <2>1. Continue(r, Write(chunk, i), tasks) \/ Continue(p, Write(chunk, i), <<>>)
    BY <1>9 DEF VariableDeclaration, Assignment
  <2>2. /\ name \in Names /\ p \in ParserType /\ p.pos > parser.pos
        /\ r \in ParserType /\ r.pos > parser.pos
    <3>. HIDE DEF p, q
    <3>. QED  BY <1>6
  <2>3. tasks \in Seq(TaskType) /\ Costs(tasks, 1)
    <3>. HIDE DEF name
    <3>. QED  BY <1>8, <2>2
  <2>4. i \in Instruction(Names) /\ i.op # "OP_DEC_FUNCTION"
    <3>. HIDE DEF name
    <3>1. i \in Instruction(Names) /\ i.op = "OP_DEF_VARIABLE"
      BY <2>2, InstructionTypes, InstructionFields DEF OpCode, NameOps
    <3>. QED  BY <3>1
  <2>. HIDE DEF i, tasks, r, p
  <2>. QED  BY <1>1, <1>7, <2>1, <2>2, <2>3, <2>4, TokenWrite
<1>10. CASE NamedStatement
  <2>. DEFINE name == q.previous.text
              i == Named("OP_FUNCTION_CALL", name)
              tasks == <<Expression, [Task("set") EXCEPT !.name = name]>>
              r == consumeIf(q, {"TK_ASSIGNMENT"})
  <2>1. Continue(q, Write(chunk, i), <<>>) \/ Continue(r, chunk, tasks)
    BY <1>10 DEF NamedStatement, Assignment
  <2>2. /\ name \in Names /\ q \in ParserType /\ q.pos > parser.pos
        /\ r \in ParserType /\ r.pos > parser.pos
    <3>. HIDE DEF p, q
    <3>. QED  BY <1>6
  <2>3. tasks \in Seq(TaskType) /\ Costs(tasks, 1)
    <3>. HIDE DEF name
    <3>. QED  BY <1>8, <2>2
  <2>4. i \in Instruction(Names) /\ i.op # "OP_DEC_FUNCTION"
    <3>. HIDE DEF name
    <3>1. i \in Instruction(Names) /\ i.op = "OP_FUNCTION_CALL"
      BY <2>2, InstructionTypes, InstructionFields DEF OpCode, NameOps
    <3>. QED  BY <3>1
  <2>. HIDE DEF i, tasks, r, q
  <2>5. CASE Continue(q, Write(chunk, i), <<>>)
    BY <1>1, <1>7, <2>2, <2>4, <2>5, TokenWrite
  <2>6. CASE Continue(r, chunk, tasks)
    BY <1>1, <1>7, <2>2, <2>3, <2>6, TokenStay
  <2>. QED  BY <2>1, <2>5, <2>6
<1>. QED  BY <1>9, <1>10

LEMMA OthersPay ==
  ASSUME IInv, Ended, Paid, OtherStatement
  PROVE  Paid'
<1>. DEFINE p == SkipNewlines(parser)
            statement == Task("statement")
            tasks == <<statement>>
<1>1. Doing("declaration") /\ Current(p).type # "TK_EOF" /\ Continue(p, chunk, tasks)
  BY DEF OtherStatement, Declaration, Check
<1>2. /\ source \in Sources /\ parser \in ParserType /\ Now \in TaskType /\ Now.do = "declaration"
      /\ agenda \in Seq(TaskType) /\ agenda # <<>> /\ Price(Now) = 0
  BY <1>1, Doings, Prices
<1>3. p \in ParserType /\ p.pos >= parser.pos /\ p.pos < Len(source)
  <2>1. p \in ParserType /\ p.pos >= parser.pos
    BY <1>2, ParserMoves, ParserGoesOn
  <2>. HIDE DEF p
  <2>. QED  BY <1>1, <1>2, <2>1, TokenAhead
<1>4. statement \in TaskType /\ Price(statement) = 1 /\ statement.do = "statement" /\ 1 \in Nat
  <2>1. statement.do = "statement"
    BY TaskKinds DEF Deeds
  <2>. QED  BY <2>1, TaskPrices
<1>. HIDE DEF p, statement
<1>5. tasks \in Seq(TaskType) /\ Costs(tasks, 1) /\ Len(tasks) = 1 /\ tasks[1] = statement
  BY <1>4, Costings
<1>. HIDE DEF tasks
<1>6. /\ agenda' = tasks \o Tail(agenda) /\ parser' = p /\ source' = source
      /\ chunk'.size = chunk.size
  BY <1>1 DEF Continue
<1>7. Credit' = 1
  <2>1. agenda' # <<>> /\ agenda'[1] = statement
    <3>1. Len(tasks) >= 1
      BY <1>5
    <3>. QED  BY <1>2, <1>5, <1>6, <3>1, NewHead
  <2>. QED  BY <1>3, <1>4, <1>6, <2>1, Zenon DEF Credit
<1>8. Credit = 0 /\ ~Endless
  BY <1>1, CreditFacts
<1>9. Balanced(0, 1, p)
  <2>1. Left(p) <= Left(parser) /\ Left(p) \in Nat /\ Left(parser) \in Nat
    BY <1>2, <1>3, LeftFacts
  <2>. QED  BY <1>2, <1>7, <1>8, <2>1 DEF Balanced
<1>10. chunk.size \in Nat /\ chunk.size <= chunk.size + Bytes(0) /\ 0 \in Nat
  BY <1>1, Sizes
<1>. QED  BY <1>1, <1>3, <1>4, <1>5, <1>6, <1>8, <1>9, <1>10, StepPaid

LEMMA PrefixPays ==
  ASSUME IInv, Ended, Paid, PrefixRule
  PROVE  Paid'
<1>. DEFINE p == advanceParser(parser)
            t == p.previous
            infix == Infix(Now.n)
            unary == Operator("unary", t.type)
            close == Task("close")
            prefix == Prefix(PREC_UNARY)
<1>1. /\ Doing("prefix")
      /\ \/ t.type \in OperandTypes /\ Continue(p, Write(chunk, OperandCode(t)), <<infix>>)
         \/ t.type = "TK_PAREN_OPEN" /\ Continue(p, chunk, <<Expression, close, infix>>)
         \/ t.type \in PrefixOperators /\ Continue(p, chunk, <<prefix, unary, infix>>)
         \/ Continue(p, chunk, <<>>)
  BY DEF PrefixRule
<1>2. /\ source \in Sources /\ parser \in ParserType /\ Now \in TaskType /\ Price(Now) = 0
      /\ Len(source) \in Nat /\ parser.pos \in 1 .. Len(source)
  BY <1>1, Doings, Prices, ParserGoesOn
<1>3. p \in ParserType /\ t \in Token(Names) /\ t = Current(parser) /\ p.pos >= parser.pos
  BY <1>2, ParserMoves, ParserGoesOn
<1>4. t.type # "TK_EOF" => p.pos > parser.pos
  BY <1>2, <1>3, TokenAhead
<1>5. infix \in TaskType /\ Price(infix) = 0
  <2>1. Now.n \in Nat
    BY <1>2, TaskFields
  <2>2. infix \in TaskType /\ infix.do = "infix"
    BY <2>1, TaskKinds DEF Infix, Deeds
  <2>. QED  BY <2>2, Prices
<1>6. unary \in TaskType /\ Price(unary) = 1
  <2>1. t.type \in token_t
    BY <1>3, TokenFields
  <2>2. unary \in TaskType /\ unary.do = "unary"
    BY <2>1, TaskKinds DEF Deeds
  <2>. QED  BY <2>2, Prices
<1>7. prefix \in TaskType /\ Price(prefix) = 0
  <2>1. PREC_UNARY \in Nat
    BY DEF PREC_UNARY
  <2>2. prefix \in TaskType /\ prefix.do = "prefix"
    BY <2>1, TaskKinds DEF Prefix, Deeds
  <2>. QED  BY <2>2, Prices
<1>8. /\ close \in TaskType /\ Price(close) = 0 /\ Expression \in TaskType /\ Price(Expression) = 0
      /\ 0 \in Nat /\ 1 \in Nat /\ 0 <= 2
      /\ 0 <= Price(Now) + 3 /\ 1 <= Price(Now) + 3
  BY <1>2, TaskPrices
<1>. HIDE DEF p, t, infix, unary, close, prefix, Expression
<1>9. CASE t.type \in OperandTypes /\ Continue(p, Write(chunk, OperandCode(t)), <<infix>>)
  <2>1. OperandCode(t) \in Instruction(Names) /\ OperandCode(t).op # "OP_DEC_FUNCTION"
    BY <1>3, <1>9, OperandCodes DEF Ordinary
  <2>2. <<infix>> \in Seq(TaskType) /\ Costs(<<infix>>, 0)
    BY <1>5, <1>8, Costings
  <2>3. p.pos > parser.pos
    BY <1>4, <1>9 DEF OperandTypes
  <2>. QED  BY <1>1, <1>3, <1>8, <1>9, <2>1, <2>2, <2>3, TokenWrite
<1>10. CASE t.type = "TK_PAREN_OPEN" /\ Continue(p, chunk, <<Expression, close, infix>>)
  <2>1. p.pos > parser.pos
    BY <1>4, <1>10
  <2>2. <<Expression, close, infix>> \in Seq(TaskType) /\ Costs(<<Expression, close, infix>>, 0)
    <3>1. Costs(<<Expression, close, infix>>, 0 + 0 + 0)
      BY <1>5, <1>8, Costings, Zenon
    <3>. QED  BY <1>5, <1>8, <3>1
  <2>. QED  BY <1>1, <1>3, <1>8, <1>10, <2>1, <2>2, TokenStay
<1>11. CASE t.type \in PrefixOperators /\ Continue(p, chunk, <<prefix, unary, infix>>)
  <2>1. p.pos > parser.pos
    BY <1>4, <1>11 DEF PrefixOperators
  <2>2. <<prefix, unary, infix>> \in Seq(TaskType) /\ Costs(<<prefix, unary, infix>>, 1)
    <3>1. Costs(<<prefix, unary, infix>>, 0 + 1 + 0)
      BY <1>5, <1>6, <1>7, <1>8, Costings, Zenon
    <3>. QED  BY <1>5, <1>6, <1>7, <3>1
  <2>. QED  BY <1>1, <1>3, <1>8, <1>11, <2>1, <2>2, TokenStay
<1>12. CASE Continue(p, chunk, <<>>)
  <2>1. <<>> \in Seq(TaskType) /\ Costs(<<>>, 0)
    BY Costings, GroundTasks DEF Grounded
  <2>2. CASE t.type # "TK_EOF"
    BY <1>1, <1>3, <1>4, <1>8, <1>12, <2>1, <2>2, TokenStay
  <2>3. CASE t.type = "TK_EOF"
    <3>1. parser.pos = Len(source)
      BY <1>2, <1>3, <2>3, EndOfSource
    <3>2. Credit = 0 /\ ~Endless
      <4>1. parser.pos >= Len(source)
        BY <1>2, <3>1
      <4>. QED  BY <1>1, <4>1, CreditFacts
    <3>3. chunk.size \in Nat /\ chunk.size <= chunk.size + Bytes(0) /\ 0 + 0 <= Price(Now)
      BY <1>1, <1>2, Sizes
    <3>. QED  BY <1>1, <1>3, <1>8, <1>12, <2>1, <3>2, <3>3, PayIdle
  <2>. QED  BY <2>2, <2>3
<1>. QED  BY <1>1, <1>9, <1>10, <1>11, <1>12

LEMMA InfixPays ==
  ASSUME IInv, Ended, Paid, InfixRule
  PROVE  Paid'
<1>. DEFINE type == Current(parser).type
            prefix == Prefix(PrecedenceOf(type) + 1)
            binary == Operator("binary", type)
            tasks == <<prefix, binary, Now>>
            p == advanceParser(parser)
<1>1. /\ Doing("infix")
      /\ \/ Now.n <= PrecedenceOf(type) /\ Continue(p, chunk, tasks)
         \/ Continue(parser, chunk, <<>>)
  BY DEF InfixRule
<1>2. /\ source \in Sources /\ parser \in ParserType /\ Now \in TaskType /\ Now.do = "infix"
      /\ Price(Now) = 0 /\ Now.n >= 1 /\ Now.n \in Nat
  BY <1>1, Doings, Prices, NowFits, TaskFields
<1>3. type \in token_t /\ PrecedenceOf(type) \in Nat
  BY <1>2, ParserMoves, TokenFields, PrecedenceFacts
<1>4. Now.n <= PrecedenceOf(type) => p \in ParserType /\ p.pos > parser.pos
  <2>1. ASSUME Now.n <= PrecedenceOf(type) PROVE type # "TK_EOF"
    <3>1. PrecedenceOf(type) >= 1
      BY <1>2, <1>3, <2>1
    <3>2. type \in OperatorTypes
      BY <3>1, PrecedenceFacts
    <3>. QED  BY <3>2 DEF OperatorTypes
  <2>. QED  BY <1>2, <2>1, ParserMoves, TokenAhead
<1>. HIDE DEF type, p
<1>5. prefix \in TaskType /\ Price(prefix) = 0
  <2>1. PrecedenceOf(type) + 1 \in Nat
    BY <1>3
  <2>2. prefix \in TaskType /\ prefix.do = "prefix"
    BY <2>1, TaskKinds DEF Prefix, Deeds
  <2>. QED  BY <2>2, Prices
<1>6. binary \in TaskType /\ Price(binary) = 2
  <2>1. binary \in TaskType /\ binary.do = "binary"
    BY <1>3, TaskKinds DEF Deeds
  <2>. QED  BY <2>1, Prices
<1>. HIDE DEF prefix, binary
<1>7. 0 \in Nat /\ 2 \in Nat /\ 2 <= Price(Now) + 3 /\ 0 <= Price(Now) /\ "infix" \in Steady
      /\ parser.pos >= parser.pos
  <2>1. parser.pos \in Nat
    BY <1>2 DEF ParserType
  <2>. QED  BY <1>2, <2>1 DEF Steady, Deeds
<1>8. CASE Now.n <= PrecedenceOf(type) /\ Continue(p, chunk, tasks)
  <2>1. tasks \in Seq(TaskType) /\ Costs(tasks, 2)
    <3>1. Costs(tasks, 0 + 2 + 0)
      BY <1>2, <1>5, <1>6, <1>7, Costings, Zenon
    <3>. QED  BY <1>2, <1>5, <1>6, <3>1
  <2>. HIDE DEF tasks
  <2>. QED  BY <1>1, <1>4, <1>7, <1>8, <2>1, TokenStay
<1>9. CASE Continue(parser, chunk, <<>>)
  <2>1. <<>> \in Seq(TaskType) /\ Costs(<<>>, 0)
    BY Costings, GroundTasks DEF Grounded
  <2>. QED  BY <1>1, <1>2, <1>7, <1>9, <2>1, IdleStay
<1>. QED  BY <1>1, <1>8, <1>9

LEMMA BinaryPays ==
  ASSUME IInv, Paid, Binary
  PROVE  Paid'
<1>. DEFINE c == WriteAll(chunk, BinaryCode(Now.type))
<1>1. Doing("binary") /\ Continue(parser, c, <<>>)
  BY DEF Binary
<1>2. /\ Solid(chunk) /\ chunk.size \in Nat /\ Now \in TaskType /\ Now.do = "binary" /\ Price(Now) = 2
      /\ Now.type \in OperatorTypes /\ parser \in ParserType
  BY <1>1, Doings, Prices, NowFits
<1>3. PICK op \in BinaryOps : \/ BinaryCode(Now.type) = <<Simple(op)>>
                              \/ BinaryCode(Now.type) = <<Simple(op), Simple("OP_NOT")>>
  BY <1>2, BinaryCodes
<1>. DEFINE i == Simple(op)
            j == Simple("OP_NOT")
            w == Write(chunk, i)
<1>4. /\ i \in Instruction(Names) /\ Width(i) \in Nat /\ Width(i) <= Unit
      /\ j \in Instruction(Names) /\ Width(j) \in Nat /\ Width(j) <= Unit
  <2>1. i \in Instruction(Names) /\ i.op = op /\ j \in Instruction(Names) /\ j.op = "OP_NOT"
    BY InstructionTypes, InstructionFields DEF OpCode, UnaryOps
  <2>2. op # "OP_DEC_FUNCTION"
    BY DEF BinaryOps
  <2>. HIDE DEF i, j
  <2>. QED  BY <2>1, <2>2, InstructionUnits, WidthType
<1>5. Unit \in Nat /\ Bytes(2) = Unit + Unit
  <2>1. Bytes(1 + 1) = Bytes(1) + Bytes(1) /\ Bytes(1) = Unit /\ 1 + 1 = 2
    BY UnitTimes
  <2>. QED  BY <2>1, UnitType
<1>. HIDE DEF i, j
<1>6. w.size = chunk.size + Width(i) /\ Solid(w)
  BY <1>2, <1>4, WriteFacts
<1>. HIDE DEF w
<1>7. c.size \in Nat /\ c.size <= chunk.size + Bytes(2)
  <2>1. CASE BinaryCode(Now.type) = <<i>>
    <3>1. c = w
      BY <2>1 DEF WriteAll, w
    <3>. QED  BY <3>1, <1>2, <1>4, <1>5, <1>6
  <2>2. CASE BinaryCode(Now.type) = <<i, j>>
    <3>1. c = Write(w, j)
      BY <2>2 DEF WriteAll, w
    <3>2. c.size = w.size + Width(j)
      BY <3>1, <1>4, <1>6, WriteFacts
    <3>. QED  BY <3>2, <1>2, <1>4, <1>5, <1>6
  <2>. QED  BY <1>3, <2>1, <2>2 DEF i, j
<1>. HIDE DEF c
<1>8. <<>> \in Seq(TaskType) /\ Costs(<<>>, 0) /\ 0 \in Nat /\ 2 \in Nat /\ parser.pos >= parser.pos
  <2>1. parser.pos \in Nat
    BY <1>2 DEF ParserType
  <2>. QED  BY <2>1, Costings, GroundTasks DEF Grounded
<1>9. 2 + 0 <= Price(Now) /\ Credit = 0 /\ ~Endless
  <2>1. Credit = 0 /\ ~Endless
    BY <1>1, CreditFacts
  <2>. QED  BY <1>2, <2>1
<1>. QED  BY <1>1, <1>2, <1>7, <1>8, <1>9, PayIdle

LEMMA HeadsPay ==
  ASSUME IInv, Ended, Paid, Parameter \/ EndParameters \/ ReturnType \/ EndReturnTypes
  PROVE  Paid'
<1>1. PICK do \in {"params", "returns"} : Doing(do)
  BY ZenonT(40) DEF Parameter, InParameters, EndParameters, ReturnType, InReturnTypes,
                    EndReturnTypes
<1>2. /\ source \in Sources /\ parser \in ParserType /\ Now \in TaskType /\ Now.do = do
      /\ agenda \in Seq(TaskType) /\ agenda # <<>> /\ Now = agenda[1]
      /\ Len(source) \in Nat /\ parser.pos \in 1 .. Len(source)
      /\ chunk.size \in Nat /\ chunk.size <= chunk.size + Bytes(0)
  BY <1>1, Doings, ParserGoesOn, Sizes DEF Now
<1>3. /\ Now.params \in Seq(Names) /\ Len(Now.params) \in Nat /\ Now.rets \in Nat
      /\ Price(Now) = 4 + Len(Now.params) + Now.rets /\ Price(Now) \in Nat
  BY <1>1, <1>2, TaskFields, Prices
<1>. DEFINE p == advanceParser(parser)
<1>4. /\ p \in ParserType /\ p.pos \in 1 .. Len(source)
      /\ p.pos >= parser.pos /\ (parser.pos < Len(source) => p.pos > parser.pos)
      /\ (parser.pos = Len(source) => p.pos = Len(source))
  <2>1. /\ p \in ParserType /\ p.pos >= parser.pos
        /\ (parser.pos < Len(source) => p.pos = parser.pos + 1)
        /\ (parser.pos = Len(source) => p.pos = parser.pos)
    BY <1>2, ParserMoves, ParserGoesOn
  <2>. HIDE DEF p
  <2>2. p.pos \in 1 .. Len(source)
    BY <1>2, <2>1, ParserGoesOn
  <2>. QED  BY <1>2, <2>1, <2>2
<1>5. /\ advanceParser(p) \in ParserType /\ advanceParser(p).pos >= p.pos
      /\ advanceParser(p).pos \in 1 .. Len(source)
      /\ (p.pos = Len(source) => advanceParser(p).pos = Len(source))
  <2>. HIDE DEF p
  <2>1. /\ advanceParser(p) \in ParserType /\ advanceParser(p).pos >= p.pos
        /\ (p.pos = Len(source) => advanceParser(p).pos = p.pos)
    BY <1>2, <1>4, ParserMoves, ParserGoesOn
  <2>2. advanceParser(p).pos \in 1 .. Len(source)
    BY <1>2, <2>1, ParserGoesOn
  <2>. QED  BY <2>1, <2>2
<1>. HIDE DEF p
\* One more name or type, for one more token; or the source has ended and they go on for ever.
<1>6. ASSUME NEW t \in TaskType, t.do = do, Price(t) = Price(Now) + 1,
             NEW r \in ParserType, Continue(r, chunk, <<t>>),
             parser.pos < Len(source) => r.pos > parser.pos,
             parser.pos = Len(source) => r.pos = Len(source)
      PROVE  Paid'
  <2>. DEFINE tasks == <<t>>
              n == Price(Now) + 1
  <2>1. n \in Nat /\ n <= Price(Now) + 3
    BY <1>3
  <2>2. tasks \in Seq(TaskType) /\ Costs(tasks, n) /\ Len(tasks) = 1 /\ tasks[1] = t
    <3>1. Costs(<<t>>, n)
      BY <1>6, <2>1, Costings, Zenon
    <3>. QED  BY <3>1
  <2>3. Continue(r, chunk, tasks)
    BY <1>6
  <2>. HIDE DEF tasks, n
  <2>4. CASE parser.pos < Len(source)
    BY <1>1, <1>6, <2>1, <2>2, <2>3, <2>4, TokenStay
  <2>5. CASE parser.pos = Len(source)
    <3>1. agenda' = tasks \o Tail(agenda) /\ parser' = r /\ source' = source /\ chunk' = chunk
      BY <2>3 DEF Continue
    <3>2. Len(tasks) >= 1
      BY <2>2
    <3>3. agenda' # <<>> /\ agenda'[1] = t
      BY <1>2, <2>2, <3>1, <3>2, NewHead
    <3>4. Endless'
      BY <1>1, <1>6, <2>5, <3>1, <3>3 DEF Endless
    <3>. QED  BY <3>1, <3>4, Zenon DEF Paid
  <2>. QED  BY <1>2, <2>4, <2>5
\* The next part of the definition.
<1>7. ASSUME NEW next \in {"returns", "header"}, Current(parser).type # "TK_EOF",
             NEW r \in ParserType, r.pos >= parser.pos,
             Continue(r, chunk, <<[Now EXCEPT !.do = next]>>)
      PROVE  Paid'
  <2>. DEFINE t == [Now EXCEPT !.do = next]
              tasks == <<t>>
              n == Price(Now)
  <2>1. t \in TaskType /\ Price(t) = n /\ n \in Nat
    <3>1. next \in Deeds
      BY <1>7 DEF Deeds
    <3>2. t \in TaskType /\ t.do = next /\ t.params = Now.params /\ t.rets = Now.rets
      BY <1>2, <3>1 DEF TaskType
    <3>. HIDE DEF t
    <3>. QED  BY <1>3, <1>7, <3>2, Prices
  <2>. HIDE DEF t
  <2>2. tasks \in Seq(TaskType) /\ Costs(tasks, n) /\ Continue(r, chunk, tasks)
    BY <1>7, <2>1, Costings DEF t
  <2>. HIDE DEF tasks
  <2>3. Credit = 0 /\ ~Endless
    <3>1. parser.pos < Len(source)
      BY <1>2, <1>7, TokenAhead
    <3>. QED  BY <1>1, <3>1, CreditFacts
  <2>4. 0 + n <= Price(Now) /\ 0 \in Nat
    BY <2>1
  <2>. QED  BY <1>1, <1>2, <1>7, <2>1, <2>2, <2>3, <2>4, PayIdle
<1>8. CASE Parameter
  <2>. DEFINE x == IF Check(p, {"TK_IDENTIFIER"}) THEN Current(p).text ELSE ""
              t == [Now EXCEPT !.params = Append(Now.params, x)]
  <2>1. Doing("params") /\ Continue(advanceParser(p), chunk, <<t>>)
    BY <1>8, ZenonT(40) DEF Parameter, InParameters, p
  <2>2. do = "params"
    BY <1>2, <2>1, Doings, ZenonT(40)
  <2>3. x \in Names
    <3>1. Current(p) \in Token(Names)
      BY <1>2, <1>4, ParserMoves
    <3>. QED  BY <3>1, TokenFields, NamesAssumption, ZenonT(40)
  <2>. HIDE DEF x
  <2>4. Append(Now.params, x) \in Seq(Names) /\ Len(Append(Now.params, x)) = Len(Now.params) + 1
    BY <1>3, <2>3
  <2>5. t \in TaskType /\ t.do = do /\ t.params = Append(Now.params, x) /\ t.rets = Now.rets
    BY <1>2, <2>4 DEF TaskType
  <2>. HIDE DEF t
  <2>6. Price(t) = Price(Now) + 1
    <3>1. Price(t) = 4 + Len(t.params) + t.rets
      BY <2>2, <2>5, Prices
    <3>2. Len(t.params) = Len(Now.params) + 1
      BY <2>4, <2>5, Zenon
    <3>3. Price(t) = 4 + (Len(Now.params) + 1) + Now.rets
      BY <2>5, <3>1, <3>2, Zenon
    <3>. QED  BY <1>3, <3>3, SMTT(30)
  <2>7. /\ parser.pos < Len(source) => advanceParser(p).pos > parser.pos
        /\ parser.pos = Len(source) => advanceParser(p).pos = Len(source)
    BY <1>2, <1>4, <1>5
  <2>. QED  BY <1>5, <1>6, <2>1, <2>5, <2>6, <2>7
<1>9. CASE ReturnType
  <2>. DEFINE t == [Now EXCEPT !.rets = Now.rets + 1]
  <2>1. Doing("returns") /\ Continue(p, chunk, <<t>>)
    BY <1>9 DEF ReturnType, InReturnTypes, p
  <2>2. do = "returns"
    BY <1>2, <2>1, Doings
  <2>3. Now.rets + 1 \in Nat
    BY <1>3
  <2>4. t \in TaskType /\ t.do = do /\ t.params = Now.params /\ t.rets = Now.rets + 1
    BY <1>2, <2>3 DEF TaskType
  <2>. HIDE DEF t
  <2>5. Price(t) = Price(Now) + 1
    <3>1. Price(t) = 4 + Len(t.params) + t.rets
      BY <2>2, <2>4, Prices
    <3>. QED  BY <1>3, <2>4, <3>1, SMTT(30)
  <2>. QED  BY <1>4, <1>6, <2>1, <2>4, <2>5
<1>10. CASE EndParameters
  <2>1. /\ Check(parser, {"TK_BRACE_OPEN", "TK_PARAMETER_LIST_SEPARATOR"})
        /\ \/ Continue(p, chunk, <<[Now EXCEPT !.do = "returns"]>>)
           \/ Continue(parser, chunk, <<[Now EXCEPT !.do = "header"]>>)
    BY <1>10 DEF EndParameters, p
  <2>2. Current(parser).type # "TK_EOF" /\ parser.pos >= parser.pos
    BY <1>2, <2>1 DEF Check
  <2>. QED  BY <1>2, <1>4, <1>7, <2>1, <2>2
<1>11. CASE EndReturnTypes
  <2>1. /\ Check(parser, {"TK_BRACE_OPEN"})
        /\ Continue(parser, chunk, <<[Now EXCEPT !.do = "header"]>>)
    BY <1>11 DEF EndReturnTypes
  <2>2. Current(parser).type # "TK_EOF" /\ parser.pos >= parser.pos
    BY <1>2, <2>1 DEF Check
  <2>. QED  BY <1>2, <1>7, <2>1, <2>2
<1>. QED  BY <1>8, <1>9, <1>10, <1>11

LEMMA FunctionNamePays ==
  ASSUME IInv, Ended, Paid, FunctionName
  PROVE  Paid'
<1>. DEFINE q == advanceParser(parser)
            p == advanceParser(q)
            name == p.previous.text
            first == [Task("params") EXCEPT !.name = name]
            newlines == Task("newlines")
            tasks == <<first, newlines>>
<1>1. /\ Doing("statement") /\ Current(parser).type # "TK_EOF"
      /\ parser' = p /\ agenda' = tasks \o Tail(agenda) /\ source' = source /\ chunk' = chunk
  BY DEF FunctionName, Check
<1>2. /\ source \in Sources /\ parser \in ParserType /\ Price(Now) = 1
      /\ Len(source) \in Nat /\ parser.pos \in 1 .. Len(source)
      /\ chunk.size \in Nat /\ chunk.size <= chunk.size + Bytes(0)
  BY <1>1, Doings, ParserGoesOn, Prices, Sizes
<1>3. q \in ParserType /\ q.pos > parser.pos
  BY <1>1, <1>2, ParserMoves, TokenAhead
<1>4. p \in ParserType /\ p.pos > parser.pos /\ p.previous \in Token(Names)
  <2>. HIDE DEF q
  <2>1. q.pos \in 1 .. Len(source) /\ p \in ParserType /\ p.pos >= q.pos
    BY <1>2, <1>3, ParserMoves, ParserGoesOn
  <2>. HIDE DEF p
  <2>2. p.pos \in 1 .. Len(source) /\ p.previous \in Token(Names)
    BY <1>2, <2>1, ParserMoves, ParserGoesOn
  <2>. QED  BY <1>2, <1>3, <2>1, <2>2
<1>. HIDE DEF p
<1>5. name \in Names
  BY <1>4, TokenFields
<1>. HIDE DEF name
<1>6. first \in TaskType /\ Price(first) = 4
  <2>1. first \in TaskType /\ first.do = "params" /\ first.params = <<>> /\ first.rets = 0
    <3>1. first \in TaskType /\ first.do = "params"
      BY <1>5, TaskKinds DEF Deeds
    <3>2. first.params = <<>> /\ first.rets = 0
      BY DEF Task
    <3>. QED  BY <3>1, <3>2
  <2>2. Price(first) = 4 + Len(<<>>) + 0
    <3>. HIDE DEF first
    <3>. QED  BY <2>1, Prices
  <2>3. Len(<<>>) = 0
    OBVIOUS
  <2>. HIDE DEF first
  <2>. QED  BY <2>1, <2>2, <2>3
<1>7. newlines \in TaskType /\ Price(newlines) = 0 /\ 0 \in Nat /\ 4 \in Nat
  BY TaskPrices
<1>. HIDE DEF first, newlines
<1>8. tasks \in Seq(TaskType) /\ Costs(tasks, 4)
  <2>1. Costs(tasks, 4 + 0)
    BY <1>6, <1>7, Costings, Zenon
  <2>. QED  BY <1>6, <1>7, <2>1
<1>. HIDE DEF tasks
<1>9. Credit = 1 /\ ~Endless
  <2>1. parser.pos < Len(source)
    BY <1>1, <1>2, TokenAhead
  <2>. QED  BY <1>1, <2>1, CreditFacts
<1>10. Credit' \in {0, 1}
  BY DEF Credit
<1>11. Balanced(0, 4, p)
  <2>1. Left(p) + 4 <= Left(parser) /\ Left(p) \in Nat /\ Left(parser) \in Nat
    BY <1>2, <1>4, LeftFacts
  <2>. QED  BY <1>2, <1>9, <1>10, <2>1 DEF Balanced
<1>12. chunk'.size = chunk.size
  BY <1>1
<1>. QED  BY <1>1, <1>2, <1>4, <1>7, <1>8, <1>9, <1>11, <1>12, StepPaid

LEMMA FunctionHeaderPays ==
  ASSUME IInv, Paid, FunctionHeader
  PROVE  Paid'
<1>. DEFINE i == Header(Now.name, Now.params, Now.rets, Unpatched)
            c == Write(chunk, i)
            end == At("endFunction", chunk.size)
            block == Task("block")
            tasks == <<block, end>>
            p == consumeIf(parser, {"TK_BRACE_OPEN"})
<1>1. Doing("header") /\ Continue(p, c, tasks)
  BY DEF FunctionHeader
<1>2. /\ source \in Sources /\ parser \in ParserType /\ Now \in TaskType /\ Now.do = "header"
      /\ Solid(chunk) /\ chunk.size \in Nat
  BY <1>1, Doings
<1>3. /\ Now.name \in Names /\ Now.params \in Seq(Names) /\ Now.rets \in Nat /\ Len(Now.params) \in Nat
      /\ Price(Now) = 4 + Len(Now.params) + Now.rets
  BY <1>2, TaskFields, Prices
<1>. DEFINE w == 1 + (Len(Now.params) + Now.rets)
<1>4. w \in Nat /\ w + 3 <= Price(Now)
  BY <1>3, SMTT(30)
<1>5. i \in Instruction(Names) /\ i.op = "OP_DEC_FUNCTION" /\ i.params = Now.params /\ i.rets = Now.rets
  BY <1>3, InstructionTypes DEF Unpatched, Header
<1>. HIDE DEF i
<1>6. c.size \in Nat /\ c.size <= chunk.size + Bytes(w)
  <2>1. Width(i) <= Bytes(w)
    BY <1>5, InstructionUnits
  <2>2. c.size = chunk.size + Width(i)
    BY <1>2, <1>5, WriteFacts
  <2>3. Width(i) \in Nat /\ Bytes(w) \in Nat
    BY <1>4, <1>5, WidthType, UnitTimes
  <2>. HIDE DEF c, w
  <2>. QED  BY <1>2, <2>1, <2>2, <2>3
<1>7. block \in TaskType /\ Price(block) = 2 /\ 1 \in Nat /\ 2 \in Nat /\ 3 \in Nat
  BY TaskPrices
<1>8. end \in TaskType /\ Price(end) = 1
  <2>1. end \in TaskType /\ end.do = "endFunction"
    BY <1>2, TaskKinds DEF Deeds
  <2>. QED  BY <2>1, Prices
<1>. HIDE DEF block, end
<1>9. tasks \in Seq(TaskType) /\ Costs(tasks, 3)
  <2>1. Costs(tasks, 2 + 1)
    BY <1>7, <1>8, Costings, Zenon
  <2>. QED  BY <1>7, <1>8, <2>1
<1>10. p \in ParserType /\ p.pos >= parser.pos
  BY <1>2, ParserMoves, ParserGoesOn
<1>11. Credit = 0 /\ ~Endless
  BY <1>1, CreditFacts
<1>. HIDE DEF w, c, tasks, p
<1>. QED  BY <1>1, <1>4, <1>6, <1>7, <1>9, <1>10, <1>11, PayIdle

-----------------------------------------------------------------------------
(* The length of the chunk *)

\* No chunk is longer than four units for every token.
Affordable ==
  Ended => /\ chunk.size <= Bytes(4 * Len(source))
           /\ status = "compiling" => Paid

LEMMA InitPaid ==
  ASSUME Init
  PROVE  Affordable
<1>1. /\ source \in Sources /\ Len(source) \in Nat /\ Len(source) >= 1
      /\ chunk.size = 0 /\ parser.pos = 1 /\ agenda = <<Task("program")>>
  BY SourceFacts DEF Init
<1>. DEFINE t == Task("program")
            h == [k \in 1 .. 2 |-> IF k = 1 THEN 1 ELSE 0]
<1>2. t \in TaskType /\ Price(t) = 1
  BY TaskPrices
<1>. HIDE DEF t
<1>3. Len(agenda) = 1 /\ agenda[1] = t
  BY <1>1 DEF t
<1>4. h \in [1 .. 1 + 1 -> Nat] /\ h[1 + 1] = 0 /\ h[1] = 1 /\ (\A k \in 1 .. 1 : k = 1)
  OBVIOUS
<1>. HIDE DEF h
<1>5. Owes(agenda, 1)
  <2>1. h[1] = Price(agenda[1]) + h[1 + 1]
    BY <1>2, <1>3, <1>4
  <2>2. Bill(agenda, h)
    BY <1>3, <1>4, <2>1, Zenon DEF Bill
  <2>. QED  BY <1>4, <2>2 DEF Owes
<1>6. Credit \in {0, 1}
  BY DEF Credit
<1>7. 0 + 1 + Left(parser) <= 4 * Len(source) - 3 + Credit
  BY <1>1, <1>6 DEF Left
<1>8. /\ 0 \in Nat /\ 1 \in Nat /\ 0 <= 4 * Len(source) - 2
      /\ chunk.size <= Bytes(0) /\ chunk.size <= Bytes(4 * Len(source))
  <2>1. 4 * Len(source) \in Nat /\ 0 <= 4 * Len(source) - 2 /\ 0 \in Nat
    BY <1>1
  <2>2. Bytes(0) = 0 /\ Bytes(4 * Len(source)) \in Nat
    BY <2>1, UnitTimes
  <2>. QED  BY <1>1, <2>1, <2>2
<1>9. Paid
  BY <1>5, <1>7, <1>8, Zenon DEF Paid
<1>. QED  BY <1>8, <1>9 DEF Affordable

LEMMA WithinUnits ==
  ASSUME NEW n \in Nat, NEW z \in Nat, NEW k \in Nat, z <= Bytes(k), k <= 4 * n - 2
  PROVE  z + Unit <= Bytes(4 * n) /\ z <= Bytes(4 * n) /\ Bytes(4 * n) \in Nat
<1>. DEFINE m == 4 * n
<1>1. m \in Nat /\ k + 1 \in Nat /\ k + 1 <= m
  OBVIOUS
<1>. HIDE DEF m
<1>2. /\ Bytes(k + 1) = Bytes(k) + Bytes(1) /\ Bytes(1) = Unit /\ Bytes(k + 1) <= Bytes(m)
      /\ Bytes(k) \in Nat /\ Bytes(m) \in Nat /\ Unit \in Nat
  BY <1>1, UnitTimes, UnitType
<1>. QED  BY <1>2 DEF m

LEMMA PaidBound ==
  ASSUME source \in Sources, chunk.size \in Nat, Paid
  PROVE  chunk.size + Unit <= Bytes(4 * Len(source))
<1>1. Len(source) \in Nat
  BY SourceFacts
<1>2. PICK k \in Nat : chunk.size <= Bytes(k) /\ k <= 4 * Len(source) - 2
  BY DEF Paid
<1>. QED  BY <1>1, <1>2, WithinUnits

LEMMA StepsPay ==
  ASSUME IInv, Ended, Paid, NEW do, Doing(do), Step, status' = "compiling"
  PROVE  Paid'
<1>1. CASE Program \/ EndOfFile \/ Newlines \/ BlockLoop \/ Close
  BY <1>1, IdlesPay
<1>2. CASE SetVariable \/ PopValue \/ PrintValue \/ EndBlock \/ Unary
  BY <1>2, UnitsPay
<1>3. CASE Then \/ LoopBody \/ Block
  BY <1>3, OpenersPay
<1>4. CASE Else \/ PatchJump \/ Loop \/ EndFunction
  BY <1>4, PatchesPay
<1>5. CASE IfStatement \/ WhileStatement \/ PrintStatement \/ BlockStatement \/ ExpressionStatement
  BY <1>5, StatementsPay
<1>6. CASE VariableDeclaration \/ NamedStatement \/ OtherStatement
  BY <1>6, NamesPay, OthersPay
<1>7. CASE PrefixRule \/ InfixRule \/ Binary
  BY <1>7, PrefixPays, InfixPays, BinaryPays
<1>8. CASE \/ Parameter \/ EndParameters \/ ReturnType \/ EndReturnTypes
           \/ FunctionName \/ FunctionHeader
  BY <1>8, HeadsPay, FunctionNamePays, FunctionHeaderPays
<1>9. CASE EndCompiler
  BY <1>9 DEF EndCompiler
<1>10. CASE WildRule \/ Overrun \/ WildName \/ Misencoded \/ TooFar \/ OutOfMemory
  BY <1>10 DEF Stop, WildRule, Overrun, WildName, Misencoded, TooFar, OutOfMemory
<1>. QED  BY <1>1, <1>2, <1>3, <1>4, <1>5, <1>6, <1>7, <1>8, <1>9, <1>10 DEF Step

\* A step writes an instruction and ends, stops for one of the reasons, or goes on.
LEMMA StepKinds ==
  ASSUME Step
  PROVE  /\ status = "compiling" /\ source' = source
         /\ \/ status' = "compiling" /\ \E do : Doing(do)
            \/ status' = "done" /\ chunk' = Write(chunk, Simple("OP_RETURN"))
            \/ status' \notin {"compiling", "out_of_memory"} /\ chunk' = chunk
            \/ status' = "out_of_memory" /\ chunk' = chunk /\ chunk.size > MaxCode
<1>1. CASE Program \/ EndOfFile \/ Newlines \/ BlockLoop \/ Close
  BY <1>1 DEF Program, EndOfFile, Newlines, BlockLoop, Close, Declaration, Continue, Doing
<1>2. CASE SetVariable \/ PopValue \/ PrintValue \/ EndBlock \/ Unary
  BY <1>2 DEF SetVariable, PopValue, PrintValue, EndBlock, Unary, Continue, Doing
<1>3. CASE Then \/ LoopBody \/ Block
  BY <1>3 DEF Then, LoopBody, Block, Continue, Doing
<1>4. CASE Else \/ PatchJump \/ Loop \/ EndFunction
  BY <1>4 DEF Else, PatchJump, Loop, EndFunction, Continue, Doing
<1>5. CASE IfStatement \/ WhileStatement \/ PrintStatement \/ BlockStatement \/ ExpressionStatement
  BY <1>5 DEF IfStatement, WhileStatement, PrintStatement, BlockStatement, ExpressionStatement,
              Keyword, Continue, Doing
<1>6. CASE VariableDeclaration \/ NamedStatement \/ OtherStatement
  BY <1>6 DEF VariableDeclaration, NamedStatement, OtherStatement, Assignment, Declaration,
              Continue, Doing
<1>7. CASE PrefixRule \/ InfixRule \/ Binary
  BY <1>7 DEF PrefixRule, InfixRule, Binary, Continue, Doing
<1>8. CASE \/ Parameter \/ EndParameters \/ ReturnType \/ EndReturnTypes
           \/ FunctionName \/ FunctionHeader
  BY <1>8, ZenonT(40) DEF Parameter, InParameters, EndParameters, ReturnType, InReturnTypes,
              EndReturnTypes, FunctionName, FunctionHeader, Continue, Doing
<1>9. CASE EndCompiler
  BY <1>9 DEF EndCompiler, Doing
<1>10. CASE WildRule \/ Overrun \/ WildName \/ Misencoded \/ TooFar
  BY <1>10 DEF WildRule, Overrun, Overruns, InParameters, InReturnTypes, WildName, Misencoded,
               TooFar, Stop, Doing
<1>11. CASE OutOfMemory
  BY <1>11 DEF OutOfMemory, Stop
<1>. QED  BY <1>1, <1>2, <1>3, <1>4, <1>5, <1>6, <1>7, <1>8, <1>9, <1>10, <1>11 DEF Step

LEMMA HeldSize ==
  ASSUME IInv
  PROVE  Solid(chunk) /\ chunk.size \in Nat
BY DEF IInv, Held, Sound, Solid

LEMMA StepAffords ==
  ASSUME IInv, Affordable, [Next]_vars
  PROVE  Affordable'
<1>1. source \in Sources /\ Solid(chunk) /\ chunk.size \in Nat
  BY HeldSize DEF IInv, Typed
<1>2. chunk'.size \in Nat
  <2>1. IInv'
    BY StepHolds
  <2>. QED  BY <2>1 DEF IInv, Held, Sound, Solid
<1>3. CASE UNCHANGED vars
  BY <1>3 DEF vars, Affordable, Paid, Endless, Credit, Left, Ended, Current
<1>4. CASE Step
  <2>. SUFFICES ASSUME Ended'
                PROVE  /\ chunk'.size <= Bytes(4 * Len(source'))
                       /\ status' = "compiling" => Paid'
    BY DEF Affordable
  <2>1. status = "compiling" /\ source' = source
    BY <1>4, StepKinds
  <2>2. Ended /\ Paid /\ chunk.size <= Bytes(4 * Len(source))
    BY <2>1 DEF Affordable, Ended
  <2>3. CASE status' = "compiling" /\ \E do : Doing(do)
    <3>1. Paid'
      BY <1>4, <2>2, <2>3, StepsPay
    <3>2. chunk'.size <= Bytes(4 * Len(source')) /\ Bytes(4 * Len(source')) \in Nat
      <4>1. PICK k \in Nat : chunk'.size <= Bytes(k) /\ k <= 4 * Len(source) - 2
        BY <2>1, <3>1 DEF Paid
      <4>2. Len(source) \in Nat
        BY <1>1, SourceFacts
      <4>. QED  BY <1>2, <2>1, <4>1, <4>2, WithinUnits
    <3>. QED  BY <3>1, <3>2
  <2>4. CASE status' = "done" /\ chunk' = Write(chunk, Simple("OP_RETURN"))
    <3>1. Simple("OP_RETURN") \in Instruction(Names) /\ Simple("OP_RETURN").op = "OP_RETURN"
      BY InstructionTypes, ZenonT(40) DEF Simple, OpCode
    <3>2. Width(Simple("OP_RETURN")) <= Unit /\ Width(Simple("OP_RETURN")) \in Nat
      BY <3>1, InstructionUnits, WidthType
    <3>3. chunk'.size = chunk.size + Width(Simple("OP_RETURN"))
      BY <1>1, <2>4, <3>1, WriteFacts
    <3>4. chunk.size + Unit <= Bytes(4 * Len(source))
      BY <1>1, <2>2, PaidBound
    <3>5. Bytes(4 * Len(source)) \in Nat
      <4>1. 4 * Len(source) \in Nat
        BY <1>1, SourceFacts
      <4>. QED  BY <4>1, UnitTimes
    <3>6. chunk'.size <= Bytes(4 * Len(source'))
      <4>. DEFINE w == Width(Simple("OP_RETURN"))
                  z == Bytes(4 * Len(source))
      <4>1. w \in Nat /\ w <= Unit /\ Unit \in Nat /\ chunk'.size = chunk.size + w
            /\ chunk.size + Unit <= z /\ z \in Nat
        BY <3>2, <3>3, <3>4, <3>5, UnitType
      <4>. HIDE DEF w, z
      <4>2. chunk'.size <= z
        BY <1>1, <4>1
      <4>. QED  BY <2>1, <4>2 DEF z
    <3>. QED  BY <2>4, <3>6
  <2>5. CASE status' # "compiling" /\ chunk' = chunk
    BY <2>1, <2>2, <2>5
  <2>. QED  BY <1>4, <2>3, <2>4, <2>5, StepKinds
<1>. QED  BY <1>3, <1>4 DEF Next, CountOn, Rest

Spared == status = "out_of_memory" => source[Len(source)].type = "TK_ERROR"

LEMMA StepSpares ==
  ASSUME SourcesFit, IInv, Affordable, Spared, [Next]_vars
  PROVE  Spared'
<1>1. CASE UNCHANGED vars
  BY <1>1 DEF vars, Spared
<1>2. CASE Step
  <2>. SUFFICES ASSUME status' = "out_of_memory"
                PROVE  source'[Len(source')].type = "TK_ERROR"
    BY DEF Spared
  <2>1. source' = source /\ chunk.size > MaxCode
    BY <1>2, StepKinds
  <2>2. source \in Sources /\ chunk.size \in Nat
    BY HeldSize DEF IInv, Typed
  <2>3. source[Len(source)].type \in {"TK_EOF", "TK_ERROR"}
    BY <2>2, SourcesAssumption DEF Source
  <2>4. CASE source[Len(source)].type = "TK_EOF"
    <3>1. chunk.size <= Bytes(4 * Len(source))
      BY <2>4 DEF Affordable, Ended
    <3>2. Bytes(4 * Len(source)) <= MaxCode
      BY <2>2, <2>4 DEF SourcesFit, RoomFor, Bytes
    <3>3. Bytes(4 * Len(source)) \in Nat
      <4>1. 4 * Len(source) \in Nat
        BY <2>2, SourceFacts
      <4>. QED  BY <4>1, UnitTimes
    <3>. QED  BY <2>1, <2>2, <3>1, <3>2, <3>3, LimitsAssumption
  <2>. QED  BY <2>1, <2>3, <2>4
<1>. QED  BY <1>1, <1>2 DEF Next, CountOn, Rest

\* A source that ends is compiled to a chunk in proportion to it, however broken it is: the
\* single pass writes at most four units for each token, also where recovery from an error
\* closes blocks, conditions, loops and functions that the text leaves open.
THEOREM ChunksAreLinear ==
  Spec => []Proportionate
<1>1. Init => IInv /\ Affordable
  BY InitHolds, InitPaid
<1>2. IInv /\ Affordable /\ [Next]_vars => (IInv /\ Affordable)'
  BY StepHolds, StepAffords
<1>3. Affordable => Proportionate
  BY DEF Affordable, Ended, Bytes, Proportionate
<1>. QED  BY <1>1, <1>2, <1>3, PTL DEF Spec

\* Where there is memory for four units a token, reallocate() fails only for a source whose
\* end the lexer cannot pass: declaration() then takes the same error again and again.
\* Nothing else that is left open makes the compiler write for ever.
THEOREM OnlyErrorsExhaustMemory ==
  ASSUME SourcesFit
  PROVE  Spec => []OnlyErrorsExhaust
<1>1. Init => IInv /\ Affordable /\ Spared
  <2>1. Init => Spared
    BY DEF Init, Spared
  <2>. QED  BY <2>1, InitHolds, InitPaid
<1>2. IInv /\ Affordable /\ Spared /\ [Next]_vars => (IInv /\ Affordable /\ Spared)'
  BY StepHolds, StepAffords, StepSpares
<1>3. Affordable /\ Spared => OnlyErrorsExhaust
  BY DEF Affordable, Ended, Bytes, Spared, Proportionate, OnlyErrorsExhaust
<1>. QED  BY <1>1, <1>2, <1>3, PTL DEF Spec
=============================================================================
