---------------------------- MODULE MC_ObjectFile ----------------------------
(***************************************************************************)
(* Chunks of a few instructions, one of them long enough for distances of  *)
(* two bytes, and files of every few bytes.                                *)
(***************************************************************************)
EXTENDS ObjectFile

MCDoubles == {<<29, 12, 0, 1, 2, 3, 4, 5>>}

Short == <<97>>
Long == [k \in 1 .. 260 |-> 98]

BothTexts == {<<>>, Long}
MCTexts == BothTexts

Header(name, types, names, rets) ==
  [name |-> name, types |-> types, names |-> names, rets |-> rets]
BothHeaders == {Header(Short, <<>>, <<>>, <<>>),
                Header(Short, <<1, 3>>, <<Short, <<99, 100>>>>, <<2>>)}
MCHeaders == BothHeaders

\* Opcodes of every kind, an arity, a text and what is no opcode.
Foreign == {0, 1, Opcode["OP_STRING"], Opcode["OP_JUMP"], Opcode["OP_LOOP"],
            Opcode["OP_DEC_FUNCTION"], 97}
AllFiles ==
  UNION {[1 .. n -> Foreign] : n \in 0 .. 5} \cup
  {<<1>> \o [k \in 1 .. n |-> 1] : n \in 6 .. 12} \cup
  {<<Opcode["OP_DEC_FUNCTION"], 0, 0, 0, n>> \o [k \in 1 .. m |-> 1] : n \in 0 .. 2, m \in 0 .. 6}
MCFiles == AllFiles
=============================================================================
