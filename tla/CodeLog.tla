------------------------------- MODULE CodeLog -------------------------------
(***************************************************************************)
(* What chunk.h promises to the compiler: bytes with their locations, in   *)
(* the order they were written, of which two may be replaced later.        *)
(***************************************************************************)
EXTENDS Integers, Sequences

CONSTANTS Bytes, OP_LOOP, Blank, Locations

VARIABLE log   \* what was written since initChunk()

Entry(b, l) == [byte |-> b, location |-> l]
Put(s, k, b) == [s EXCEPT ![k].byte = b]

Init == log = <<>>

Emit(b, l) == log' = Append(log, Entry(b, l))
EmitJump(b, l) == log' = log \o <<Entry(b, l), Entry(Blank, l), Entry(Blank, l)>>
EmitLoop(high, low, l) == log' = log \o <<Entry(OP_LOOP, l), Entry(high, l), Entry(low, l)>>
Patch(k, high, low) == log' = Put(Put(log, k, high), k + 1, low)
Clear == log' = <<>>

Next ==
  \/ \E b \in Bytes, l \in Locations : Emit(b, l)
  \/ \E b \in Bytes \ {OP_LOOP}, l \in Locations : EmitJump(b, l)
  \/ \E high \in Bytes \ {Blank}, low \in Bytes, l \in Locations : EmitLoop(high, low, l)
  \/ \E k \in 2 .. Len(log) - 1, high \in Bytes \ {Blank}, low \in Bytes : Patch(k, high, low)
  \/ Clear

Spec == Init /\ [][Next]_log
=============================================================================
