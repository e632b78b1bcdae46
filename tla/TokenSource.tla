----------------------------- MODULE TokenSource -----------------------------
(***************************************************************************)
(* What the compiler takes the lexer for: a sequence of tokens, handed     *)
(* over one by one, the last of which is then there for ever.  Source of   *)
(* Compiler is the set of sequences it is prepared for.                    *)
(***************************************************************************)
EXTENDS Integers, Sequences

VARIABLES source, given, token

vars == <<source, given, token>>

Init == given = 0 /\ token = <<"none", "">>

Produce ==
  /\ given < Len(source)
  /\ given' = given + 1
  /\ token' = source[given']
  /\ UNCHANGED source

Spec == Init /\ [][Produce]_vars /\ WF_vars(Produce)
=============================================================================
