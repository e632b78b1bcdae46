---------------------------- MODULE MC_Precedence ----------------------------
(***************************************************************************)
(* The compiler against the table "Precedence - High to Low" of            *)
(* docs/brash-manual.tex: expressions of two operators the table ranks     *)
(* differently.                                                            *)
(***************************************************************************)
EXTENDS Translation

\* The groups of the table, the tightest highest.
ManualLevels ==
  [op \in OperatorTypes |->
     CASE op \in {"TK_MULTIPLY", "TK_DIVIDE", "TK_MODULO"} -> 5
       [] op \in {"TK_ADD", "TK_SUB"} -> 4
       [] op \in {"TK_AND", "TK_OR", "TK_XOR"} -> 3
       [] op \in {"TK_LESSER", "TK_GREATER", "TK_LESSER_EQUAL", "TK_GREATER_EQUAL"} -> 2
       [] op \in {"TK_EQUALITY", "TK_INEQUALITY"} -> 1]

L == INSTANCE Language WITH Level <- ManualLevels

MCNames == {"", "true", "false", "x"}

Ranked == {pair \in OperatorTypes \X OperatorTypes : ManualLevels[pair[1]] # ManualLevels[pair[2]]}

Expressions ==
  UNION {{L!Binary(pair[1], L!Binary(pair[2], L!Num(1), L!Variable("x")), L!True),
          L!Binary(pair[1], L!Num(1), L!Binary(pair[2], L!Variable("x"), L!True))} :
           pair \in Ranked}

MCPrograms == {L!Program(L!PrintLine(e)) : e \in Expressions}
MCSources == {p.text : p \in MCPrograms}

\* The manual: "Higher precedence operators are evaluated before lower precedence operators."
\* - the instructions of an expression are in the order that the ranks of its table ask for.
FollowsManual == FollowsLanguage
=============================================================================
