---------------------------- MODULE MC_Programs -----------------------------
(***************************************************************************)
(* Programs of every shape for the compiler, up to three operators in an   *)
(* expression and three levels of statements.                              *)
(***************************************************************************)
EXTENDS Translation

\* How tightly the operators bind, from the enumeration Precedence.
CodeLevels ==
  [op \in OperatorTypes |->
     CASE op = "TK_OR" -> 1
       [] op = "TK_AND" -> 2
       [] op = "TK_XOR" -> 3
       [] op \in {"TK_EQUALITY", "TK_INEQUALITY"} -> 4
       [] op \in {"TK_LESSER", "TK_GREATER", "TK_LESSER_EQUAL", "TK_GREATER_EQUAL"} -> 5
       [] op \in {"TK_ADD", "TK_SUB"} -> 6
       [] op \in {"TK_MULTIPLY", "TK_DIVIDE", "TK_MODULO"} -> 7]

L == INSTANCE Language WITH Level <- CodeLevels

-----------------------------------------------------------------------------
(* Expressions *)

a == L!Num(1)
b == L!Variable("x")
c == L!Str(2)
OnePerLevel == {"TK_OR", "TK_AND", "TK_XOR", "TK_EQUALITY", "TK_LESSER", "TK_SUB", "TK_DIVIDE"}

Pairs ==
  UNION {{L!Binary(p, L!Binary(q, a, b), c), L!Binary(p, a, L!Binary(q, b, c)),
          L!Not(L!Binary(q, L!Negative(a), L!Not(L!Negative(L!Binary(p, b, c)))))} :
           p, q \in OperatorTypes}
Triples ==
  UNION {{L!Binary(p, L!Binary(q, a, b), L!Binary(r, b, c)),
          L!Binary(p, L!Binary(q, L!Binary(r, a, b), c), L!True),
          L!Binary(p, a, L!Binary(q, b, L!Binary(r, c, L!False)))} :
           p, q, r \in OnePerLevel}

-----------------------------------------------------------------------------
(* Statements *)

cond == L!Binary("TK_LESSER_EQUAL", b, a)

Short == {L!PrintLine(b), L!Assign("x", cond, "TK_NEWLINE"), L!Evaluate(a, "TK_SEMICOLON"),
          L!Define("y", c, "TK_SEMICOLON")}

Compound(first, second) ==
  {L!Block(s) : s \in first} \cup
  {L!If(b, L!Block(s)) : s \in first} \cup
  {L!While(cond, L!Block(s)) : s \in first} \cup
  {L!IfElse(cond, L!Block(s), L!Block(t)) : s \in first, t \in second} \cup
  {L!Then(s, t) : s \in first, t \in second}

Flat == Compound(Short \cup {L!Empty}, Short) \cup
        {L!If(a, L!PrintLine(a)), L!While(b, L!While(b, L!PrintLine(a))),
         L!IfElse(b, L!PrintLine(a), L!IfElse(a, L!PrintLine(b), L!Block(L!Empty))),
         L!Then(L!Declare("x"), L!PrintLine(b)),
         L!Function("f", <<"x">>, 1, L!PrintLine(b))}
Deep == Compound(Flat, {L!Block(L!PrintLine(b)), L!Assign("y", b, "TK_NEWLINE")})

Calls ==
  {L!Then(L!Function("f", params, rets, s), L!Then(call, L!PrintLine(a))) :
     params \in {<<>>, <<"x">>}, rets \in 0 .. 2,
     s \in {L!PrintLine(b), L!Empty, L!While(b, L!Block(L!Assign("x", a, "TK_NEWLINE")))},
     call \in {L!Call("f"), L!CallWith("f", c), L!CallWith("f", L!Parenthesized(b))}}
Nested ==
  {L!Then(L!Function("f", <<"x", "y">>, 0,
            L!Then(L!Function("g", <<>>, 0, L!CallWith("f", L!Binary("TK_ADD", a, b))),
                   L!PrintLine(b))),
          L!If(a, L!Block(L!CallWith("g", L!True))))}

MCPrograms ==
  {L!Program(L!PrintLine(e)) : e \in Pairs \cup Triples} \cup
  {L!Program(s) : s \in Deep \cup Nested} \cup
  {L!Unterminated(s) : s \in Calls \cup Flat}
=============================================================================
