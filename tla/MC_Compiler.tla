---------------------------- MODULE MC_Compiler -----------------------------
(***************************************************************************)
(* The compiler on every short sequence of tokens, most of them no program *)
(* at all, and on the texts of programs.                                   *)
(***************************************************************************)
EXTENDS MC_Programs

CONSTANT MaxTokens

MCNames == {"", "true", "false", "f", "g", "x", "y"}

Alphabet == {Tk(t) : t \in {"TK_NEWLINE", "TK_BRACE_OPEN", "TK_BRACE_CLOSE", "TK_IF", "TK_ELSE",
                            "TK_WHILE", "TK_DEC_FUNCTION", "TK_VAR", "TK_ASSIGNMENT", "TK_SUB",
                            "TK_PAREN_OPEN", "TK_PRINT"}}
              \cup {Spelled("TK_IDENTIFIER", "f")}

Middle == UNION {[1 .. n -> Alphabet] : n \in 0 .. MaxTokens}

Whole(text) == text \o <<Tk("TK_EOF")>>
f == Spelled("TK_IDENTIFIER", "f")
x == Spelled("TK_IDENTIFIER", "x")
one == Valued("TK_NUMBER", 1)
false == Spelled("TK_BOOLEAN", "")
number == Tk("TK_TYPE_NUMBER")
Func(name) == <<Tk("TK_DEC_FUNCTION"), name>>
Show(value) == <<Tk("TK_PRINT"), value>>
Braced(text) == <<Tk("TK_BRACE_OPEN")>> \o text \o <<Tk("TK_BRACE_CLOSE")>>
IfDo(value, text) == <<Tk("TK_IF"), value>> \o text
WhileDo(value, text) == <<Tk("TK_WHILE"), value>> \o text
ElseDo(text) == <<Tk("TK_ELSE")>> \o text
Returns == <<Tk("TK_PARAMETER_LIST_SEPARATOR")>>
Ones == Show(one) \o Show(one) \o Show(one) \o Show(one)
Long == Braced(Ones \o Ones)
Pair == <<number, x>>

\* Nested functions and recursion, an else in a loop, headers with a parameter, with
\* too many, stored or only counted, with one unnamed and without a body, an operator
\* without its left operand, a type in an expression, bodies a little too long for each
\* jump, and errors the lexer does not pass, one of them in a header.
Longer ==
  {Whole(Func(f) \o Braced(Func(x) \o Braced(<<f, Tk("TK_NEWLINE")>>) \o <<x>>)),
   Whole(Func(f) \o <<number, x>> \o Returns \o <<number>> \o Braced(<<f, Tk("TK_NEWLINE")>>)),
   Whole(WhileDo(false, Braced(IfDo(Tk("TK_PAREN_OPEN"), <<x, Tk("TK_ADD"), x, Tk("TK_PAREN_CLOSE")>>)
                             \o Braced(<<>>) \o ElseDo(IfDo(x, Show(x)))))),
   Whole(Func(f) \o Pair \o Pair \o <<number, f>> \o Braced(<<>>)),
   Whole(Func(f) \o Pair \o Returns \o <<number, number, number, number>>),
   Whole(Func(f) \o <<number, number>> \o Braced(<<>>)),
   Whole(Func(f) \o Pair \o Pair \o Pair \o <<one, x>> \o Braced(<<>>)),
   Whole(Func(f) \o Returns \o <<x, x, x, x>> \o Braced(<<>>)),
   Func(f) \o <<number, Tk("TK_ERROR")>>,
   Whole(<<Tk("TK_ADD"), one>>),
   Whole(IfDo(one, Show(number))),
   Whole(WhileDo(x, <<x, Tk("TK_LESSER_EQUAL"), x>>) \o Long),
   Whole(WhileDo(one, Long)),
   Whole(WhileDo(false, Long)),
   Whole(Func(f) \o Braced(Ones \o Ones \o Show(x))),
   Whole(IfDo(x, Long) \o ElseDo(Show(x))),
   Whole(IfDo(x, Braced(Ones \o Ones \o Show(x)))),
   Whole(IfDo(x, Show(x)) \o ElseDo(Braced(Ones \o Ones \o Show(x)))),
   <<Tk("TK_PRINT"), Tk("TK_ERROR"), one, Tk("TK_NEWLINE"), Tk("TK_BRACE_OPEN"), Tk("TK_ERROR")>>}

MCSources == {Whole(text) : text \in Middle} \cup Longer \cup {p.text : p \in MCPrograms}

\* MaxCode leaves room enough: of the sources that are no programs, only one without an end
\* can run out of memory.  Programs are longer, but write less: they have no errors.
ASSUME \A s \in Sources \ Texts : RoomFor(s)
=============================================================================
