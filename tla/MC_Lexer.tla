------------------------------ MODULE MC_Lexer ------------------------------
(***************************************************************************)
(* Every short text over the characters that the lexer treats differently, *)
(* and longer ones in which comments, quotation marks and words meet; and  *)
(* texts written from tokens: every two side by side in every layout,      *)
(* every three of a few kinds, and some longer lists.                      *)
(***************************************************************************)
EXTENDS Writing

CONSTANT MaxText

Alphabet == {" ", "\n", "#", "/", "\"", "1", ".", "a", "=", ")", "?"}

TextsOf[n \in 0 .. MaxText] ==
  IF n = 0 THEN {""} ELSE {t \o c : t \in TextsOf[n - 1], c \in Alphabet}

Longer ==
  {"# say \"hi\"\n\"x\" ", "#\n\"a\" ", "# \"\n\"", "//Numbers\n4\n", "x = 1 # foo\ny = 2\n",
   "iffy ", "variable=1\n", "x==1", "print(x)\n", "if x != 1 {\n\tprint x\n}\n", "func f : Bool {\n\n}\n",
   "1.2.3.4 ", "# a\n# b\n\n#c\n print x ", "while !true && x <= 2.5 { }", "a-b-1_c\n", "# one\n  # two\n"}

MCTexts == UNION {TextsOf[n] : n \in 0 .. MaxText} \cup Longer

-----------------------------------------------------------------------------
(* Lists of tokens *)

newline == <<"TK_NEWLINE", "">>
Name(s) == <<"TK_IDENTIFIER", s>>
Num(s) == <<"TK_NUMBER", s>>
Str(s) == <<"TK_STRING", s>>

Vocabulary ==
  Words \cup {newline, Name("a"), Name("ean-1_B"), Num("4"), Num("2.5"), Str(""), Str("# if\n")}

Few == {Name("a"), Num("4"), Str(""), newline} \cup
       {w \in Words : w[2] \in {"if", "=", "==", "/", "("}}

AssignX == <<Name("x"), <<"TK_ASSIGNMENT", "=">>, Num("1"), newline>>
Block(body) == <<<<"TK_BRACE_OPEN", "{">>>> \o body \o <<<<"TK_BRACE_CLOSE", "}">>, newline>>
WhileX == <<<<"TK_WHILE", "while">>, <<"TK_NOT", "!">>, Name("x"), <<"TK_EQUALITY", "==">>, Str("a")>>
Declare == <<<<"TK_DEC_FUNCTION", "func">>, Name("f"), <<"TK_TYPE_NUMBER", "Number">>, Name("n"),
             <<"TK_PARAMETER_LIST_SEPARATOR", ":">>, <<"TK_TYPE_BOOLEAN", "Bool">>>>

MCLists ==
  {<<>>} \cup {<<a>> : a \in Vocabulary} \cup (Vocabulary \X Vocabulary)
    \cup [1 .. 3 -> Few] \cup {AssignX, WhileX \o Block(AssignX), Declare \o Block(AssignX \o AssignX)}

MCGaps == {"", " ", "\t  ", "# x\n", " //\"\n# x\n"}
=============================================================================
