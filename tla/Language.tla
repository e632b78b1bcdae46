------------------------------ MODULE Language ------------------------------
(***************************************************************************)
(* Brash, phrase by phrase: how a construct is written, as tokens, and     *)
(* what it means, as instructions that leave the value of an expression on *)
(* the stack, or carry out a statement.  The meaning of a phrase is made   *)
(* of the meanings of its parts, so none of this knows about the order in  *)
(* which a compiler reads tokens, about jumps that are patched later, or   *)
(* about tasks.  It is the abstract specification of compile().            *)
(*                                                                         *)
(* Level[op] says how tightly the binary operator op binds: an operand is  *)
(* written in parentheses when its own operator binds less tightly.        *)
(***************************************************************************)
EXTENDS Bytecode, Tokens

CONSTANT Level   \* a function from OperatorTypes to the positive numbers

Highest == CHOOSE l \in {Level[op] : op \in OperatorTypes} :
             \A op \in OperatorTypes : Level[op] <= l
UnaryLevel == Highest + 1
Primary == Highest + 2

Phrase(text, code) == [text |-> text, code |-> code]
Expr(text, code, level) == [text |-> text, code |-> code, level |-> level]

RECURSIVE Bytes(_)
Bytes(s) == IF s = <<>> THEN 0 ELSE Width(Head(s)) + Bytes(Tail(s))

-----------------------------------------------------------------------------
(* Expressions *)

Num(n) == Expr(<<Valued("TK_NUMBER", n)>>, <<Literal("OP_NUMBER", n)>>, Primary)
Str(n) == Expr(<<Valued("TK_STRING", n)>>, <<Literal("OP_STRING", n)>>, Primary)
True == Expr(<<Spelled("TK_BOOLEAN", "true")>>, <<Simple("OP_TRUE")>>, Primary)
False == Expr(<<Spelled("TK_BOOLEAN", "false")>>, <<Simple("OP_FALSE")>>, Primary)
Variable(x) == Expr(<<Spelled("TK_IDENTIFIER", x)>>, <<Named("OP_GET_VARIABLE", x)>>, Primary)

Parenthesized(e) ==
  Expr(<<Tk("TK_PAREN_OPEN")>> \o e.text \o <<Tk("TK_PAREN_CLOSE")>>, e.code, Primary)
AtLeast(e, level) == IF e.level >= level THEN e ELSE Parenthesized(e)

Negative(e) == Expr(<<Tk("TK_SUB")>> \o AtLeast(e, UnaryLevel).text,
                    e.code \o <<Simple("OP_NEGATE")>>, UnaryLevel)
Not(e) == Expr(<<Tk("TK_NOT")>> \o AtLeast(e, UnaryLevel).text,
               e.code \o <<Simple("OP_NOT")>>, UnaryLevel)

\* An operator that has no instruction is the negation of one that has.
Opposite == [TK_INEQUALITY |-> "OP_EQUALS", TK_LESSER_EQUAL |-> "OP_GREATER",
             TK_GREATER_EQUAL |-> "OP_LESSER"]
Direct == [TK_ADD |-> "OP_ADD", TK_SUB |-> "OP_SUBTRACT", TK_MULTIPLY |-> "OP_MULTIPLY",
           TK_DIVIDE |-> "OP_DIVIDE", TK_MODULO |-> "OP_MODULO", TK_EQUALITY |-> "OP_EQUALS",
           TK_LESSER |-> "OP_LESSER", TK_GREATER |-> "OP_GREATER", TK_AND |-> "OP_AND",
           TK_OR |-> "OP_OR", TK_XOR |-> "OP_XOR"]
Applied(op) == IF op \in DOMAIN Direct THEN <<Simple(Direct[op])>>
                                       ELSE <<Simple(Opposite[op]), Simple("OP_NOT")>>

\* Every binary operator associates to the left.
Binary(op, a, b) ==
  Expr(AtLeast(a, Level[op]).text \o <<Tk(op)>> \o AtLeast(b, Level[op] + 1).text,
       a.code \o b.code \o Applied(op), Level[op])

-----------------------------------------------------------------------------
(* Statements *)

Newline == <<Tk("TK_NEWLINE")>>

PrintLine(e) == Phrase(<<Tk("TK_PRINT")>> \o e.text \o Newline, e.code \o <<Simple("OP_PRINT")>>)

\* An expression that starts with a name would be read as an assignment.
Evaluate(e, end) == Phrase(e.text \o <<Tk(end)>>, e.code \o <<Simple("OP_POP")>>)

Assign(x, e, end) ==
  Phrase(<<Spelled("TK_IDENTIFIER", x), Tk("TK_ASSIGNMENT")>> \o e.text \o <<Tk(end)>>,
         e.code \o <<Named("OP_SET_VARIABLE", x)>>)
Declare(x) ==
  Phrase(<<Tk("TK_VAR"), Spelled("TK_IDENTIFIER", x)>> \o Newline, <<Named("OP_DEF_VARIABLE", x)>>)
Define(x, e, end) ==
  Phrase(<<Tk("TK_VAR")>> \o Assign(x, e, end).text,
         <<Named("OP_DEF_VARIABLE", x)>> \o Assign(x, e, end).code)

Empty == Phrase(<<>>, <<>>)
Then(s, t) == Phrase(s.text \o t.text, s.code \o t.code)

Block(s) ==
  Phrase(<<Tk("TK_BRACE_OPEN")>> \o Newline \o s.text \o <<Tk("TK_BRACE_CLOSE")>> \o Newline,
         <<Simple("OP_ENTER_SCOPE")>> \o s.code \o <<Simple("OP_EXIT_SCOPE")>>)

If(e, s) ==
  Phrase(<<Tk("TK_IF")>> \o e.text \o s.text,
         e.code \o <<Literal("OP_JUMP_IF_FALSE", 3 + Bytes(s.code))>> \o s.code)

IfElse(e, s, t) ==
  Phrase(If(e, s).text \o <<Tk("TK_ELSE")>> \o t.text,
         e.code \o <<Literal("OP_JUMP_IF_FALSE", 3 + Bytes(s.code) + 3)>> \o s.code
           \o <<Literal("OP_JUMP", 3 + Bytes(t.code))>> \o t.code)

While(e, s) ==
  Phrase(<<Tk("TK_WHILE")>> \o e.text \o s.text,
         e.code \o <<Literal("OP_JUMP_IF_FALSE", 3 + Bytes(s.code) + 3)>> \o s.code
           \o <<Literal("OP_LOOP", Bytes(e.code) + 3 + Bytes(s.code))>>)

\* A function is skipped where it is defined: the header gives the length of what
\* follows its opcode.
Function(f, params, rets, s) ==
  LET types == [k \in 1 .. rets |-> Tk("TK_TYPE_NUMBER")]
      Parameter(k) == IF k % 2 = 1 THEN Tk("TK_TYPE_NUMBER")
                                   ELSE Spelled("TK_IDENTIFIER", params[k \div 2])
      body == Block(s).code \o <<Simple("OP_RETURN")>>
      header == Header(f, params, rets, 0)
  IN
  Phrase(<<Tk("TK_DEC_FUNCTION"), Spelled("TK_IDENTIFIER", f)>>
           \o [k \in 1 .. 2 * Len(params) |-> Parameter(k)]
           \o (IF rets = 0 THEN <<>> ELSE <<Tk("TK_PARAMETER_LIST_SEPARATOR")>> \o types)
           \o Block(s).text,
         <<[header EXCEPT !.n = Width(header) - 1 + Bytes(body)]>> \o body)

Call(f) ==
  Phrase(<<Spelled("TK_IDENTIFIER", f)>> \o Newline, <<Named("OP_FUNCTION_CALL", f)>>)

\* The argument is an expression statement of its own.
CallWith(f, e) ==
  Phrase(<<Spelled("TK_IDENTIFIER", f)>> \o Evaluate(e, "TK_NEWLINE").text,
         <<Named("OP_FUNCTION_CALL", f)>> \o Evaluate(e, "TK_NEWLINE").code)

Program(s) == Phrase(s.text \o <<Tk("TK_EOF")>>, s.code \o <<Simple("OP_RETURN")>>)

\* The last line needs no end.
Unterminated(s) == Program(Phrase(SubSeq(s.text, 1, Len(s.text) - 1), s.code))
=============================================================================
