------------------------------- MODULE Tokens -------------------------------
(***************************************************************************)
(* What lexer.c hands to compiler.c: a type and the piece of the source it *)
(* stands for.  The piece is abstracted to the name an identifier spells,  *)
(* or to a number that identifies a number or string literal.              *)
(***************************************************************************)
EXTENDS Integers

OperatorTypes == {"TK_ADD", "TK_SUB", "TK_MULTIPLY", "TK_DIVIDE", "TK_MODULO",
                  "TK_EQUALITY", "TK_INEQUALITY", "TK_LESSER", "TK_GREATER",
                  "TK_LESSER_EQUAL", "TK_GREATER_EQUAL", "TK_AND", "TK_OR", "TK_XOR"}
OperandTypes == {"TK_STRING", "TK_NUMBER", "TK_BOOLEAN", "TK_IDENTIFIER"}
TypeNames == {"TK_TYPE_NUMBER", "TK_TYPE_BOOLEAN", "TK_TYPE_STRING", "TK_TYPE_FUNCTION",
              "TK_TYPE_CUSTOM"}

\* The types from TK_DEC_FUNCTION on, for which compiler.c has no rule.
UnruledTypes == TypeNames \cup {"TK_DEC_FUNCTION", "TK_RETURN", "TK_PARAMETER_LIST_SEPARATOR"}

token_t == OperatorTypes \cup OperandTypes \cup UnruledTypes \cup
           {"TK_ERROR", "TK_EOF", "TK_NEWLINE", "TK_SEMICOLON", "TK_VAR", "TK_IF", "TK_ELSE",
            "TK_PRINT", "TK_WHILE", "TK_PAREN_OPEN", "TK_PAREN_CLOSE", "TK_BRACE_OPEN",
            "TK_BRACE_CLOSE", "TK_ASSIGNMENT", "TK_NOT"}

Token(Texts) == [type : token_t, text : Texts, n : Nat]

Tk(type) == [type |-> type, text |-> "", n |-> 0]
Spelled(type, text) == [Tk(type) EXCEPT !.text = text]
Valued(type, n) == [Tk(type) EXCEPT !.n = n]
=============================================================================
