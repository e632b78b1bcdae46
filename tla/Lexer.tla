-------------------------------- MODULE Lexer --------------------------------
(***************************************************************************)
(* produceNextToken() of lexer.c.  A text is a string, a character a       *)
(* string of length one; position p is the p-th character, and the         *)
(* position behind the last one is that of the terminator.                 *)
(*                                                                         *)
(* One step is one call: the blanks and the comments before the token, and *)
(* the token.  The column of a location is only ever printed and is left   *)
(* out, its line is kept.                                                  *)
(***************************************************************************)
EXTENDS Integers, Sequences, FiniteSets

CONSTANT Texts   \* what setLexer() is given: programs and lines of the prompt

VARIABLES
  text,
  current,   \* lexer.current
  line,      \* lexer.location.line
  token,     \* the token produced last, with the place its content was taken from
  eaten,     \* history: positions of the characters lost behind identifiers
  status     \* "lexing", or "wild" once a read went past the terminator

vars == <<text, current, line, token, eaten, status>>

-----------------------------------------------------------------------------
(* Characters *)

Nul == ""
Beyond == Len(text) + 2
At(p) == IF p <= Len(text) THEN SubSeq(text, p, p) ELSE Nul

Chars(s) == {SubSeq(s, k, k) : k \in 1 .. Len(s)}
Blanks == Chars(" \t")
VALID_NUMERIC_CHAR == Chars("0123456789.")
VALID_IDENTIFIER_CHAR == Chars("abcdefghijklmnopqrstuvwxyzABCDEFGHIJKLMNOPQRSTUVWXYZ0123456789-_")

\* The first position from p on whose character is not one of chars.
Past(p, chars) ==
  CHOOSE q \in p .. Len(text) + 1 :
    At(q) \notin chars /\ \A r \in p .. q - 1 : At(r) \in chars

\* The positions from p on that hold the character c, and the first of them.
Places(p, c) == {q \in p .. Len(text) : At(q) = c}
FirstOf(P) == CHOOSE q \in P : \A r \in P : q <= r

Newlines(from, to) == Cardinality({p \in from .. to - 1 : At(p) = "\n"})

-----------------------------------------------------------------------------
(* What comes before a token *)

IsComment(p) == At(p) = "#" \/ (At(p) = "/" /\ At(p + 1) = "/")

\* Comments that follow each other without a blank: the token begins at p or behind a newline,
\* where first no other comment does.  The search for the newline does not stop at the
\* terminator.
AfterComments(p) ==
  LET ends == {q \in {p} \cup {r + 1 : r \in Places(p, "\n")} : ~IsComment(q)}
  IN  IF ends = {} THEN Beyond ELSE FirstOf(ends)

-----------------------------------------------------------------------------
(* The fixed part of the language, in the order it is tried *)

Keywords ==
  << <<";", "TK_SEMICOLON">>, <<"var", "TK_VAR">>, <<"if", "TK_IF">>, <<"else", "TK_ELSE">>,
     <<"print", "TK_PRINT">>, <<"while", "TK_WHILE">>, <<"func", "TK_DEC_FUNCTION">>,
     <<":", "TK_PARAMETER_LIST_SEPARATOR">>, <<"Number", "TK_TYPE_NUMBER">>,
     <<"Boolean", "TK_TYPE_BOOLEAN">>, <<"Bool", "TK_TYPE_BOOLEAN">>,
     <<"String", "TK_TYPE_STRING">>, <<"type", "TK_TYPE_CUSTOM">>, <<"return", "TK_RETURN">> >>

Symbols ==
  << <<"+", "TK_ADD">>, <<"-", "TK_SUB">>, <<"*", "TK_MULTIPLY">>, <<"/", "TK_DIVIDE">>,
     <<"%", "TK_MODULO">>, <<"(", "TK_PAREN_OPEN">>, <<")", "TK_PAREN_CLOSE">>,
     <<"{", "TK_BRACE_OPEN">>, <<"}", "TK_BRACE_CLOSE">>, <<"&&", "TK_AND">>, <<"||", "TK_OR">>,
     <<"^^", "TK_XOR">>, <<"true", "TK_BOOLEAN">>, <<"false", "TK_BOOLEAN">> >>

\* Mutant: the operators of one character are tried before the longer ones.
Overlaps_Short ==
  << <<"!", "TK_NOT">>, <<"=", "TK_ASSIGNMENT">>, <<"<", "TK_LESSER">>, <<">", "TK_GREATER">>,
     <<"==", "TK_EQUALITY">>, <<"!=", "TK_INEQUALITY">>, <<"<=", "TK_LESSER_EQUAL">>,
     <<">=", "TK_GREATER_EQUAL">> >>

\* "Operators or keywords with potential overlaps"
Overlaps ==
  << <<"==", "TK_EQUALITY">>, <<"!=", "TK_INEQUALITY">>, <<"!", "TK_NOT">>,
     <<"=", "TK_ASSIGNMENT">>, <<"<=", "TK_LESSER_EQUAL">>, <<">=", "TK_GREATER_EQUAL">>,
     <<"<", "TK_LESSER">>, <<">", "TK_GREATER">> >>

Fixed == Keywords \o Symbols \o Overlaps

\* A text holds no terminator, and the table has neither an empty word nor the end of
\* the text.  TLC computes all of this; for the proofs strings are atoms.
ASSUME TextsAssumption ==
  \A t \in Texts : Len(t) \in Nat /\ \A p \in 1 .. Len(t) : SubSeq(t, p, p) # Nul
ASSUME CharactersAssumption ==
  /\ Nul \notin Blanks \cup VALID_NUMERIC_CHAR \cup VALID_IDENTIFIER_CHAR
  /\ "\n" \notin VALID_IDENTIFIER_CHAR
ASSUME WordsAssumption ==
  \A k \in DOMAIN Fixed : Len(Fixed[k][1]) \in Nat \ {0} /\ Fixed[k][2] # "TK_EOF"

\* MATCHES: the text from p on begins with the word.
Matches(p, word) == p + Len(word) - 1 <= Len(text) /\ SubSeq(text, p, p + Len(word) - 1) = word

-----------------------------------------------------------------------------
(* One action for each way a call returns.  start and first are where it   *)
(* began and where its token does.                                         *)

\* The token's content is the text from position from up to position to.
Content(type, content, from, to, l) ==
  [type |-> type, content |-> content, from |-> from, to |-> to, line |-> l]

\* The call leaves the lexer at position next and returns a token.
Return(start, first, next, type, content, from, to) ==
  /\ current' = next
  /\ line' = line + Newlines(start, first)
  /\ token' = Content(type, content, from, to, line')
  /\ UNCHANGED <<text, eaten, status>>

View(start, first, next, type, from, to) ==
  Return(start, first, next, type, SubSeq(text, from, to - 1), from, to)
Plain(start, first, next, type) == Return(start, first, next, type, "", first, first)

EndOfText(start, first) ==
  At(first) = Nul /\ Plain(start, first, first, "TK_EOF")

\* Mutant: the newline is not passed.
Newline_Stays(start, first) ==
  At(first) = "\n" /\ Plain(start, first, first, "TK_NEWLINE")

Newline(start, first) ==
  /\ At(first) = "\n"
  /\ current' = first + 1
  /\ line' = line + Newlines(start, first) + 1
  /\ token' = Content("TK_NEWLINE", "", first, first, line' - 1)
  /\ UNCHANGED <<text, eaten, status>>

\* The closing quotation mark is looked for behind the start, which is where the
\* comments before the string begin.
String(start, first) ==
  /\ At(first) = "\""
  /\ LET closing == Places(start + 1, "\"")
     IN  \/ closing = {} /\ Plain(start, first, first, "TK_ERROR")
         \/ closing # {} /\ View(start, first, FirstOf(closing) + 1, "TK_STRING",
                                 start + 1, FirstOf(closing))

\* Mutant: a number passes over the character behind it, as an identifier does.
Number_Eats(start, first) ==
  /\ At(first) \in VALID_NUMERIC_CHAR
  /\ LET end == Past(first, VALID_NUMERIC_CHAR)
     IN  View(start, first, end + 1, "TK_NUMBER", start, end)

\* The second point ends the call with an error, behind the point.
Number(start, first) ==
  /\ At(first) \in VALID_NUMERIC_CHAR
  /\ LET end == Past(first, VALID_NUMERIC_CHAR)
         points == {p \in first .. end - 1 : At(p) = "."}
     IN  \/ /\ Cardinality(points) <= 1
            /\ View(start, first, end, "TK_NUMBER", start, end)
         \/ /\ Cardinality(points) > 1
            /\ Plain(start, first, FirstOf(points \ {FirstOf(points)}) + 1, "TK_ERROR")

\* A word need not end where its entry does.
FixedWord(start, first) ==
  LET matching == {k \in DOMAIN Fixed : Matches(first, Fixed[k][1])}
  IN  /\ matching # {}
      /\ LET entry == Fixed[FirstOf(matching)]
             end == first + Len(entry[1])
         IN  Return(start, first, end, entry[2], entry[1], first, end)

\* None of the actions above applies.
Otherwise(first) ==
  /\ At(first) \notin {Nul, "\n", "\""} \cup VALID_NUMERIC_CHAR
  /\ \A k \in DOMAIN Fixed : ~Matches(first, Fixed[k][1])

\* Mutant: the character behind the identifier becomes part of it.
Identifier_Whole(start, first) ==
  /\ Otherwise(first) /\ At(first) \in VALID_IDENTIFIER_CHAR
  /\ LET end == Past(first, VALID_IDENTIFIER_CHAR)
     IN  View(start, first, end, "TK_IDENTIFIER", start, IF end <= Len(text) THEN end + 1 ELSE end)

\* One character more than the identifier is passed over, whatever it is.
Identifier(start, first) ==
  /\ Otherwise(first) /\ At(first) \in VALID_IDENTIFIER_CHAR
  /\ LET end == Past(first, VALID_IDENTIFIER_CHAR)
     IN  /\ current' = end + 1
         /\ line' = line + Newlines(start, first)
         /\ token' = Content("TK_IDENTIFIER", SubSeq(text, start, end - 1), start, end, line')
         /\ eaten' = eaten \cup ({end} \cap 1 .. Len(text))
         /\ UNCHANGED <<text, status>>

\* Blanks and comments are behind the lexer, the character is not.
Unexpected(start, first) ==
  /\ Otherwise(first) /\ At(first) \notin VALID_IDENTIFIER_CHAR
  /\ Plain(start, first, first, "TK_ERROR")

\* An identifier that ended the text left the position behind the terminator, or a
\* comment has no newline.
ReadBeyond ==
  /\ status' = "wild"
  /\ UNCHANGED <<text, current, line, token, eaten>>

Piece(start, first) ==
  \/ EndOfText(start, first) \/ Newline(start, first) \/ String(start, first)
  \/ Number(start, first) \/ FixedWord(start, first)
  \/ Identifier(start, first) \/ Unexpected(start, first)

produceNextToken ==
  /\ status = "lexing"
  /\ IF current = Beyond THEN ReadBeyond
     ELSE \E start \in {Past(current, Blanks)} : \E first \in {AfterComments(start)} :
            \/ first = Beyond /\ ReadBeyond
            \/ first # Beyond /\ Piece(start, first)

Rest == status = "wild" /\ UNCHANGED vars

setLexer(t) ==
  /\ text = t /\ current = 1 /\ line = 0
  /\ token = [type |-> "none", content |-> "", from |-> 1, to |-> 1, line |-> 0]
  /\ eaten = {} /\ status = "lexing"

Init == \E t \in Texts : setLexer(t)
Next == produceNextToken \/ Rest
Spec == Init /\ [][Next]_vars /\ WF_vars(produceNextToken)

-----------------------------------------------------------------------------
(* Properties *)

\* Every character belongs to one token at most: the content of a token begins behind
\* the content of the one before, although the start of a number, a string or an
\* identifier is put before the comments (lexer.c:66, 93, 115, 170).  After TK_EOF every call
\* returns TK_EOF at the same place and reads nothing further: advanceParser() goes on
\* asking (compiler.c:89).
TokensInOrder ==
  [][/\ status' = "lexing" => token'.from >= token.to
     /\ token.type # "TK_EOF"]_vars

\* The lexer reads past the terminator (lexer.c:69, 169) only in a text that does not
\* end with a newline, and only if it has a comment or ends like an identifier.
OnlyUnterminatedTextsOverread ==
  status = "wild" =>
    /\ At(Len(text)) # "\n"
    /\ \/ At(Len(text)) \in VALID_IDENTIFIER_CHAR
       \/ \E p \in 1 .. Len(text) : IsComment(p)

\* Whatever the text, from some call on a caller that goes on asking gets TK_EOF or errors
\* and nothing else: no text has infinitely many tokens.  A caller that waits for TK_EOF need
\* not get it: behind a quotation mark that is never closed, or at a character of no token,
\* every call returns the same TK_ERROR, and the lexing mode (main.c:90) goes on for ever.
Settles == <>[](status = "wild" \/ token.type \in {"TK_EOF", "TK_ERROR"})
=============================================================================
