------------------------------- MODULE Writing -------------------------------
(***************************************************************************)
(* The lexer on texts that were written from tokens: it gives the tokens   *)
(* back.  What has to stand between two tokens for that is itself a        *)
(* statement about the lexer: nothing, except behind an identifier and     *)
(* where two tokens would run together; and a comment only before words.   *)
(***************************************************************************)
EXTENDS Lexer

CONSTANTS
  Lists,   \* sequences of tokens that are written
  Gaps     \* what may stand between them

VARIABLES
  written,   \* the tokens of the text, TK_EOF at the end; none if the text is any text
  given      \* history: how many calls have gone by

-----------------------------------------------------------------------------
(* Tokens as pairs of a type and a content *)

Words == {<<Fixed[k][2], Fixed[k][1]>> : k \in DOMAIN Fixed}
EOF == <<"TK_EOF", "">>

Spell(t) ==
  CASE t[1] = "TK_STRING" -> "\"" \o t[2] \o "\""
    [] t[1] = "TK_NEWLINE" -> "\n"
    [] OTHER -> t[2]

IsPrefix(s, t) == Len(s) <= Len(t) /\ SubSeq(t, 1, Len(s)) = s

-----------------------------------------------------------------------------
(* Layout *)

\* Two tokens without a gap are read as something else.
RunTogether(a, b) ==
  \/ a[1] = "TK_NUMBER" /\ b[1] = "TK_NUMBER"
  \/ a[2] = "/" /\ b[2] = "/"
  \/ a \in Words /\ \E w \in Words : /\ Len(w[2]) > Len(a[2])
                                     /\ IsPrefix(w[2], a[2] \o Spell(b))

Comments(gap) == gap # "" /\ SubSeq(gap, Len(gap), Len(gap)) = "\n"

\* The gap does not change what is read before and after it.
Fits(a, gap, b) ==
  /\ a[1] = "TK_IDENTIFIER" => gap # "" /\ SubSeq(gap, 1, 1) \in Blanks
  /\ gap = "" => ~RunTogether(a, b)
  /\ Comments(gap) => b \in Words \cup {EOF, <<"TK_NEWLINE", "">>}

Between(a, gap, b) == IF Fits(a, gap, b) THEN gap ELSE " "

\* The text of a list, with the gap wherever it fits and a blank where it does not.
Text(list, gap) ==
  LET all == Append(list, EOF)
      upTo[k \in 1 .. Len(all)] ==
        IF k = 1 THEN Spell(all[1])
        ELSE upTo[k - 1] \o Between(all[k - 1], gap, all[k]) \o Spell(all[k])
  IN  upTo[Len(all)]

-----------------------------------------------------------------------------
WritingInit ==
  /\ given = 0
  /\ \/ Init /\ written = <<>>
     \/ \E list \in Lists, gap \in Gaps :
          setLexer(Text(list, gap)) /\ written = Append(list, EOF)

WritingNext ==
  /\ Next
  /\ given' = IF given < Len(written) THEN given + 1 ELSE given
  /\ UNCHANGED written

writing == <<vars, written, given>>
WritingSpec == WritingInit /\ [][WritingNext]_writing /\ WF_writing(WritingNext)

Reader ==
  INSTANCE TokenSource WITH
    source <- written,
    token <- IF written = <<>> THEN <<"none", "">> ELSE <<token.type, token.content>>

\* Of a text that was written from tokens the lexer gives back those tokens, each once and
\* in order, and then TK_EOF for ever: what the compiler takes it for.
GivesWhatWasWritten == Reader!Spec
=============================================================================
