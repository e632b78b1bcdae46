---------------------------- MODULE Lexer_proofs ----------------------------
(***************************************************************************)
(* Proofs about the lexer, for texts of any length and any characters.     *)
(***************************************************************************)
EXTENDS Lexer, TLAPS, FiniteSetTheorems, SequenceTheorems, WellFoundedInduction

-----------------------------------------------------------------------------
(* The first of a set of positions *)

LEMMA FirstIs ==
  ASSUME NEW P \in SUBSET Nat, P # {}
  PROVE  FirstOf(P) \in P /\ \A r \in P : FirstOf(P) <= r
<1>. DEFINE R == OpToRel(<, Nat)
<1>1. IsWellFoundedOn(R, Nat)
  BY NatLessThanWellFounded
<1>2. PICK q \in P : \A y \in Nat : <<y, q>> \in R => y \notin P
  <2>. HIDE DEF R
  <2>. QED  BY <1>1, WFMin
<1>3. \A r \in P : ~(r < q)
  BY <1>2 DEF OpToRel
<1>4. \A r \in P : q <= r
  BY <1>3
<1>. QED  BY <1>4 DEF FirstOf

-----------------------------------------------------------------------------
(* Positions of a text *)

LEMMA Characters ==
  ASSUME text \in Texts
  PROVE  /\ Len(text) \in Nat
         /\ \A p \in 1 .. Len(text) : At(p) # Nul
         /\ \A p \in Int : p > Len(text) => At(p) = Nul
BY TextsAssumption DEF At

LEMMA PastIs ==
  ASSUME text \in Texts, NEW p \in 1 .. Len(text) + 1, NEW chars, Nul \notin chars
  PROVE  /\ Past(p, chars) \in p .. Len(text) + 1
         /\ At(Past(p, chars)) \notin chars
         /\ \A r \in p .. Past(p, chars) - 1 : At(r) \in chars
<1>. DEFINE P == {q \in p .. Len(text) + 1 : At(q) \notin chars}
<1>1. Len(text) + 1 \in P
  <2>1. Len(text) \in Nat /\ At(Len(text) + 1) = Nul
    BY Characters
  <2>. QED  BY <2>1
<1>2. P \in SUBSET Nat
  BY Characters
<1>3. FirstOf(P) \in P /\ \A r \in P : FirstOf(P) <= r
  <2>. HIDE DEF P
  <2>. QED  BY <1>1, <1>2, FirstIs
<1>4. PICK q \in P : \A r \in P : q <= r
  BY <1>3
<1>5. \A r \in p .. q - 1 : At(r) \in chars
  BY <1>4, Characters
<1>6. q \in p .. Len(text) + 1 /\ At(q) \notin chars
  BY <1>4
<1>. QED  BY <1>5, <1>6 DEF Past

LEMMA PlacesAre ==
  ASSUME text \in Texts, NEW p \in Nat, NEW c, Places(p, c) # {}
  PROVE  /\ FirstOf(Places(p, c)) \in p .. Len(text)
         /\ At(FirstOf(Places(p, c))) = c
<1>1. Places(p, c) \in SUBSET Nat
  BY Characters DEF Places
<1>2. FirstOf(Places(p, c)) \in Places(p, c)
  BY <1>1, FirstIs
<1>. QED  BY <1>2 DEF Places

LEMMA NewlinesCounted ==
  ASSUME NEW from \in Int, NEW to \in Int
  PROVE  Newlines(from, to) \in Nat /\ (to <= from => Newlines(from, to) = 0)
<1>. DEFINE N == {p \in from .. to - 1 : At(p) = "\n"}
<1>1. IsFiniteSet(from .. to - 1)
  BY FS_Interval
<1>2. N \subseteq from .. to - 1
  OBVIOUS
<1>3. IsFiniteSet(N)
  BY <1>1, <1>2, FS_Subset
<1>4. Cardinality(N) \in Nat
  BY <1>3, FS_CardinalityType
<1>5. ASSUME to <= from PROVE Cardinality(N) = 0
  <2>1. N = {}
    BY <1>5
  <2>. QED  BY <2>1, FS_EmptySet
<1>. QED  BY <1>4, <1>5 DEF Newlines

\* Comments start at characters, and only the terminator that is no end of one is passed.
LEMMA CommentsAre ==
  ASSUME text \in Texts, NEW p \in 1 .. Len(text) + 1
  PROVE  /\ AfterComments(p) \in p .. Beyond
         /\ IsComment(p) => p \in 1 .. Len(text)
         /\ ~IsComment(p) => AfterComments(p) = p
         /\ AfterComments(p) = Beyond =>
              /\ Len(text) \in 1 .. Len(text)
              /\ At(Len(text)) # "\n"
              /\ IsComment(p)
<1>. DEFINE ends == {q \in {p} \cup {r + 1 : r \in Places(p, "\n")} : ~IsComment(q)}
<1>1. Len(text) \in Nat /\ Beyond = Len(text) + 2 /\ p \in Nat
  BY Characters DEF Beyond
<1>2. ASSUME NEW q \in 1 .. Len(text) + 1, IsComment(q) PROVE q \in 1 .. Len(text)
  <2>1. At(q) = "#" \/ At(q) = "/"
    BY <1>2 DEF IsComment
  <2>2. At(q) # Nul
    BY <2>1 DEF Nul
  <2>3. q \in Int /\ ~(q > Len(text))
    BY <2>2, <1>1, Characters
  <2>. QED  BY <2>3, <1>1
<1>3. ends \subseteq p .. Len(text) + 1 /\ ends \in SUBSET Nat
  BY <1>1 DEF Places
<1>4. AfterComments(p) = IF ends = {} THEN Beyond ELSE FirstOf(ends)
  BY DEF AfterComments
<1>5. ends # {} => FirstOf(ends) \in ends /\ \A r \in ends : FirstOf(ends) <= r
  <2>. HIDE DEF ends
  <2>. QED  BY <1>3, FirstIs
<1>6. ASSUME ~IsComment(p) PROVE AfterComments(p) = p
  <2>1. p \in ends
    BY <1>6
  <2>2. FirstOf(ends) \in p .. Len(text) + 1 /\ FirstOf(ends) <= p
    <3>. HIDE DEF ends
    <3>. QED  BY <2>1, <1>5, <1>3
  <2>3. AfterComments(p) = FirstOf(ends)
    <3>. HIDE DEF ends
    <3>. QED  BY <2>1, <1>4
  <2>. HIDE DEF ends
  <2>. QED  BY <2>2, <2>3, <1>1
<1>7. ASSUME AfterComments(p) = Beyond
      PROVE  Len(text) \in 1 .. Len(text) /\ At(Len(text)) # "\n" /\ IsComment(p)
  <2>1. ends = {}
    <3>. HIDE DEF ends
    <3>1. ends # {} => AfterComments(p) \in p .. Len(text) + 1
      BY <1>3, <1>4, <1>5
    <3>. QED  BY <3>1, <1>7, <1>1
  <2>2. IsComment(p)
    BY <2>1
  <2>3. p \in 1 .. Len(text)
    BY <2>2, <1>2
  <2>4. Len(text) \in 1 .. Len(text) /\ Len(text) \in p .. Len(text)
    BY <2>3, <1>1
  <2>5. ASSUME At(Len(text)) = "\n" PROVE FALSE
    <3>1. Len(text) \in Places(p, "\n")
      BY <2>4, <2>5 DEF Places
    <3>2. ~IsComment(Len(text) + 1)
      BY <1>2, <1>1
    <3>. QED  BY <3>1, <3>2, <2>1
  <2>. QED  BY <2>2, <2>4, <2>5
<1>8. AfterComments(p) \in p .. Beyond
  <2>1. CASE ends = {}
    <3>1. AfterComments(p) = Beyond
      BY <2>1, <1>4
    <3>. QED  BY <3>1, <1>1
  <2>2. CASE ends # {}
    <3>. HIDE DEF ends
    <3>1. AfterComments(p) \in p .. Len(text) + 1
      BY <2>2, <1>3, <1>4, <1>5
    <3>. QED  BY <3>1, <1>1
  <2>. QED  BY <2>1, <2>2
<1>. QED  BY <1>2, <1>6, <1>7, <1>8

-----------------------------------------------------------------------------
(* The table of words *)

LEMMA TableIndices == DOMAIN Fixed \in SUBSET Nat
<1>. DEFINE Entries == UNION {{table[k] : k \in DOMAIN table} : table \in {Keywords, Symbols, Overlaps}}
<1>1. DOMAIN Keywords = 1 .. 14 /\ Keywords = [k \in 1 .. 14 |-> Keywords[k]]
  <2>1. DOMAIN Keywords = 1 .. 14
    BY DEF Keywords
  <2>2. Keywords = [k \in 1 .. 14 |-> Keywords[k]]
    BY DEF Keywords
  <2>. QED  BY <2>1, <2>2
<1>2. DOMAIN Symbols = 1 .. 14 /\ Symbols = [k \in 1 .. 14 |-> Symbols[k]]
  <2>1. DOMAIN Symbols = 1 .. 14
    BY DEF Symbols
  <2>2. Symbols = [k \in 1 .. 14 |-> Symbols[k]]
    BY DEF Symbols
  <2>. QED  BY <2>1, <2>2
<1>3. DOMAIN Overlaps = 1 .. 8 /\ Overlaps = [k \in 1 .. 8 |-> Overlaps[k]]
  <2>1. DOMAIN Overlaps = 1 .. 8
    BY DEF Overlaps
  <2>2. Overlaps = [k \in 1 .. 8 |-> Overlaps[k]]
    BY DEF Overlaps
  <2>. QED  BY <2>1, <2>2
<1>4. /\ \A k \in 1 .. 14 : Keywords[k] \in Entries
      /\ \A k \in 1 .. 14 : Symbols[k] \in Entries
      /\ \A k \in 1 .. 8 : Overlaps[k] \in Entries
  BY <1>1, <1>2, <1>3
<1>. HIDE DEF Entries
<1>5. /\ Keywords \in [1 .. 14 -> Entries] /\ Symbols \in [1 .. 14 -> Entries]
      /\ Overlaps \in [1 .. 8 -> Entries]
  BY <1>1, <1>2, <1>3, <1>4
<1>6. Keywords \in Seq(Entries) /\ Symbols \in Seq(Entries) /\ Overlaps \in Seq(Entries)
  BY <1>5, SeqDef
<1>7. Fixed \in Seq(Entries)
  BY <1>6 DEF Fixed
<1>. QED  BY <1>7

\* A word that matches ends inside of the text.
LEMMA Matching ==
  ASSUME text \in Texts, NEW p \in 1 .. Len(text) + 1, NEW k \in DOMAIN Fixed, Matches(p, Fixed[k][1])
  PROVE  /\ Len(Fixed[k][1]) \in Nat \ {0}
         /\ p + Len(Fixed[k][1]) \in p + 1 .. Len(text) + 1
         /\ p \in 1 .. Len(text)
         /\ Fixed[k][2] # "TK_EOF"
BY Characters, WordsAssumption DEF Matches

-----------------------------------------------------------------------------
(* The invariant *)

\* The lexer is behind the token, and behind the terminator only after an identifier.
Placed ==
  /\ text \in Texts
  /\ current \in 1 .. Beyond
  /\ line \in Nat
  /\ status \in {"lexing", "wild"}
  /\ token.to \in Int /\ token.to <= current
  /\ current = Beyond => Len(text) \in 1 .. Len(text) /\ At(Len(text)) \in VALID_IDENTIFIER_CHAR

EndToken(p, l) == Content("TK_EOF", "", p, p, l)

\* At the end the lexer has nothing in front of it and has said so.
AtRest ==
  token.type = "TK_EOF" =>
    /\ status = "lexing" /\ current = Len(text) + 1
    /\ token = EndToken(current, line)

IInv == Placed /\ AtRest /\ OnlyUnterminatedTextsOverread

LEMMA ContentFields ==
  ASSUME NEW type, NEW content, NEW from, NEW to, NEW l
  PROVE  /\ Content(type, content, from, to, l).type = type
         /\ Content(type, content, from, to, l).from = from
         /\ Content(type, content, from, to, l).to = to
BY DEF Content

LEMMA InitInvariant == Init => IInv
<1>. SUFFICES ASSUME NEW t \in Texts, setLexer(t) PROVE IInv
  BY DEF Init
<1>1. text = t /\ current = 1 /\ line = 0 /\ status = "lexing" /\ token.type = "none" /\ token.to = 1
  BY DEF setLexer
<1>2. Len(text) \in Nat /\ Beyond = Len(text) + 2
  BY <1>1, Characters DEF Beyond
<1>. QED  BY <1>1, <1>2 DEF IInv, Placed, AtRest, OnlyUnterminatedTextsOverread

-----------------------------------------------------------------------------
(* Steps *)

\* What a call that returns a token owes to the properties.
Advanced ==
  /\ text' = text /\ status' = "lexing"
  /\ current' \in 1 .. Beyond
  /\ line' \in Nat
  /\ token'.from \in Int /\ token'.from >= current
  /\ token'.to \in Int /\ token'.to <= current'
  /\ token'.type # "TK_EOF"
  /\ current' = Beyond => Len(text) \in 1 .. Len(text) /\ At(Len(text)) \in VALID_IDENTIFIER_CHAR

\* The text between the start of a call and its token.
Ahead(start, first) ==
  /\ start \in current .. Len(text) + 1
  /\ At(start) \notin Blanks
  /\ first \in start .. Len(text) + 1

LEMMA ReturnAdvances ==
  ASSUME IInv, status = "lexing", NEW start, NEW first, Ahead(start, first),
         NEW next \in first .. Len(text) + 1,
         NEW type, type # "TK_EOF", NEW content,
         NEW from \in start .. Len(text) + 1, NEW to \in Int, to <= next,
         Return(start, first, next, type, content, from, to)
  PROVE  Advanced
<1>1. /\ Len(text) \in Nat /\ Beyond = Len(text) + 2 /\ current \in 1 .. Beyond /\ line \in Nat
      /\ start \in Int /\ first \in Int
  BY Characters DEF IInv, Placed, Beyond, Ahead
<1>2. Newlines(start, first) \in Nat
  BY <1>1, NewlinesCounted
<1>3. /\ current' = next /\ line' = line + Newlines(start, first)
      /\ token' = Content(type, content, from, to, line')
      /\ text' = text /\ status' = "lexing"
  BY DEF Return
<1>4. token'.type = type /\ token'.from = from /\ token'.to = to
  BY <1>3, ContentFields
<1>5. /\ next \in 1 .. Beyond /\ next # Beyond /\ from \in Int /\ from >= current
  BY <1>1 DEF Ahead
<1>. QED  BY <1>1, <1>2, <1>3, <1>4, <1>5 DEF Advanced

LEMMA AheadFacts ==
  ASSUME IInv, NEW start, NEW first, Ahead(start, first)
  PROVE  /\ Len(text) \in Nat /\ Beyond = Len(text) + 2 /\ current \in 1 .. Len(text) + 1 /\ line \in Nat
         /\ start \in 1 .. Len(text) + 1 /\ first \in start .. Len(text) + 1
         /\ first \in 1 .. Len(text) + 1 /\ current <= start
         /\ Newlines(start, first) \in Nat
<1>1. /\ Len(text) \in Nat /\ Beyond = Len(text) + 2 /\ current \in 1 .. Beyond /\ line \in Nat
  BY Characters DEF IInv, Placed, Beyond
<1>2. start \in Int /\ first \in Int /\ start \in current .. Len(text) + 1 /\ first \in start .. Len(text) + 1
  BY <1>1 DEF Ahead
<1>3. Newlines(start, first) \in Nat
  BY <1>2, NewlinesCounted
<1>. QED  BY <1>1, <1>2, <1>3

LEMMA NewlineAdvances ==
  ASSUME IInv, status = "lexing", NEW start, NEW first, Ahead(start, first), Newline(start, first)
  PROVE  Advanced
<1>f. /\ Len(text) \in Nat /\ Beyond = Len(text) + 2 /\ current \in 1 .. Len(text) + 1 /\ line \in Nat
      /\ start \in 1 .. Len(text) + 1 /\ first \in start .. Len(text) + 1 /\ current <= start
      /\ Newlines(start, first) \in Nat
  BY AheadFacts
<1>1. first \in 1 .. Len(text)
  <2>1. At(first) # Nul
    BY DEF Newline, Nul
  <2>. QED  BY <2>1, AheadFacts, Characters DEF IInv, Placed
<1>2. /\ current' = first + 1 /\ line' = line + Newlines(start, first) + 1
      /\ token' = Content("TK_NEWLINE", "", first, first, line' - 1)
      /\ text' = text /\ status' = "lexing"
  BY DEF Newline
<1>3. token'.type = "TK_NEWLINE" /\ token'.from = first /\ token'.to = first
  BY <1>2 DEF Content
<1>4. /\ current' \in 1 .. Beyond /\ line' \in Nat /\ current' # Beyond
      /\ first \in Int /\ first >= current /\ first <= current'
  <2>1. current' = first + 1 /\ line' = line + Newlines(start, first) + 1
    BY <1>2
  <2>. QED  BY <1>1, <2>1, <1>f
<1>. QED  BY <1>2, <1>3, <1>4 DEF Advanced

\* The content of a string begins and ends behind the start, whatever the comments hold.
LEMMA StringAdvances ==
  ASSUME IInv, status = "lexing", NEW start, NEW first, Ahead(start, first), String(start, first)
  PROVE  Advanced
<1>. DEFINE closing == Places(start + 1, "\"")
<1>f. /\ Len(text) \in Nat /\ Beyond = Len(text) + 2 /\ current \in 1 .. Len(text) + 1 /\ line \in Nat
      /\ start \in 1 .. Len(text) + 1 /\ first \in start .. Len(text) + 1 /\ current <= start
      /\ Newlines(start, first) \in Nat
  BY AheadFacts
<1>0. text \in Texts
  BY DEF IInv, Placed
<1>1. CASE Plain(start, first, first, "TK_ERROR")
  <2>1. Return(start, first, first, "TK_ERROR", "", first, first)
    BY <1>1 DEF Plain
  <2>2. first \in first .. Len(text) + 1 /\ first \in start .. Len(text) + 1 /\ first \in Int /\ first <= first
    BY AheadFacts
  <2>. QED  BY <2>1, <2>2, ReturnAdvances
<1>2. CASE closing # {} /\ View(start, first, FirstOf(closing) + 1, "TK_STRING",
                                start + 1, FirstOf(closing))
  <2>. DEFINE end == FirstOf(closing)
  <2>1. end \in start + 1 .. Len(text)
    <3>1. start + 1 \in Nat
      BY <1>f
    <3>2. Places(start + 1, "\"") # {}
      BY <1>2
    <3>3. FirstOf(Places(start + 1, "\"")) \in start + 1 .. Len(text)
      BY <1>0, <3>1, <3>2, PlacesAre
    <3>. QED  BY <3>3
  <2>. HIDE DEF end
  <2>2. Return(start, first, end + 1, "TK_STRING", SubSeq(text, start + 1, end - 1), start + 1, end)
    BY <1>2 DEF View, end
  <2>3. /\ current' = end + 1 /\ line' = line + Newlines(start, first)
        /\ token' = Content("TK_STRING", SubSeq(text, start + 1, end - 1), start + 1, end, line')
        /\ text' = text /\ status' = "lexing"
    BY <2>2 DEF Return
  <2>4. token'.type = "TK_STRING" /\ token'.from = start + 1 /\ token'.to = end
    BY <2>3, ContentFields
  <2>. QED  BY <2>1, <2>3, <2>4, AheadFacts DEF Advanced
<1>. QED  BY <1>1, <1>2 DEF String

LEMMA NumberAdvances ==
  ASSUME IInv, status = "lexing", NEW start, NEW first, Ahead(start, first), Number(start, first)
  PROVE  Advanced
<1>. DEFINE end == Past(first, VALID_NUMERIC_CHAR)
            points == {p \in first .. end - 1 : At(p) = "."}
<1>1. /\ end \in first .. Len(text) + 1
  BY AheadFacts, CharactersAssumption, PastIs DEF IInv, Placed
<1>2. CASE View(start, first, end, "TK_NUMBER", start, end)
  <2>. HIDE DEF end
  <2>1. Return(start, first, end, "TK_NUMBER", SubSeq(text, start, end - 1), start, end)
    BY <1>2 DEF View
  <2>2. start \in start .. Len(text) + 1 /\ end \in Int /\ end <= end
    BY <1>1, AheadFacts
  <2>. QED  BY <1>1, <2>1, <2>2, ReturnAdvances
<1>3. CASE /\ Cardinality(points) > 1
           /\ Plain(start, first, FirstOf(points \ {FirstOf(points)}) + 1, "TK_ERROR")
  <2>. DEFINE others == points \ {FirstOf(points)}
  <2>1. points \in SUBSET Nat /\ points \subseteq first .. end - 1
    BY <1>1, AheadFacts
  <2>2. others # {}
    <3>1. SUFFICES ASSUME points \subseteq {FirstOf(points)} PROVE Cardinality(points) <= 1
      <4>. HIDE DEF end
      <4>1. IsFiniteSet(first .. end - 1)
        BY <1>1, AheadFacts, FS_Interval
      <4>2. IsFiniteSet(points)
        BY <4>1, <2>1, FS_Subset
      <4>3. Cardinality(points) \in Nat
        BY <4>2, FS_CardinalityType
      <4>. HIDE DEF points
      <4>. QED  BY <3>1, <4>3, <1>3
    <3>. HIDE DEF points
    <3>2. IsFiniteSet({FirstOf(points)}) /\ Cardinality({FirstOf(points)}) = 1
      BY FS_Singleton
    <3>. QED  BY <3>1, <3>2, FS_Subset
  <2>3. FirstOf(others) \in first .. end - 1
    <3>1. others \in SUBSET Nat /\ others \subseteq first .. end - 1
      BY <2>1
    <3>. HIDE DEF others
    <3>2. FirstOf(others) \in others
      BY <2>2, <3>1, FirstIs
    <3>. QED  BY <3>1, <3>2
  <2>. DEFINE next == FirstOf(others) + 1
  <2>4. next \in first .. Len(text) + 1
    <3>. HIDE DEF others, end
    <3>. QED  BY <1>1, <2>3, AheadFacts
  <2>5. Return(start, first, next, "TK_ERROR", "", first, first)
    BY <1>3 DEF Plain
  <2>6. first \in start .. Len(text) + 1 /\ first \in Int /\ first <= next
    <3>. HIDE DEF next
    <3>. QED  BY <2>4, AheadFacts
  <2>. HIDE DEF next
  <2>. QED  BY <2>4, <2>5, <2>6, ReturnAdvances
<1>. QED  BY <1>2, <1>3 DEF Number

LEMMA FixedWordAdvances ==
  ASSUME IInv, status = "lexing", NEW start, NEW first, Ahead(start, first), FixedWord(start, first)
  PROVE  Advanced
<1>. DEFINE matching == {k \in DOMAIN Fixed : Matches(first, Fixed[k][1])}
            entry == Fixed[FirstOf(matching)]
            end == first + Len(entry[1])
<1>1. matching # {} /\ Return(start, first, end, entry[2], entry[1], first, end)
  BY DEF FixedWord
<1>2. matching \in SUBSET Nat
  BY TableIndices
<1>3. FirstOf(matching) \in matching
  <2>. HIDE DEF matching
  <2>. QED  BY <1>1, <1>2, FirstIs
<1>4. PICK k \in DOMAIN Fixed : k = FirstOf(matching) /\ Matches(first, Fixed[k][1])
  BY <1>3
<1>. DEFINE word == Fixed[k][1]
            type == Fixed[k][2]
            last == first + Len(word)
<1>5. Return(start, first, last, type, word, first, last)
  <2>. HIDE DEF matching
  <2>. QED  BY <1>1, <1>4
<1>6. last \in first + 1 .. Len(text) + 1 /\ type # "TK_EOF"
  BY <1>4, AheadFacts, Matching DEF IInv, Placed
<1>. HIDE DEF last, word, type
<1>7. last \in first .. Len(text) + 1 /\ first \in start .. Len(text) + 1 /\ last \in Int /\ last <= last
  BY <1>6, AheadFacts
<1>. QED  BY <1>5, <1>6, <1>7, ReturnAdvances

\* The lexer gets behind the terminator where the identifier was the end of the text.
LEMMA IdentifierAdvances ==
  ASSUME IInv, status = "lexing", NEW start, NEW first, Ahead(start, first), Identifier(start, first)
  PROVE  Advanced
<1>. DEFINE end == Past(first, VALID_IDENTIFIER_CHAR)
<1>1. At(first) \in VALID_IDENTIFIER_CHAR
  BY DEF Identifier
<1>2. /\ end \in first .. Len(text) + 1
      /\ At(end) \notin VALID_IDENTIFIER_CHAR
      /\ \A r \in first .. end - 1 : At(r) \in VALID_IDENTIFIER_CHAR
  BY AheadFacts, CharactersAssumption, PastIs DEF IInv, Placed
<1>3. /\ current' = end + 1 /\ line' = line + Newlines(start, first)
      /\ token' = Content("TK_IDENTIFIER", SubSeq(text, start, end - 1), start, end, line')
      /\ text' = text /\ status' = "lexing"
  BY DEF Identifier
<1>. HIDE DEF end
<1>4. token'.type = "TK_IDENTIFIER" /\ token'.from = start /\ token'.to = end
  BY <1>3, ContentFields
<1>5. end # first /\ first < end
  <2>1. end # first
    BY <1>1, <1>2
  <2>. QED  BY <2>1, <1>2, AheadFacts
<1>6. ASSUME current' = Beyond
      PROVE  Len(text) \in 1 .. Len(text) /\ At(Len(text)) \in VALID_IDENTIFIER_CHAR
  <2>1. end = Len(text) + 1 /\ Len(text) \in first .. end - 1 /\ Len(text) \in 1 .. Len(text)
    BY <1>6, <1>3, <1>5, <1>2, AheadFacts
  <2>. QED  BY <2>1, <1>2
<1>7. /\ current' \in 1 .. Beyond /\ line' \in Nat /\ start \in Int /\ start >= current
      /\ end \in Int /\ end <= current'
  BY <1>2, <1>3, AheadFacts
<1>. QED  BY <1>3, <1>4, <1>6, <1>7 DEF Advanced

LEMMA UnexpectedAdvances ==
  ASSUME IInv, status = "lexing", NEW start, NEW first, Ahead(start, first), Unexpected(start, first)
  PROVE  Advanced
<1>1. Return(start, first, first, "TK_ERROR", "", first, first)
  BY DEF Unexpected, Plain
<1>2. first \in first .. Len(text) + 1 /\ first \in start .. Len(text) + 1 /\ first \in Int /\ first <= first
  BY AheadFacts
<1>. QED  BY <1>1, <1>2, ReturnAdvances

LEMMA EndIsReached ==
  ASSUME IInv, status = "lexing", NEW start, NEW first, Ahead(start, first), EndOfText(start, first)
  PROVE  /\ text' = text /\ status' = "lexing" /\ eaten' = eaten
         /\ first = Len(text) + 1 /\ current' = first
         /\ line' = line + Newlines(start, first) /\ line' \in Nat
         /\ token' = EndToken(first, line')
         /\ token'.from = first /\ token'.to = first
<1>f. /\ Len(text) \in Nat /\ Beyond = Len(text) + 2 /\ current \in 1 .. Len(text) + 1 /\ line \in Nat
      /\ start \in 1 .. Len(text) + 1 /\ first \in start .. Len(text) + 1 /\ current <= start
      /\ Newlines(start, first) \in Nat
  BY AheadFacts
<1>1. first = Len(text) + 1
  <2>1. At(first) = Nul
    BY DEF EndOfText
  <2>. QED  BY <2>1, AheadFacts, Characters DEF IInv, Placed
<1>2. /\ text' = text /\ status' = "lexing" /\ eaten' = eaten /\ current' = first
      /\ line' = line + Newlines(start, first)
      /\ token' = EndToken(first, line')
  BY DEF EndOfText, Plain, Return, EndToken
<1>3. token'.from = first /\ token'.to = first
  BY <1>2 DEF Content, EndToken
<1>4. line' \in Nat
  <2>1. line' = line + Newlines(start, first)
    BY <1>2
  <2>. QED  BY <2>1, <1>f
<1>. QED  BY <1>1, <1>2, <1>3, <1>4

LEMMA PieceAdvances ==
  ASSUME IInv, status = "lexing", NEW start, NEW first, Ahead(start, first), Piece(start, first)
  PROVE  Advanced \/ EndOfText(start, first)
BY NewlineAdvances, StringAdvances, NumberAdvances, FixedWordAdvances, IdentifierAdvances,
   UnexpectedAdvances DEF Piece

LEMMA AdvancedInvariant ==
  ASSUME IInv, Advanced
  PROVE  IInv' /\ token'.from >= token.to
<1>1. Placed'
  BY DEF Advanced, IInv, Placed, At, Beyond
<1>2. AtRest' /\ OnlyUnterminatedTextsOverread'
  BY DEF Advanced, AtRest, OnlyUnterminatedTextsOverread
<1>3. token'.from >= token.to
  <2>1. current \in Int /\ token.to \in Int /\ token.to <= current
    BY Characters DEF IInv, Placed, Beyond
  <2>2. token'.from \in Int /\ token'.from >= current
    BY DEF Advanced
  <2>. QED  BY <2>1, <2>2
<1>. QED  BY <1>1, <1>2, <1>3 DEF IInv

\* Where a call stands before its token, if nothing made it read too far.
LEMMA Starting ==
  ASSUME IInv, current # Beyond
  PROVE  /\ Past(current, Blanks) \in current .. Len(text) + 1
         /\ At(Past(current, Blanks)) \notin Blanks
         /\ Past(current, Blanks) \in 1 .. Len(text) + 1
<1>1. /\ Len(text) \in Nat /\ current \in 1 .. Len(text) + 1
  BY Characters DEF IInv, Placed, Beyond
<1>2. /\ Past(current, Blanks) \in current .. Len(text) + 1
      /\ At(Past(current, Blanks)) \notin Blanks
  BY <1>1, CharactersAssumption, PastIs DEF IInv, Placed
<1>. QED  BY <1>1, <1>2

\* At the end of the text a call changes nothing.
LEMMA EndStays ==
  ASSUME IInv, token.type = "TK_EOF", produceNextToken
  PROVE  UNCHANGED vars
<1>. DEFINE start == Past(current, Blanks)
            first == AfterComments(start)
<1>1. /\ status = "lexing" /\ current = Len(text) + 1 /\ Len(text) \in Nat /\ text \in Texts /\ line \in Nat
      /\ token = EndToken(current, line)
  BY Characters DEF IInv, Placed, AtRest
<1>2. current # Beyond
  BY <1>1 DEF Beyond
<1>3. start = current
  <2>1. start \in current .. Len(text) + 1
    BY <1>2, Starting
  <2>. HIDE DEF start
  <2>. QED  BY <2>1, <1>1
<1>4. start \in 1 .. Len(text) + 1 /\ ~(start \in 1 .. Len(text))
  <2>. HIDE DEF start
  <2>. QED  BY <1>3, <1>1
<1>5. first = start
  <2>. HIDE DEF start
  <2>1. ~IsComment(start)
    BY <1>1, <1>4, CommentsAre
  <2>. QED  BY <2>1, <1>1, <1>4, CommentsAre
<1>6. Piece(start, first)
  <2>1. first # Beyond
    <3>1. first = current
      BY <1>3, <1>5
    <3>. QED  BY <3>1, <1>2
  <2>. QED  BY <1>2, <2>1 DEF produceNextToken
<1>7. Piece(current, current)
  <2>1. start = current /\ first = current
    BY <1>3, <1>5
  <2>. HIDE DEF start, first
  <2>. QED  BY <2>1, <1>6
<1>8. At(current) = Nul
  <2>1. current \in Int /\ current > Len(text)
    BY <1>1
  <2>. QED  BY <2>1, <1>1, Characters
<1>9. EndOfText(current, current)
  <2>1. ~Newline(current, current) /\ ~String(current, current)
    BY <1>8 DEF Newline, String, Nul
  <2>2. ~Number(current, current)
    BY <1>8, CharactersAssumption DEF Number
  <2>3. ~FixedWord(current, current)
    <3>1. SUFFICES ASSUME NEW k \in DOMAIN Fixed, Matches(current, Fixed[k][1]) PROVE FALSE
      BY DEF FixedWord
    <3>2. current \in 1 .. Len(text) + 1 /\ ~(current \in 1 .. Len(text))
      BY <1>1
    <3>. QED  BY <3>1, <3>2, <1>1, Matching
  <2>4. ~Identifier(current, current) /\ ~Unexpected(current, current)
    BY <1>8 DEF Identifier, Unexpected, Otherwise
  <2>. QED  BY <1>7, <2>1, <2>2, <2>3, <2>4 DEF Piece
<1>10. /\ text' = text /\ status' = status /\ eaten' = eaten /\ current' = current
       /\ line' = line + Newlines(current, current)
       /\ token' = EndToken(current, line')
  BY <1>9 DEF EndOfText, Plain, Return, EndToken
<1>11. line' = line
  <2>1. Newlines(current, current) = 0
    <3>1. current \in Int /\ current <= current
      BY <1>1
    <3>. QED  BY <3>1, NewlinesCounted
  <2>2. line' = line + Newlines(current, current)
    BY <1>10
  <2>3. line \in Nat
    BY <1>1
  <2>. QED  BY <2>1, <2>2, <2>3
<1>. QED  BY <1>1, <1>10, <1>11 DEF vars

LEMMA SameInvariant == ASSUME IInv, UNCHANGED vars PROVE IInv'
BY DEF IInv, vars, Placed, AtRest, OnlyUnterminatedTextsOverread, At, Beyond, IsComment

\* A read behind the terminator comes from a comment or an identifier at the end.
LEMMA OverreadExplained ==
  ASSUME IInv, token.type # "TK_EOF", ReadBeyond,
         \/ current = Beyond
         \/ current # Beyond /\ AfterComments(Past(current, Blanks)) = Beyond
  PROVE  IInv'
<1>1. /\ text \in Texts /\ text' = text /\ current' = current /\ line' = line /\ token' = token
      /\ status' = "wild"
  BY DEF ReadBeyond, IInv, Placed
<1>2. Placed'
  BY <1>1 DEF IInv, Placed, At, Beyond
<1>3. AtRest'
  BY <1>1 DEF AtRest
<1>4. /\ At(Len(text)) # "\n"
      /\ \/ At(Len(text)) \in VALID_IDENTIFIER_CHAR
         \/ \E p \in 1 .. Len(text) : IsComment(p)
  <2>1. CASE current = Beyond
    <3>1. At(Len(text)) \in VALID_IDENTIFIER_CHAR
      BY <2>1 DEF IInv, Placed
    <3>. QED  BY <3>1, CharactersAssumption
  <2>2. CASE current # Beyond /\ AfterComments(Past(current, Blanks)) = Beyond
    <3>. DEFINE start == Past(current, Blanks)
    <3>1. start \in 1 .. Len(text) + 1 /\ AfterComments(start) = Beyond
      BY <2>2, Starting
    <3>. HIDE DEF start
    <3>2. At(Len(text)) # "\n" /\ IsComment(start)
      BY <3>1, <1>1, CommentsAre
    <3>3. start \in 1 .. Len(text)
      BY <3>1, <3>2, <1>1, CommentsAre
    <3>. QED  BY <3>2, <3>3
  <2>. QED  BY <2>1, <2>2
<1>5. OnlyUnterminatedTextsOverread'
  BY <1>4, <1>1 DEF OnlyUnterminatedTextsOverread, At, IsComment
<1>. QED  BY <1>2, <1>3, <1>5 DEF IInv

LEMMA EndInvariant ==
  ASSUME IInv, status = "lexing", NEW start, NEW first, Ahead(start, first), EndOfText(start, first)
  PROVE  IInv' /\ token'.from >= token.to
<1>1. /\ text' = text /\ status' = "lexing" /\ current' = first
      /\ line' \in Nat
      /\ token' = EndToken(first, line')
  BY EndIsReached
<1>2. first = Len(text) + 1 /\ token'.from = first /\ token'.to = first
  BY EndIsReached
<1>3. Len(text) \in Nat /\ Beyond = Len(text) + 2 /\ current \in 1 .. Len(text) + 1
  BY AheadFacts
<1>4. text \in Texts /\ token.to \in Int /\ token.to <= current
  BY DEF IInv, Placed
<1>5. Placed'
  <2>1. text' \in Texts /\ line' \in Nat /\ status' \in {"lexing", "wild"}
    BY <1>1, <1>4
  <2>2. Beyond' = Len(text) + 2 /\ current' = Len(text) + 1 /\ token'.to = Len(text) + 1
    BY <1>1, <1>2 DEF Beyond
  <2>3. /\ current' \in 1 .. Beyond' /\ token'.to \in Int /\ token'.to <= current' /\ current' # Beyond'
    BY <2>2, <1>3
  <2>. QED  BY <2>1, <2>3 DEF Placed
<1>6. AtRest'
  BY <1>1, <1>2 DEF AtRest
<1>7. OnlyUnterminatedTextsOverread'
  BY <1>1 DEF OnlyUnterminatedTextsOverread
<1>8. token'.from >= token.to
  BY <1>2, <1>3, <1>4
<1>. QED  BY <1>5, <1>6, <1>7, <1>8 DEF IInv

LEMMA CallStep ==
  ASSUME IInv, produceNextToken
  PROVE  /\ IInv'
         /\ ~UNCHANGED vars => /\ status' = "lexing" => token'.from >= token.to
                               /\ token.type # "TK_EOF"
<1>1. CASE token.type = "TK_EOF"
  BY <1>1, EndStays, SameInvariant
<1>2. CASE token.type # "TK_EOF" /\ current = Beyond
  <2>1. ReadBeyond
    BY <1>2 DEF produceNextToken
  <2>. QED  BY <1>2, <2>1, OverreadExplained DEF ReadBeyond
<1>3. CASE token.type # "TK_EOF" /\ current # Beyond
  <2>. DEFINE start == Past(current, Blanks)
              first == AfterComments(start)
  <2>1. /\ status = "lexing"
        /\ \/ first = Beyond /\ ReadBeyond
           \/ first # Beyond /\ Piece(start, first)
    BY <1>3 DEF produceNextToken
  <2>2. CASE first = Beyond /\ ReadBeyond
    BY <1>3, <2>2, OverreadExplained DEF ReadBeyond
  <2>3. CASE first # Beyond /\ Piece(start, first)
    <3>1. /\ start \in current .. Len(text) + 1
          /\ At(start) \notin Blanks
          /\ start \in 1 .. Len(text) + 1
      BY <1>3, Starting
    <3>2. first \in start .. Len(text) + 1
      <4>. HIDE DEF start
      <4>1. Len(text) \in Nat /\ Beyond = Len(text) + 2 /\ text \in Texts
        BY Characters DEF IInv, Placed, Beyond
      <4>2. first \in start .. Beyond
        BY <3>1, <4>1, CommentsAre
      <4>. HIDE DEF first
      <4>. QED  BY <4>1, <4>2, <3>1, <2>3
    <3>. HIDE DEF start, first
    <3>3. Ahead(start, first)
      BY <3>1, <3>2 DEF Ahead
    <3>4. Advanced \/ EndOfText(start, first)
      BY <2>1, <2>3, <3>3, PieceAdvances
    <3>5. IInv' /\ token'.from >= token.to
      BY <2>1, <3>3, <3>4, AdvancedInvariant, EndInvariant
    <3>. QED  BY <3>5, <1>3
  <2>. QED  BY <2>1, <2>2, <2>3
<1>. QED  BY <1>1, <1>2, <1>3

-----------------------------------------------------------------------------
(* Theorems *)

LEMMA NextInvariant == ASSUME IInv, [Next]_vars PROVE IInv'
BY CallStep, SameInvariant DEF Next, Rest

\* Wherever blanks, comments, quotation marks and words meet, the lexer stays within the text
\* or one position behind its terminator, where an identifier at the end has left it.
THEOREM Invariant == Spec => []IInv
<1>1. Init => IInv
  BY InitInvariant
<1>2. IInv /\ [Next]_vars => IInv'
  BY NextInvariant
<1>. QED  BY <1>1, <1>2, PTL DEF Spec

\* A text of any length that ends with a newline is never read past its terminator
\* (lexer.c:69, 169), nor is one without a comment that does not end like an identifier.
THEOREM NewlinesProtect == Spec => []OnlyUnterminatedTextsOverread
<1>1. IInv => OnlyUnterminatedTextsOverread
  BY DEF IInv
<1>. QED  BY <1>1, Invariant, PTL

\* No character of a text belongs to two tokens, and after the end nothing changes any more,
\* for any text (lexer.c:66, 93, 115, 170; compiler.c:89).
THEOREM TokensFollowTheText == Spec => TokensInOrder
<1>1. IInv /\ [Next]_vars => [/\ status' = "lexing" => token'.from >= token.to
                              /\ token.type # "TK_EOF"]_vars
  <2>1. SUFFICES ASSUME IInv, Next, ~UNCHANGED vars
                 PROVE  /\ status' = "lexing" => token'.from >= token.to
                        /\ token.type # "TK_EOF"
    OBVIOUS
  <2>2. produceNextToken
    BY <2>1 DEF Next, Rest
  <2>. QED  BY <2>1, <2>2, CallStep
<1>. QED  BY <1>1, Invariant, PTL DEF Spec, TokensInOrder
=============================================================================
