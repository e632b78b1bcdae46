--------------------------- MODULE MC_Interpreter ---------------------------
(***************************************************************************)
(* Sessions of complete programs, and sessions in which lines are broken.  *)
(***************************************************************************)
EXTENDS Interpreter

L == INSTANCE Semantics WITH Level <- [op \in OperatorTypes |-> C!PrecedenceOf(op)]

MCNames == {"", "true", "false", "f", "g", "x", "y"}

-----------------------------------------------------------------------------
(* Complete programs, as trees *)

N(n) == L!Leaf("num", "", n)
X == L!Leaf("var", "x", 0)
Y == L!Leaf("var", "y", 0)
Bin(op, a, b) == L!Inner(op, <<a, b>>)
Say(e) == L!Inner("print", <<e>>)
Shown(e) == L!Inner("eval", <<e>>)
Set(x, e) == L!NamedNode("assign", x, <<e>>)
New(x, e) == L!NamedNode("define", x, <<e>>)
Both(s, t) == L!Inner("then", <<s, t>>)
InBlock(s) == L!Inner("block", <<s>>)
Fn(f, params, s) == L!Node("func", f, 0, params, <<s>>)
CallOf(f, kids) == L!NamedNode("call", f, kids)

Up(x, e) == Set(x, Bin("TK_ADD", e, N(1)))
Loop(e, s) == L!Inner("while", <<Bin("TK_LESSER", e, N(3)), InBlock(s)>>)
Cond(e, s) == L!Inner("if", <<Bin("TK_GREATER", e, N(1)), InBlock(s)>>)
Choice(e, s, t) == L!Inner("else", <<Bin("TK_EQUALITY", e, N(2)), InBlock(s), InBlock(t)>>)

\* What does not need to know anything.
Closed ==
  {Both(Set("x", N(2)), Say(X)),
   Both(Fn("g", <<>>, Up("x", X)), Both(Set("x", N(0)), CallOf("g", <<>>))),
   Shown(Bin("TK_SUB", Bin("TK_SUB", N(7), N(3)), Bin("TK_MULTIPLY", N(2), N(3)))),
   Shown(L!Inner("not", <<Bin("TK_LESSER_EQUAL", N(1), L!Inner("neg", <<N(2)>>))>>)),
   Say(Bin("TK_ADD", L!Leaf("str", "", 1), L!Leaf("str", "", 2))),
   Both(New("x", N(0)), Both(Loop(X, Up("x", X)), Say(X))),
   Both(Set("x", N(1)), InBlock(Both(New("x", N(5)), Both(Set("x", N(6)), Say(X))))),
   InBlock(Both(New("y", N(0)), Loop(Y, Both(Up("y", Y), Choice(Y, Say(N(8)), Say(Y)))))),
   Both(Fn("f", <<"y">>, Both(Cond(Y, Say(Y)), Set("x", Y))),
        Both(Set("x", N(0)), Both(CallOf("f", <<N(4)>>), Say(X)))),
   Both(Fn("g", <<>>, Up("x", X)),
        Both(Fn("f", <<"x">>, Both(CallOf("g", <<>>), Say(X))),
             Both(Set("x", N(1)), Both(CallOf("f", <<X>>), CallOf("g", <<>>))))),
   Both(Fn("f", <<"y">>, Both(Up("x", X), Cond(Y, CallOf("f", <<N(1)>>)))),
        Both(Set("x", N(0)), Both(CallOf("f", <<N(3)>>), Say(X)))),
   L!Inner("empty", <<>>)}

\* What needs the x of an earlier line.
Open ==
  {Say(Bin("TK_MULTIPLY", X, X)), Up("x", X), Loop(X, Up("x", X)),
   InBlock(Both(New("y", X), Both(Up("x", Y), Say(Bin("TK_XOR", Bin("TK_EQUALITY", X, Y),
                                                        L!Leaf("true", "", 0))))))}

Trees == Closed \cup Open
Written(t) == L!Program(L!PhraseOf(t))
ScriptOf == [t \in Trees |-> Written(t).text]
PromptOf == [t \in Trees |-> L!OnOneLine(Written(t).text)]
Texts == {ScriptOf[t] : t \in Trees} \cup {PromptOf[t] : t \in Trees}
TreeOf == [line \in Texts |-> CHOOSE t \in Trees : line \in {ScriptOf[t], PromptOf[t]}]
Compiled == {Assemble(Written(t).code) : t \in Trees}

\* Names for the cfg to give to the constants: TLC evaluates what they stand for once.
MCPrograms == Texts
MCDelivered == Compiled

\* ChunksAssumption of VirtualMachine, for the chunks of these programs.
ASSUME \A c \in Compiled : TypedChunk(c) /\ WellFormed(c)

\* Where Defines is TRUE, a tree declares functions.
Defines == [t \in Trees |->
              \E k \in 1 .. Len(ScriptOf[t]) : ScriptOf[t][k].type = "TK_DEC_FUNCTION"]

Meant(texts) ==
  L!RunLines([k \in 1 .. Len(texts) |-> TreeOf[texts[k]]], mode = "VM_MODE_INTERACTIVE")

\* A session of programs prints, shows and remembers what its lines mean, told from their
\* trees: line by line, whatever was compiled and run before.  A line fails or hangs only if it reads
\* a variable nobody has set, or calls a function after an earlier line has declared one.
PrintsWhatIsMeant ==
  AtPrompt =>
    LET meant == Meant(entered)
    IN  output = meant.printed /\ tables[0] = meant.scopes[1]

FailsWithReason ==
  status \in Faults \/ Spinning =>
    LET before == SubSeq(entered, 1, Len(entered) - 1)
        last == TreeOf[entered[Len(entered)]]
    IN  \/ /\ status = "dangling_function"
           /\ Defines[last]
           /\ \E k \in 1 .. Len(before) : Defines[TreeOf[before[k]]]
        \/ /\ status = "undefined_wild" \/ Spinning
           /\ last \in Open
           /\ "x" \notin DOMAIN Meant(before).scopes[1]

RunsAsMeant ==
  (\A k \in DOMAIN entered : entered[k] \in Texts) => PrintsWhatIsMeant /\ FailsWithReason

-----------------------------------------------------------------------------
(* Broken lines *)

Kinds == {Tk("TK_PRINT"), Valued("TK_NUMBER", 1), Tk("TK_IF"), Tk("TK_BRACE_OPEN"),
          Tk("TK_BRACE_CLOSE"), Tk("TK_ELSE"), Tk("TK_SUB"), Spelled("TK_IDENTIFIER", "x"),
          Tk("TK_ASSIGNMENT"), Tk("TK_PAREN_OPEN"), Tk("TK_SEMICOLON")}
BrokenLines ==
  {s \o <<Tk("TK_EOF")>> :
     s \in UNION {[1 .. n -> Kinds] : n \in 0 .. 2} \cup
           {<<Tk("TK_DEC_FUNCTION"), Spelled("TK_IDENTIFIER", "f"), Tk("TK_BRACE_OPEN")>> \o t :
              t \in {<<>>, <<Tk("TK_BRACE_CLOSE")>>, <<Tk("TK_BRACE_CLOSE"), Spelled("TK_IDENTIFIER", "f")>>,
                     <<Tk("TK_BRACE_OPEN"), Tk("TK_BRACE_CLOSE"), Tk("TK_PRINT")>>}} \cup
           \* a header that is not closed
           {<<Tk("TK_DEC_FUNCTION"), Spelled("TK_IDENTIFIER", "f")>> \o t :
              t \in {<<>>, <<Tk("TK_PARAMETER_LIST_SEPARATOR"), Tk("TK_TYPE_NUMBER")>>,
                     <<Tk("TK_TYPE_NUMBER"), Spelled("TK_IDENTIFIER", "x")>>}} \cup
           \* a call without its argument, and with something else in its place
           {<<Tk("TK_DEC_FUNCTION"), Spelled("TK_IDENTIFIER", "f"), Tk("TK_TYPE_NUMBER"),
              Spelled("TK_IDENTIFIER", "x"), Tk("TK_BRACE_OPEN"), Tk("TK_BRACE_CLOSE"),
              Spelled("TK_IDENTIFIER", "f")>> \o t :
              t \in {<<>>, <<Tk("TK_SUB"), Valued("TK_NUMBER", 1)>>, <<Spelled("TK_IDENTIFIER", "y")>>}} \cup
           {<<Tk("TK_IF"), Valued("TK_NUMBER", 1), Tk("TK_BRACE_OPEN")>> \o t :
              t \in {<<>>, <<Tk("TK_BRACE_CLOSE"), Tk("TK_ELSE")>>, <<Tk("TK_IF"), Valued("TK_NUMBER", 1)>>,
                     <<Tk("TK_BRACE_CLOSE"), Tk("TK_ELSE"), Tk("TK_BRACE_OPEN"), Tk("TK_PRINT")>>}}}

-----------------------------------------------------------------------------
(* Sessions *)

\* Longer sessions, of lines that leave a variable or a function behind or need one.
Chained == Open \cup {Both(Set("x", N(2)), Say(X)),
                     Both(Fn("g", <<>>, Up("x", X)), Both(Set("x", N(0)), CallOf("g", <<>>)))}

AllSessions ==
  {[lines |-> Texts, count |-> 2],
   [lines |-> {PromptOf[t] : t \in Chained}, count |-> 3],
   [lines |-> BrokenLines, count |-> 2]}
MCSessions == AllSessions
=============================================================================
