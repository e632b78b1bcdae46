------------------------------ MODULE Compiler ------------------------------
(***************************************************************************)
(* The single-pass compiler of compiler.c, from the tokens of the lexer to *)
(* a chunk.  The recursive descent keeps what it still has to do on the C  *)
(* stack; here that is the agenda, the next task first.  One step is the   *)
(* part of a parsing function between two calls of others: it looks at the *)
(* current token, moves the parser, writes instructions and replaces the   *)
(* task at the head of the agenda by the tasks the function goes on with.  *)
(*                                                                         *)
(* The compiler reports syntax errors, carries on and always returns true, *)
(* so what it leaves in the chunk matters for every sequence of tokens,    *)
(* and not only for programs.  Where C stops the process or leaves the     *)
(* outcome undefined, the status says so and nothing follows.              *)
(***************************************************************************)
EXTENDS Bytecode, Tokens

CONSTANTS
  Sources,     \* token sequences: produceNextToken() repeats the last for ever
  Names,       \* the identifiers in them
  JumpMax,     \* INT16_MAX: the longest jump and the longest function
  ParamMax,    \* entries of the arrays of parameters and of return types: 256
  MaxCode      \* bound: where reallocate() runs out of memory

\* The lexer stands still at the end of the text and at an error it cannot pass.
Source(s) ==
  /\ s \in Seq(Token(Names)) /\ s # <<>>
  /\ s[Len(s)].type \in {"TK_EOF", "TK_ERROR"}
  /\ \A k \in 1 .. Len(s) - 1 : s[k].type # "TK_EOF"

Unpatched == 65535   \* 0xff 0xff

ASSUME SourcesAssumption == \A s \in Sources : Source(s)
ASSUME NamesAssumption == "" \in Names
ASSUME LimitsAssumption ==
  JumpMax \in Nat /\ ParamMax \in Nat \ {0} /\ MaxCode \in Nat /\ JumpMax < Unpatched

VARIABLES
  source,    \* what the lexer will produce
  parser,    \* [pos: the current token as a position, previous: a token, hadError]
  agenda,    \* the tasks the functions on the C stack still have to do
  chunk,     \* compilingChunk
  registry,  \* rgFunc, "Unordered string set"
  status     \* "compiling", "done", or why the process stopped: "wild_rule", "overrun",
             \* "wild_name", "misencoded", "too_far", "out_of_memory"

vars == <<source, parser, agenda, chunk, registry, status>>

-----------------------------------------------------------------------------
(* The parser *)

Current(p) == source[p.pos]
Check(p, types) == Current(p).type \in types

\* The parser moves to a later position of the source.
MoveTo(p, pos, previous) ==
  [pos |-> pos, previous |-> previous,
   hadError |-> p.hadError \/ source[pos].type = "TK_ERROR"]

advanceParser(p) ==
  MoveTo(p, IF p.pos < Len(source) THEN p.pos + 1 ELSE p.pos, Current(p))

\* consumeIf and consumeIfMultiple: an error moves nothing.
consumeIf(p, types) ==
  IF Check(p, types) THEN advanceParser(p) ELSE [p EXCEPT !.hadError = TRUE]

\* while (match(TK_NEWLINE)) {}
SkipNewlines(p) ==
  LET to == CHOOSE k \in p.pos .. Len(source) :
              /\ source[k].type # "TK_NEWLINE"
              /\ \A j \in p.pos .. k - 1 : source[j].type = "TK_NEWLINE"
  IN  IF to = p.pos THEN p ELSE MoveTo(p, to, source[to - 1])

Terminators == {"TK_EOF", "TK_NEWLINE", "TK_SEMICOLON", "TK_BRACE_OPEN"}

-----------------------------------------------------------------------------
(* Precedence and parse rules *)

PREC_NONE == 0
PREC_ASSIGNMENT == 1
PREC_OR == 2
PREC_AND == 3
PREC_XOR == 4
PREC_EQUALITY == 5
PREC_COMPARISON == 6
PREC_TERM == 7
PREC_FACTOR == 8
PREC_UNARY == 9
Precedences == PREC_NONE .. PREC_UNARY

PrecedenceOf(type) ==
  CASE type = "TK_OR" -> PREC_OR
    [] type = "TK_AND" -> PREC_AND
    [] type = "TK_XOR" -> PREC_XOR
    [] type \in {"TK_EQUALITY", "TK_INEQUALITY"} -> PREC_EQUALITY
    [] type \in {"TK_LESSER", "TK_GREATER", "TK_LESSER_EQUAL", "TK_GREATER_EQUAL"} -> PREC_COMPARISON
    [] type \in {"TK_ADD", "TK_SUB"} -> PREC_TERM
    [] type \in {"TK_MULTIPLY", "TK_DIVIDE", "TK_MODULO"} -> PREC_FACTOR
    [] OTHER -> PREC_NONE

PrefixOperators == {"TK_SUB", "TK_NOT"}
PrefixTypes == OperandTypes \cup PrefixOperators \cup {"TK_PAREN_OPEN"}

\* number(), string(), boolean() and identifier()
OperandCode(t) ==
  CASE t.type = "TK_NUMBER" -> Literal("OP_NUMBER", t.n)
    [] t.type = "TK_STRING" -> Literal("OP_STRING", t.n)
    [] t.type = "TK_BOOLEAN" -> Simple(IF t.text = "true" THEN "OP_TRUE" ELSE "OP_FALSE")
    [] t.type = "TK_IDENTIFIER" -> Named("OP_GET_VARIABLE", t.text)

UnaryCode(type) == Simple(IF type = "TK_SUB" THEN "OP_NEGATE" ELSE "OP_NOT")

\* The switch of binary(): the negated comparisons take two instructions.
BinaryCode(type) ==
  LET One(op) == <<Simple(op)>>
      Negated(op) == <<Simple(op), Simple("OP_NOT")>>
  IN
  CASE type = "TK_ADD" -> One("OP_ADD")
    [] type = "TK_SUB" -> One("OP_SUBTRACT")
    [] type = "TK_MULTIPLY" -> One("OP_MULTIPLY")
    [] type = "TK_DIVIDE" -> One("OP_DIVIDE")
    [] type = "TK_MODULO" -> One("OP_MODULO")
    [] type = "TK_EQUALITY" -> One("OP_EQUALS")
    [] type = "TK_INEQUALITY" -> Negated("OP_EQUALS")
    [] type = "TK_LESSER" -> One("OP_LESSER")
    [] type = "TK_GREATER" -> One("OP_GREATER")
    [] type = "TK_LESSER_EQUAL" -> Negated("OP_GREATER")
    [] type = "TK_GREATER_EQUAL" -> Negated("OP_LESSER")
    [] type = "TK_AND" -> One("OP_AND")
    [] type = "TK_OR" -> One("OP_OR")
    [] type = "TK_XOR" -> One("OP_XOR")

-----------------------------------------------------------------------------
(* Writing the chunk *)

Write(c, i) ==
  [code |-> [o \in Starts(c) \cup {c.size} |-> IF o = c.size THEN i ELSE c.code[o]],
   size |-> c.size + Width(i)]

WriteAll(c, is) == IF Len(is) = 1 THEN Write(c, is[1]) ELSE Write(Write(c, is[1]), is[2])

\* patchJump: the distance from the jump at offset o to the end of the chunk.
Distance(c, o) == c.size - o
Patch(c, o, n) == [c EXCEPT !.code[o].n = n]
patchJump(c, o) == Patch(c, o, Distance(c, o))
emitLoop(c, loopStart) == Write(c, Literal("OP_LOOP", Distance(c, loopStart)))

-----------------------------------------------------------------------------
(* Tasks *)

\* What is left to do: n is a precedence or the start of a loop, at the offset of a jump or
\* header to patch, type an operator, the rest the function header being read.
Task(do) == [do |-> do, n |-> 0, at |-> 0, type |-> "TK_ERROR", name |-> "",
             params |-> <<>>, rets |-> 0]
Prefix(precedence) == [Task("prefix") EXCEPT !.n = precedence]
Infix(precedence) == [Task("infix") EXCEPT !.n = precedence]
Operator(do, type) == [Task(do) EXCEPT !.type = type]
At(do, offset) == [Task(do) EXCEPT !.at = offset]
Expression == Prefix(PREC_ASSIGNMENT)

Now == agenda[1]
Doing(do) == status = "compiling" /\ agenda # <<>> /\ Now.do = do /\ chunk.size <= MaxCode

\* The step leaves the parser at p and the chunk at c, and goes on with tasks.
Continue(p, c, tasks) ==
  /\ parser' = p
  /\ chunk' = c
  /\ agenda' = tasks \o Tail(agenda)
  /\ UNCHANGED <<source, registry, status>>

Stop(why) == status' = why /\ UNCHANGED <<source, parser, agenda, chunk, registry>>

-----------------------------------------------------------------------------
(* compile() *)

Init ==
  /\ source \in Sources
  /\ parser = [pos |-> 1, previous |-> Tk("TK_ERROR"), hadError |-> source[1].type = "TK_ERROR"]
  /\ agenda = <<Task("program")>>
  /\ chunk = [code |-> [o \in {} |-> Simple("OP_RETURN")], size |-> 0]
  /\ registry = {}
  /\ status = "compiling"

Program ==
  /\ Doing("program")
  /\ ~Check(parser, {"TK_EOF"})
  /\ Continue(parser, chunk, <<Task("declaration"), Task("program")>>)

EndCompiler ==
  /\ Doing("program")
  /\ Check(parser, {"TK_EOF"})
  /\ parser' = consumeIf(advanceParser(parser), {"TK_EOF"})
  /\ chunk' = Write(chunk, Simple("OP_RETURN"))
  /\ agenda' = <<>>
  /\ registry' = {}
  /\ status' = "done"
  /\ UNCHANGED source

-----------------------------------------------------------------------------
(* declaration() *)

Declaration(types) ==
  Doing("declaration") /\ Check(SkipNewlines(parser), types)

EndOfFile ==
  /\ Declaration({"TK_EOF"})
  /\ Continue(advanceParser(SkipNewlines(parser)), chunk, <<>>)

\* variableAssignment(), for the name the parser has just passed.
Assignment(p, c) ==
  Continue(consumeIf(p, {"TK_ASSIGNMENT"}), c,
           <<Expression, [Task("set") EXCEPT !.name = p.previous.text]>>)

VariableDeclaration ==
  /\ Declaration({"TK_VAR"})
  /\ LET p == consumeIf(advanceParser(SkipNewlines(parser)), {"TK_IDENTIFIER"})
         c == Write(chunk, Named("OP_DEF_VARIABLE", p.previous.text))
     IN  IF Check(p, {"TK_ASSIGNMENT"}) THEN Assignment(p, c) ELSE Continue(p, c, <<>>)

\* Mutant: a name that no assignment follows is taken for a function.
NamedStatement_CallsAnyName ==
  /\ Declaration({"TK_IDENTIFIER"})
  /\ LET p == advanceParser(SkipNewlines(parser))
     IN  IF Check(p, {"TK_ASSIGNMENT"})
           THEN Assignment(p, chunk)
           ELSE Continue(p, Write(chunk, Named("OP_FUNCTION_CALL", p.previous.text)), <<>>)

NamedStatement ==
  /\ Declaration({"TK_IDENTIFIER"})
  /\ LET p == advanceParser(SkipNewlines(parser))
     IN  IF p.previous.text \in registry
           THEN Continue(p, Write(chunk, Named("OP_FUNCTION_CALL", p.previous.text)), <<>>)
           ELSE Assignment(p, chunk)

OtherStatement ==
  /\ Declaration(token_t \ {"TK_EOF", "TK_VAR", "TK_IDENTIFIER"})
  /\ Continue(SkipNewlines(parser), chunk, <<Task("statement")>>)

\* The end of variableAssignment() and of expressionStatement().
SetVariable ==
  /\ Doing("set")
  /\ Continue(consumeIf(parser, Terminators),
              Write(chunk, Named("OP_SET_VARIABLE", Now.name)), <<>>)

\* Mutant: the value of the expression stays on the stack.
PopValue_KeepsValue ==
  /\ Doing("pop")
  /\ Continue(consumeIf(parser, Terminators), chunk, <<>>)

PopValue ==
  /\ Doing("pop")
  /\ Continue(consumeIf(parser, Terminators), Write(chunk, Simple("OP_POP")), <<>>)

-----------------------------------------------------------------------------
(* statement() and block() *)

Keyword(type, tasks) ==
  /\ Doing("statement")
  /\ Check(parser, {type})
  /\ Continue(advanceParser(parser), chunk, tasks \o <<Task("newlines")>>)

IfStatement == Keyword("TK_IF", <<Expression, Task("then")>>)
WhileStatement == Keyword("TK_WHILE", <<Expression, [Task("body") EXCEPT !.n = chunk.size]>>)
PrintStatement == Keyword("TK_PRINT", <<Expression, Task("print")>>)
BlockStatement == Keyword("TK_BRACE_OPEN", <<Task("block")>>)

ExpressionStatement ==
  /\ Doing("statement")
  /\ ~Check(parser, {"TK_IF", "TK_WHILE", "TK_PRINT", "TK_BRACE_OPEN", "TK_DEC_FUNCTION"})
  /\ Continue(parser, chunk, <<Expression, Task("pop"), Task("newlines")>>)

Newlines == Doing("newlines") /\ Continue(SkipNewlines(parser), chunk, <<>>)

Then ==
  /\ Doing("then")
  /\ Continue(parser, Write(chunk, Literal("OP_JUMP_IF_FALSE", Unpatched)),
              <<Task("statement"), At("else", chunk.size)>>)

\* With an else, the jump over the first branch lands behind the jump that ends it.
Else ==
  /\ Doing("else")
  /\ LET c == IF Check(parser, {"TK_ELSE"})
                THEN Write(chunk, Literal("OP_JUMP", Unpatched))
                ELSE chunk
     IN  /\ Distance(c, Now.at) <= JumpMax
         /\ IF Check(parser, {"TK_ELSE"})
              THEN Continue(advanceParser(parser), patchJump(c, Now.at),
                            <<Task("statement"), At("patch", chunk.size)>>)
              ELSE Continue(parser, patchJump(c, Now.at), <<>>)

PatchJump ==
  /\ Doing("patch")
  /\ Distance(chunk, Now.at) <= JumpMax
  /\ Continue(parser, patchJump(chunk, Now.at), <<>>)

LoopBody ==
  /\ Doing("body")
  /\ Continue(parser, Write(chunk, Literal("OP_JUMP_IF_FALSE", Unpatched)),
              <<Task("statement"), [At("loop", chunk.size) EXCEPT !.n = Now.n]>>)

Loop ==
  /\ Doing("loop")
  /\ LET c == emitLoop(chunk, Now.n)
     IN  /\ Distance(chunk, Now.n) <= JumpMax
         /\ Distance(c, Now.at) <= JumpMax
         /\ Continue(parser, patchJump(c, Now.at), <<>>)

PrintValue == Doing("print") /\ Continue(parser, Write(chunk, Simple("OP_PRINT")), <<>>)

Block ==
  /\ Doing("block")
  /\ Continue(SkipNewlines(parser), Write(chunk, Simple("OP_ENTER_SCOPE")), <<Task("blockLoop")>>)

\* Mutant: only a brace ends a block.
BlockLoop_IgnoresEnd ==
  /\ Doing("blockLoop")
  /\ ~Check(parser, {"TK_BRACE_CLOSE"})
  /\ Continue(parser, chunk, <<Task("declaration"), Task("blockLoop")>>)

BlockLoop ==
  /\ Doing("blockLoop")
  /\ ~Check(parser, {"TK_BRACE_CLOSE", "TK_EOF"})
  /\ Continue(parser, chunk, <<Task("declaration"), Task("blockLoop")>>)

\* Mutant: the scope is only left at a brace.
EndBlock_ExitsAtBrace ==
  /\ Doing("blockLoop")
  /\ Check(parser, {"TK_BRACE_CLOSE", "TK_EOF"})
  /\ Continue(SkipNewlines(consumeIf(parser, {"TK_BRACE_CLOSE"})),
              IF Check(parser, {"TK_EOF"}) THEN chunk ELSE Write(chunk, Simple("OP_EXIT_SCOPE")),
              <<>>)

EndBlock ==
  /\ Doing("blockLoop")
  /\ Check(parser, {"TK_BRACE_CLOSE", "TK_EOF"})
  /\ Continue(SkipNewlines(consumeIf(parser, {"TK_BRACE_CLOSE"})),
              Write(chunk, Simple("OP_EXIT_SCOPE")), <<>>)

-----------------------------------------------------------------------------
(* Expressions: parsePrecedence() *)

\* Mutant: an operator without a left operand is left for the rest of the expression.
PrefixRule_SparesOperators ==
  /\ Doing("prefix")
  /\ ~Check(parser, UnruledTypes)
  /\ LET p == advanceParser(parser)
         t == p.previous
         infix == Infix(Now.n)
     IN  \/ /\ t.type \in OperandTypes
            /\ Continue(p, Write(chunk, OperandCode(t)), <<infix>>)
         \/ /\ t.type = "TK_PAREN_OPEN"
            /\ Continue(p, chunk, <<Expression, Task("close"), infix>>)
         \/ /\ t.type \in PrefixOperators
            /\ Continue(p, chunk, <<Prefix(PREC_UNARY), Operator("unary", t.type), infix>>)
         \/ /\ t.type \notin PrefixTypes
            /\ Continue(IF PrecedenceOf(t.type) > PREC_NONE THEN parser ELSE p, chunk, <<>>)

\* A token without a prefix rule is passed over, and hadError stays as it is.
PrefixRule ==
  /\ Doing("prefix")
  /\ ~Check(parser, UnruledTypes)
  /\ LET p == advanceParser(parser)
         t == p.previous
         infix == Infix(Now.n)
     IN  \/ /\ t.type \in OperandTypes
            /\ Continue(p, Write(chunk, OperandCode(t)), <<infix>>)
         \/ /\ t.type = "TK_PAREN_OPEN"
            /\ Continue(p, chunk, <<Expression, Task("close"), infix>>)
         \/ /\ t.type \in PrefixOperators
            /\ Continue(p, chunk, <<Prefix(PREC_UNARY), Operator("unary", t.type), infix>>)
         \/ /\ t.type \notin PrefixTypes
            /\ Continue(p, chunk, <<>>)

\* Mutant: an operator takes an operand of its own precedence on its right.
InfixRule_RightAssociative ==
  /\ Doing("infix")
  /\ ~Check(parser, UnruledTypes)
  /\ LET type == Current(parser).type
     IN  \/ /\ Now.n <= PrecedenceOf(type)
            /\ Continue(advanceParser(parser), chunk,
                        <<Prefix(PrecedenceOf(type)), Operator("binary", type), Now>>)
         \/ /\ Now.n > PrecedenceOf(type)
            /\ Continue(parser, chunk, <<>>)

InfixRule ==
  /\ Doing("infix")
  /\ ~Check(parser, UnruledTypes)
  /\ LET type == Current(parser).type
     IN  \/ /\ Now.n <= PrecedenceOf(type)
            /\ Continue(advanceParser(parser), chunk,
                        <<Prefix(PrecedenceOf(type) + 1), Operator("binary", type), Now>>)
         \/ /\ Now.n > PrecedenceOf(type)
            /\ Continue(parser, chunk, <<>>)

Close == Doing("close") /\ Continue(consumeIf(parser, {"TK_PAREN_CLOSE"}), chunk, <<>>)
Unary == Doing("unary") /\ Continue(parser, Write(chunk, UnaryCode(Now.type)), <<>>)
Binary == Doing("binary") /\ Continue(parser, WriteAll(chunk, BinaryCode(Now.type)), <<>>)

\* rules[] ends with TK_XOR; a later token reads behind it.
WildRule ==
  /\ Doing("prefix") \/ Doing("infix")
  /\ Check(parser, UnruledTypes)
  /\ Stop("wild_rule")

-----------------------------------------------------------------------------
(* functionDefinition() *)

\* The name is whatever token follows, and is known before the body is read.
FunctionName ==
  /\ Doing("statement")
  /\ Check(parser, {"TK_DEC_FUNCTION"})
  /\ LET p == advanceParser(advanceParser(parser))
     IN  /\ parser' = p
         /\ registry' = registry \cup {p.previous.text}
         /\ agenda' = <<[Task("params") EXCEPT !.name = p.previous.text], Task("newlines")>>
                        \o Tail(agenda)
  /\ UNCHANGED <<source, chunk, status>>

\* The types a header stores: the other tokens are passed over, and counted.
StoredTypes == {"TK_TYPE_NUMBER", "TK_TYPE_BOOLEAN", "TK_TYPE_STRING"}
InParameters ==
  Doing("params") /\ ~Check(parser, {"TK_BRACE_OPEN", "TK_PARAMETER_LIST_SEPARATOR"})
InReturnTypes == Doing("returns") /\ ~Check(parser, {"TK_BRACE_OPEN"})

\* Both loops only end at an opening brace, or at the separator.  At a token the lexer
\* repeats for ever they store nothing and count on, and compile() never returns.
AtLast == parser.pos = Len(source)
Counting == (InParameters \/ InReturnTypes) /\ AtLast
CountOn == Counting /\ UNCHANGED vars

\* Each array holds ParamMax entries; the turn stores one behind its end.
Overruns ==
  \/ /\ InParameters
     /\ Len(Now.params) >= ParamMax
     /\ Check(parser, StoredTypes) \/ Check(advanceParser(parser), {"TK_IDENTIFIER"})
  \/ InReturnTypes /\ Now.rets >= ParamMax /\ Check(parser, StoredTypes)

\* One turn: two tokens, a name if the second is one.
Parameter ==
  /\ InParameters
  /\ ~AtLast
  /\ ~Overruns
  /\ LET p == advanceParser(parser)
         name == IF Check(p, {"TK_IDENTIFIER"}) THEN Current(p).text ELSE ""
     IN  Continue(advanceParser(p), chunk, <<[Now EXCEPT !.params = Append(@, name)]>>)

EndParameters ==
  /\ Doing("params")
  /\ Check(parser, {"TK_BRACE_OPEN", "TK_PARAMETER_LIST_SEPARATOR"})
  /\ IF Check(parser, {"TK_PARAMETER_LIST_SEPARATOR"})
       THEN Continue(advanceParser(parser), chunk, <<[Now EXCEPT !.do = "returns"]>>)
       ELSE Continue(parser, chunk, <<[Now EXCEPT !.do = "header"]>>)

ReturnType ==
  /\ InReturnTypes
  /\ ~AtLast
  /\ ~Overruns
  /\ Continue(advanceParser(parser), chunk, <<[Now EXCEPT !.rets = @ + 1]>>)

EndReturnTypes ==
  /\ Doing("returns")
  /\ Check(parser, {"TK_BRACE_OPEN"})
  /\ Continue(parser, chunk, <<[Now EXCEPT !.do = "header"]>>)

\* What was counted is written: the types of all parameters, their names, the return types.
Unnamed == \E k \in 1 .. Len(Now.params) : Now.params[k] = ""
Overread == Len(Now.params) > ParamMax \/ (~Unnamed /\ Now.rets > ParamMax)
Miscounted == Len(Now.params) >= ParamMax \/ Now.rets >= ParamMax

\* A type is written or read behind the end of its array.
Overrun == (Overruns \/ (Doing("header") /\ Overread)) /\ Stop("overrun")

FunctionHeader ==
  /\ Doing("header")
  /\ ~Unnamed
  /\ ~Miscounted
  /\ Continue(consumeIf(parser, {"TK_BRACE_OPEN"}),
              Write(chunk, Header(Now.name, Now.params, Now.rets, Unpatched)),
              <<Task("block"), At("endFunction", chunk.size)>>)

\* emitString() of a pointer that was never set.
WildName == Doing("header") /\ Unnamed /\ ~Overread /\ Stop("wild_name")

\* ParamMax names are written, and their number as a byte that says none.
Misencoded ==
  Doing("header") /\ ~Unnamed /\ Miscounted /\ ~Overread /\ Stop("misencoded")

\* Mutant: the length counts the opcode of the header.
EndFunction_CountsOpcode ==
  /\ Doing("endFunction")
  /\ LET c == Write(chunk, Simple("OP_RETURN"))
         bodyLength == Distance(c, Now.at)
     IN  /\ bodyLength <= JumpMax
         /\ Continue(parser, Patch(c, Now.at, bodyLength), <<>>)

EndFunction ==
  /\ Doing("endFunction")
  /\ LET c == Write(chunk, Simple("OP_RETURN"))
         bodyLength == Distance(c, Now.at + 1)
     IN  /\ bodyLength <= JumpMax
         /\ Continue(parser, Patch(c, Now.at, bodyLength), <<>>)

-----------------------------------------------------------------------------
(* The process stops *)

\* "Cannot jump; too many instructions." and "Function body is too large!"
TooFar ==
  /\ \/ /\ Doing("else")
        /\ LET room == IF Check(parser, {"TK_ELSE"}) THEN Width(Simple("OP_JUMP")) ELSE 0
           IN  Distance(chunk, Now.at) + room > JumpMax
     \/ Doing("patch") /\ Distance(chunk, Now.at) > JumpMax
     \/ /\ Doing("loop")
        /\ \/ Distance(chunk, Now.n) > JumpMax
           \/ Distance(emitLoop(chunk, Now.n), Now.at) > JumpMax
     \/ Doing("endFunction") /\ Distance(chunk, Now.at) > JumpMax
  /\ Stop("too_far")

OutOfMemory == status = "compiling" /\ chunk.size > MaxCode /\ Stop("out_of_memory")

-----------------------------------------------------------------------------
Step ==
  \/ Program \/ EndCompiler
  \/ EndOfFile \/ VariableDeclaration \/ NamedStatement \/ OtherStatement
  \/ SetVariable \/ PopValue
  \/ IfStatement \/ WhileStatement \/ PrintStatement \/ BlockStatement \/ ExpressionStatement
  \/ Newlines \/ Then \/ Else \/ PatchJump \/ LoopBody \/ Loop \/ PrintValue
  \/ Block \/ BlockLoop \/ EndBlock
  \/ PrefixRule \/ InfixRule \/ Close \/ Unary \/ Binary \/ WildRule
  \/ FunctionName \/ Parameter \/ EndParameters \/ ReturnType \/ EndReturnTypes
  \/ Overrun \/ FunctionHeader \/ WildName \/ Misencoded \/ EndFunction
  \/ TooFar \/ OutOfMemory

\* compile() has returned, or the process has stopped.
Rest == status # "compiling" /\ UNCHANGED vars

Next == Step \/ CountOn \/ Rest

\* Nothing but the compiler runs until it returns.
Spec == Init /\ [][Next]_vars /\ WF_vars(Step)

-----------------------------------------------------------------------------
(* Properties, for every sequence of tokens *)

Writing == status \in {"compiling", "done"}

\* The offsets some function on the C stack has yet to patch.
Patchers == {"else", "patch", "loop", "endFunction"}
Waiting == {k \in 1 .. Len(agenda) : agenda[k].do \in Patchers}
Blanks == {o \in Starts(chunk) : /\ chunk.code[o].op \in JumpOps \cup {"OP_DEC_FUNCTION"}
                                /\ chunk.code[o].n = Unpatched}
Landing(o) ==
  IF chunk.code[o].op = "OP_DEC_FUNCTION" THEN AfterBody(o, chunk.code[o])
                                          ELSE JumpTarget(o, chunk.code[o])

\* Every jump and every function header is patched by exactly one function of the
\* descent, whatever errors there are in between, and then leads to the start of
\* an instruction: one already written, or the next one to be.
JumpsLand ==
  Writing =>
    /\ Blanks = {agenda[k].at : k \in Waiting}
    /\ \A j, k \in Waiting : agenda[j].at = agenda[k].at => j = k
    /\ \A o \in Starts(chunk) \ Blanks :
         chunk.code[o].op \in JumpOps \cup {"OP_DEC_FUNCTION"} =>
           Landing(o) \in Starts(chunk) \cup (IF status = "done" THEN {} ELSE {chunk.size})

\* What comes out of compile() is scope-safe, however broken the source: missing
\* braces, stray tokens and failed expressions never unbalance the scopes.
ScopesClose == status = "done" => ScopeSafe(chunk)

\* A call is only compiled after the header of a function of that name.
CallsFollowHeaders ==
  Writing => \A o \in Starts(chunk) : chunk.code[o].op = "OP_FUNCTION_CALL" =>
               \E h \in Headers(chunk) : h < o /\ chunk.code[h].name = chunk.code[o].name

\* A unit holds every instruction but a header; memory for four of them a token is enough
\* for every source that ends.
Unit == 9 + NameBytes
RoomFor(s) == s[Len(s)].type = "TK_EOF" => Unit * (4 * Len(s)) <= MaxCode
SourcesFit == \A s \in Sources : RoomFor(s)

\* The chunk of a source that ends stays in proportion to it.
Proportionate == source[Len(source)].type = "TK_EOF" => chunk.size <= Unit * (4 * Len(source))

\* Memory only runs out when the lexer repeats an error for ever; an unclosed
\* block, condition or function stops at the end of the source, and no sequence
\* of errors on the way writes more than four units a token.
OnlyErrorsExhaust ==
  /\ status = "out_of_memory" => source[Len(source)].type = "TK_ERROR"
  /\ Proportionate

\* compile() comes to an end for every source, or hangs in one place: in a function header
\* that meets the end of the source, or an error the lexer cannot pass, it counts parameters
\* or return types for ever.  Blocks, conditions, statements and expressions always go on.
CompilationEnds == <>(status # "compiling" \/ Counting)
=============================================================================
