------------------------------ MODULE Semantics ------------------------------
(***************************************************************************)
(* What a program does, told from its syntax tree alone: the value of an   *)
(* expression, and what a statement prints and binds.  There is no stack   *)
(* of values here, no jump and no address.  Phrase(tree) is how the tree   *)
(* is written in the language.                                             *)
(*                                                                         *)
(* Scoping is that of the machine: an assignment prefers the enclosing     *)
(* scopes, a function sees the scopes of its caller, and the argument of a *)
(* call is evaluated once more, as a statement, when the call returns.     *)
(***************************************************************************)
EXTENDS Language

-----------------------------------------------------------------------------
(* Trees *)

Node(kind, name, n, params, kids) ==
  [kind |-> kind, name |-> name, n |-> n, params |-> params, kids |-> kids]
Leaf(kind, name, n) == Node(kind, name, n, <<>>, <<>>)
Inner(kind, kids) == Node(kind, "", 0, <<>>, kids)
NamedNode(kind, name, kids) == Node(kind, name, 0, <<>>, kids)

\* The argument of a call, which must not begin with a name.
Argued(f, e, end) ==
  Phrase(<<Spelled("TK_IDENTIFIER", f)>> \o Evaluate(Parenthesized(e), end).text,
         CallWith(f, e).code)

RECURSIVE PhraseOf(_)
PhraseOf(t) ==
  LET Kid(k) == PhraseOf(t.kids[k])
      end == "TK_SEMICOLON"
  IN
  CASE t.kind = "num" -> Num(t.n)
    [] t.kind = "str" -> Str(t.n)
    [] t.kind = "true" -> True
    [] t.kind = "false" -> False
    [] t.kind = "var" -> Variable(t.name)
    [] t.kind = "neg" -> Negative(Kid(1))
    [] t.kind = "not" -> Not(Kid(1))
    [] t.kind \in OperatorTypes -> Binary(t.kind, Kid(1), Kid(2))
    [] t.kind = "print" -> PrintLine(Kid(1))
    [] t.kind = "eval" -> Evaluate(Kid(1), end)
    [] t.kind = "assign" -> Assign(t.name, Kid(1), end)
    [] t.kind = "define" -> Define(t.name, Kid(1), end)
    [] t.kind = "empty" -> Empty
    [] t.kind = "then" -> Then(Kid(1), Kid(2))
    [] t.kind = "block" -> Block(Kid(1))
    [] t.kind = "if" -> If(Kid(1), Kid(2))
    [] t.kind = "else" -> IfElse(Kid(1), Kid(2), Kid(3))
    [] t.kind = "while" -> While(Kid(1), Kid(2))
    [] t.kind = "func" -> Function(t.name, t.params, 0, Kid(1))
    [] t.kind = "call" -> IF t.kids = <<>> THEN Call(t.name) ELSE Argued(t.name, Kid(1), end)

\* The same on one line: newlines are only needed where a semicolon would do.
OnOneLine(text) == SelectSeq(text, LAMBDA t : t.type # "TK_NEWLINE")

-----------------------------------------------------------------------------
(* Values *)

ANumber(n) == [type |-> "VAL_NUMBER", as |-> n, chars |-> <<>>]
ABoolean(b) == [type |-> "VAL_BOOLEAN", as |-> IF b THEN 1 ELSE 0, chars |-> <<>>]
AString(s) == [type |-> "VAL_OBJECT", as |-> 0, chars |-> s]
Nothing == [type |-> "VAL_NOT_VALUE", as |-> 0, chars |-> <<>>]   \* declared, never set
Holds(v) == v.as # 0

Result(op, v, w) ==
  CASE op = "TK_ADD" -> IF v.type = "VAL_NUMBER" THEN ANumber(v.as + w.as) ELSE AString(v.chars \o w.chars)
    [] op = "TK_SUB" -> ANumber(v.as - w.as)
    [] op = "TK_MULTIPLY" -> ANumber(v.as * w.as)
    [] op = "TK_EQUALITY" -> ABoolean(v = w /\ v # Nothing)
    [] op = "TK_INEQUALITY" -> ABoolean(v # w \/ v = Nothing)
    [] op = "TK_LESSER" -> ABoolean(v.as < w.as)
    [] op = "TK_GREATER" -> ABoolean(v.as > w.as)
    [] op = "TK_LESSER_EQUAL" -> ABoolean(v.as <= w.as)
    [] op = "TK_GREATER_EQUAL" -> ABoolean(v.as >= w.as)
    [] op = "TK_AND" -> ABoolean(Holds(v) /\ Holds(w))
    [] op = "TK_OR" -> ABoolean(Holds(v) \/ Holds(w))
    [] op = "TK_XOR" -> ABoolean(Holds(v) # Holds(w))

-----------------------------------------------------------------------------
(* Scopes: one table of names for each, the innermost last *)

NoNames == [x \in {} |-> ANumber(0)]
Innermost(levels) == CHOOSE l \in levels : \A k \in levels : k <= l
Knowing(scopes, x) == {l \in 1 .. Len(scopes) : x \in DOMAIN scopes[l]}

With(table, x, v) == [y \in DOMAIN table \cup {x} |-> IF y = x THEN v ELSE table[y]]
ValueIn(scopes, x) == scopes[Innermost(Knowing(scopes, x))][x]
Store(scopes, x, v) ==
  LET enclosing == Knowing(scopes, x) \ {Len(scopes)}
      l == IF enclosing = {} THEN Len(scopes) ELSE Innermost(enclosing)
  IN  [scopes EXCEPT ![l] = With(@, x, v)]
Outer(scopes) == SubSeq(scopes, 1, Len(scopes) - 1)

RECURSIVE Eval(_, _)
Eval(e, scopes) ==
  CASE e.kind = "num" -> ANumber(e.n)
    [] e.kind = "str" -> AString(<<e.n>>)
    [] e.kind \in {"true", "false"} -> ABoolean(e.kind = "true")
    [] e.kind = "var" -> ValueIn(scopes, e.name)
    [] e.kind = "neg" -> ANumber(-Eval(e.kids[1], scopes).as)
    [] e.kind = "not" -> ABoolean(~Holds(Eval(e.kids[1], scopes)))
    [] OTHER -> Result(e.kind, Eval(e.kids[1], scopes), Eval(e.kids[2], scopes))

-----------------------------------------------------------------------------
(* Statements: st has the scopes, what was printed, the functions of the   *)
(* program by name, and whether values of statements are shown.            *)

Say(st, v) == [st EXCEPT !.printed = Append(@, v)]

RECURSIVE Exec(_, _)
Exec(s, st) ==
  LET value == Eval(s.kids[1], st.scopes)
      InScope(body, table, from) ==
        LET after == Exec(body, [from EXCEPT !.scopes = Append(@, table)])
        IN  [after EXCEPT !.scopes = Outer(@)]
  IN
  CASE s.kind = "print" -> Say(st, value)
    [] s.kind = "eval" -> IF st.shows THEN Say(st, value) ELSE st
    [] s.kind = "assign" -> [st EXCEPT !.scopes = Store(@, s.name, value)]
    [] s.kind = "define" ->
         LET declared == [st EXCEPT !.scopes[Len(st.scopes)] = With(@, s.name, Nothing)]
         IN  [declared EXCEPT !.scopes = Store(@, s.name, Eval(s.kids[1], declared.scopes))]
    [] s.kind = "empty" -> st
    [] s.kind = "then" -> Exec(s.kids[2], Exec(s.kids[1], st))
    [] s.kind = "block" -> InScope(s.kids[1], NoNames, st)
    [] s.kind = "if" -> IF Holds(value) THEN Exec(s.kids[2], st) ELSE st
    [] s.kind = "else" -> Exec(s.kids[IF Holds(value) THEN 2 ELSE 3], st)
    [] s.kind = "while" -> IF Holds(value) THEN Exec(s, Exec(s.kids[2], st)) ELSE st
    [] s.kind = "func" ->
         IF s.name \in DOMAIN st.functions THEN st
         ELSE [st EXCEPT !.functions = With(@, s.name, s)]
    [] s.kind = "call" ->
         LET f == st.functions[s.name]
             args == IF s.kids = <<>> THEN NoNames ELSE With(NoNames, f.params[1], value)
             back == InScope(f.kids[1], args, st)
         IN  IF s.kids = <<>> \/ ~st.shows THEN back
             ELSE Say(back, Eval(s.kids[1], back.scopes))

Fresh(shows) == [scopes |-> <<NoNames>>, printed |-> <<>>, functions |-> NoNames, shows |-> shows]

\* The lines one after the other; functions are those of one line.
RECURSIVE RunLines(_, _)
RunLines(trees, shows) ==
  IF trees = <<>> THEN Fresh(shows)
  ELSE LET before == RunLines(SubSeq(trees, 1, Len(trees) - 1), shows)
       IN  Exec(trees[Len(trees)], [before EXCEPT !.functions = NoNames])
=============================================================================
