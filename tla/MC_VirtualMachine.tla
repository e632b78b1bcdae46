------------------------- MODULE MC_VirtualMachine -------------------------
(***************************************************************************)
(* Programs for the virtual machine, as the compiler lays them out.        *)
(***************************************************************************)
EXTENDS VirtualMachine
Seqs == INSTANCE SequencesExt

Bytes(s) == Seqs!FoldLeft(LAMBDA n, i : n + Width(i), 0, s)

Num(n) == <<Literal("OP_NUMBER", n)>>
Str(n) == <<Literal("OP_STRING", n)>>
Op(op) == <<Simple(op)>>
Get(x) == <<Named("OP_GET_VARIABLE", x)>>
Def(x) == <<Named("OP_DEF_VARIABLE", x)>>
Set(x, e) == e \o <<Named("OP_SET_VARIABLE", x)>>
Var(x, e) == Def(x) \o Set(x, e)
Bin(op, a, b) == a \o b \o Op(op)
Say(e) == e \o Op("OP_PRINT")
Do(e) == e \o Op("OP_POP")
Block(b) == Op("OP_ENTER_SCOPE") \o b \o Op("OP_EXIT_SCOPE")
If(c, b) == c \o <<Literal("OP_JUMP_IF_FALSE", 3 + Bytes(b))>> \o b
IfElse(c, a, b) ==
  c \o <<Literal("OP_JUMP_IF_FALSE", 6 + Bytes(a))>> \o a
    \o <<Literal("OP_JUMP", 3 + Bytes(b))>> \o b
While(c, b) ==
  c \o <<Literal("OP_JUMP_IF_FALSE", 6 + Bytes(b))>> \o b
    \o <<Literal("OP_LOOP", Bytes(c) + 3 + Bytes(b))>>
Func(f, params, rets, b) ==
  LET body == Block(b) \o Op("OP_RETURN")
  IN  <<Header(f, params, rets, Width(Header(f, params, rets, 0)) - 1 + Bytes(body))>> \o body
Call(f, args) == <<Named("OP_FUNCTION_CALL", f)>> \o args
Program(s) == Assemble(s \o Op("OP_RETURN"))

True == Op("OP_TRUE")
False == Op("OP_FALSE")

-----------------------------------------------------------------------------
Shadow == Program(Var("x", Num(1)) \o Block(Var("x", Num(2)) \o Say(Get("x"))) \o Say(Get("x")))
Nested == Program(Block(Var("x", Str(1)) \o Block(Set("y", Bin("OP_ADD", Get("x"), Str(2))) \o Say(Get("y"))))
                  \o Block(Say(Get("y"))))
Loops == Program(Var("x", Num(0))
                 \o While(Bin("OP_LESSER", Get("x"), Num(2)),
                          Block(Set("x", Bin("OP_ADD", Get("x"), Num(1))) \o Def("y")))
                 \o IfElse(Bin("OP_EQUALS", Get("x"), Num(2)), Block(Say(True)), Block(Say(False))))
Branches == Program(If(Bin("OP_AND", Get("x"), True), Block(Func("f", <<>>, 0, Say(Num(1)))))
                    \o Call("f", <<>>))
Mixed == Program(Say(Bin("OP_ADD", Num(1), Bin("OP_ADD", Num(1), Str(1)))))
MixedPop == Program(Block(Do(Bin("OP_ADD", Get("x"), Num(1)))))
WildNegate == Program(Do(Str(1) \o Op("OP_NEGATE")) \o Say(Str(1) \o Op("OP_NOT")))
Unary == Program(Do(Num(1) \o Op("OP_NEGATE")) \o Do(True \o Op("OP_NOT"))
                 \o Do(Bin("OP_SUBTRACT", Num(1), True)) \o Def("x") \o Do(Get("x") \o Op("OP_NOT")))
Logic == Program(If(Bin("OP_XOR", Bin("OP_OR", False, Num(1)), False), Say(Bin("OP_DIVIDE", Num(1), Num(0)))))
Functions == Program(Func("f", <<"x", "y">>, 1, Var("z", Get("x")) \o Set("y", Num(3)) \o Say(Get("y")))
                     \o Var("x", Num(1))
                     \o Block(Call("f", Do(Bin("OP_ADD", Num(2), Get("x")))))
                     \o Call("f", Do(Bin("OP_EQUALS", Get("x"), Str(1)))))
Higher == Program(Func("f", <<"x">>, 0, Say(Get("x")))
                  \o Func("g", <<"x">>, 0, Call("f", Do(Get("x"))))
                  \o Call("g", Do(Num(2))) \o Call("g", Do(Get("z"))))
Recursive == Program(Func("f", <<"x">>, 0, Call("f", Do(Get("x")))) \o Call("f", Do(Num(1))))
Deep == Program(Block(Block(Block(Block(Say(True))))))
Redefined == Program(Func("f", <<>>, 0, Say(Num(1))) \o Func("f", <<>>, 0, Say(Num(2))) \o Call("f", <<>>))

MCChunks == {Shadow, Nested, Loops, Branches, Mixed, MixedPop, WildNegate, Unary, Logic,
             Functions, Higher, Recursive, Redefined, Deep}
MCNames == {"", "f", "g", "x", "y", "z"}
=============================================================================
