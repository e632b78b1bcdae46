----------------------------- MODULE Translation ----------------------------
(***************************************************************************)
(* The compiler of compiler.c against the language it compiles: on the     *)
(* text of a program it must arrive at the program's meaning.              *)
(***************************************************************************)
EXTENDS Compiler

CONSTANT Programs   \* programs of the module Language; their texts are among the sources

Texts == {p.text : p \in Programs}
\* No text is that of two programs.
ASSUME ProgramsAssumption == Texts \subseteq Sources /\ Cardinality(Texts) = Cardinality(Programs)

Translations == {<<p.text, Assemble(p.code)>> : p \in Programs}

\* compile() turns the text of a program into its meaning: operands, operators,
\* conditions, loops, scopes and function bodies in the order and at the distances
\* that the phrase asks for, without an error, without stopping the process, without counting
\* for ever in a header and without reading what is not there.  How tightly the operators bind, the language does not say
\* of itself: it is what the Programs were written with.  With the levels of the enumeration
\* Precedence this says that one pass with two precedences to compare builds the tree of
\* them; with the levels of the manual it says that the compiler keeps to the manual.
FollowsLanguage ==
  (status # "compiling" \/ Counting) /\ source \in Texts =>
    status = "done" /\ <<source, chunk>> \in Translations /\ ~parser.hadError

\* What the virtual machine relies on holds for the chunk of every program: the
\* scopes are balanced and so is the value stack, on every path through it.
ProgramsAreWellFormed == status = "done" /\ source \in Texts => WellFormed(chunk)
=============================================================================
