----------------------------- MODULE Interpreter -----------------------------
(***************************************************************************)
(* A session: lines from the prompt, or one script, each compiled into a   *)
(* chunk of its own and run.  Compiler and VirtualMachine with what main() *)
(* and interpret() do between them.                                        *)
(*                                                                         *)
(* The names registered by the compiler last for one line, the variables   *)
(* and declared functions of the machine for the session.                  *)
(***************************************************************************)
EXTENDS VirtualMachine, Tokens

CONSTANTS
  Sessions,    \* bound: the lines a session is typed from (sequences of tokens), and how many
  JumpMax, ParamMax, MaxCode,   \* of Compiler
  Programs,    \* the lines that are well-formed programs
  Delivered    \* the chunks of well-formed programs: see MachineGetsPrograms

\* What VirtualMachine and Compiler share is theirs under one name; what the machine may be
\* told to run by itself, Chunks, plays no part: Load tells it.
VARIABLES
  source, parser, agenda, compiled, registry, compiling,   \* Compiler, compiled its chunk
  entered                                                  \* history: the lines so far

Lines == UNION {s.lines : s \in Sessions}

C == INSTANCE Compiler WITH Sources <- {}, chunk <- compiled, status <- compiling

\* The lexer ends every line by the end of the text, or by an error it cannot pass.
ASSUME LinesAssumption == \A line \in Lines : C!Source(line)
ASSUME SessionAssumption ==
  "" \in Names /\ JumpMax \in Nat /\ ParamMax \in Nat \ {0} /\ MaxCode \in Nat
  /\ JumpMax < C!Unpatched

compilerVars == <<source, parser, agenda, compiled, registry, compiling>>
sessionVars == <<compilerVars, vars, entered>>

SessionInit ==
  /\ Init
  /\ source = <<Tk("TK_EOF")>>
  /\ parser = [pos |-> 1, previous |-> Tk("TK_ERROR"), hadError |-> FALSE]
  /\ agenda = <<>>
  /\ compiled = [code |-> [o \in {} |-> Simple("OP_RETURN")], size |-> 0]
  /\ registry = {}
  /\ compiling = "waiting"
  /\ entered = <<>>

\* The sessions looked at.
Typed(texts) ==
  \E s \in Sessions : Len(texts) <= s.count /\ \A k \in DOMAIN texts : texts[k] \in s.lines

OneLine(text) == \A k \in 1 .. Len(text) : text[k].type # "TK_NEWLINE"

\* Mutant: the chunk of the line before is written on.
Enter_KeepsChunk(line) ==
  /\ compiling = "waiting"
  /\ status \in {"idle", "ok"}
  /\ lines < MaxLines /\ Typed(Append(entered, line))
  /\ IF mode = "VM_MODE_STATIC" THEN lines = 0 ELSE OneLine(line)
  /\ source' = line
  /\ parser' = [pos |-> 1, previous |-> Tk("TK_ERROR"), hadError |-> line[1].type = "TK_ERROR"]
  /\ agenda' = <<C!Task("program")>>
  /\ registry' = {}
  /\ compiling' = "compiling"
  /\ entered' = Append(entered, line)
  /\ UNCHANGED <<vars, compiled>>

\* The prompt has a line, or main() has read the script: compile() begins with an empty
\* chunk and an empty registry.
Enter(line) ==
  /\ compiling = "waiting"
  /\ status \in {"idle", "ok"}
  /\ lines < MaxLines /\ Typed(Append(entered, line))
  /\ IF mode = "VM_MODE_STATIC" THEN lines = 0 ELSE OneLine(line)
  /\ source' = line
  /\ parser' = [pos |-> 1, previous |-> Tk("TK_ERROR"), hadError |-> line[1].type = "TK_ERROR"]
  /\ agenda' = <<C!Task("program")>>
  /\ compiled' = [code |-> [o \in {} |-> Simple("OP_RETURN")], size |-> 0]
  /\ registry' = {}
  /\ compiling' = "compiling"
  /\ entered' = Append(entered, line)
  /\ UNCHANGED vars

Compile == C!Step /\ UNCHANGED <<vars, entered>>

\* compile() has returned true, errors or not, and typecheck() does.
Load ==
  /\ compiling = "done"
  /\ Interpret(compiled)
  /\ compiling' = "waiting"
  /\ UNCHANGED <<source, parser, agenda, compiled, registry, entered>>

Run == Execute /\ UNCHANGED <<compilerVars, entered>>

\* compile() counts on at the end of a header, or run() looks up a name nobody has set.
Hanging == C!Counting \/ Spinning
Hang == Hanging /\ UNCHANGED sessionVars

\* The prompt waits, or the process has stopped.
SessionRest ==
  status # "running" /\ compiling \notin {"compiling", "done"} /\ UNCHANGED sessionVars

SessionNext == (\E line \in Lines : Enter(line)) \/ Compile \/ Load \/ Run \/ Hang \/ SessionRest

\* Only the user may be slow.
SessionSpec ==
  /\ SessionInit /\ [][SessionNext]_sessionVars
  /\ WF_sessionVars(Compile \/ Load) /\ WF_sessionVars(Run)

-----------------------------------------------------------------------------
(* Properties *)

AtPrompt == compiling = "waiting" /\ status \in {"idle", "ok"}
Stopped == status \in Faults \/ compiling \notin {"compiling", "done", "waiting"}

\* The machine is fed with the chunks of the programs and no others: nothing of an earlier
\* line is in them.  All of them are well formed, so that what is proved of VirtualMachine
\* holds in a session of programs.
MachineGetsPrograms ==
  status = "running" /\ (\A k \in DOMAIN entered : entered[k] \in Programs) => chunk \in Delivered

\* Whatever the line was, broken or not, if interpret() comes back it leaves no scope open,
\* no call unfinished and no name in the tables above the top scope: the next line starts
\* where a new session would, but for the global variables.
PromptIsClean ==
  AtPrompt =>
    /\ scopeLevel = 0 /\ callStack = <<>> /\ stack = <<>>
    /\ \A l \in 1 .. StackMax - 1 : DOMAIN tables[l] = {}

\* Every line whose loops end comes to an end itself: the prompt is back, or the process has
\* stopped.  Only two things keep the user waiting for ever: a function header the line does
\* not close, and at the top level the lookup of a variable that no line has set.
LineEnds ==
  (compiling = "compiling") ~>
    (AtPrompt \/ Stopped \/ Hanging)
=============================================================================
