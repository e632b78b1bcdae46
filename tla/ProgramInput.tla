---------------------------- MODULE ProgramInput ----------------------------
(***************************************************************************)
(* main(): the loop over the command line, which looks for its options in  *)
(* one fixed order, and the modes that follow from what it found.          *)
(***************************************************************************)
EXTENDS Integers, Sequences, FiniteSets

CONSTANTS
  Files,         \* names of files there are
  Missing,       \* names of files there are not, and words that are no option
  None,          \* NULL
  CommandLines,  \* bound: sequences of arguments
  Choices        \* bound: command lines written in the order of the checks

Checks == <<"-l", "-c", "-o", "-d", "-D", "-s", "file">>
ModeOf == [o \in {"-l", "-c", "-d", "-D", "file"} |->
             CASE o = "-l" -> "Lexing"
               [] o = "-c" -> "Compilation"
               [] o = "-d" -> "CompAndDisassemble"
               [] o = "-D" -> "Disassembly"
               [] o = "file" -> "Interpret"]
Modes == {ModeOf[o] : o \in DOMAIN ModeOf} \cup {"Repl"}
Named == {"-l", "-c", "-o", "-d", "-D"}   \* the options a file follows
Options == {Checks[k] : k \in 1 .. 6}
Names == Files \cup Missing \cup Options
DefaultOut == "a.bro"

ASSUME NamesAssumption == None \notin Names \cup Modes
ASSUME CommandLinesAssumption == \A line \in CommandLines : line \in Seq(Names)
\* A choice has a file for each of its options, also for -s, where it is not used; an
\* operand with the name of an option would be one.
ASSUME ChoicesAssumption ==
  \A c \in Choices :
    /\ DOMAIN c \subseteq Options \cup {"file"}
    /\ \A o \in DOMAIN c : c[o] \in Files
    /\ "file" \in DOMAIN c => c["file"] \notin Options

VARIABLES
  choice,  \* what was meant by the command line, if it is in order
  argv,    \* the arguments still to be read; argc is their number
  check,   \* the comparison the loop stands at, 8 at its end
  pinput,  \* what was found
  phase,   \* "arguments", "lexing", "modes", "ended"
  work,    \* what was done, and with which files
  status   \* "none", "success", "failure", or "wild" after undefined behaviour

vars == <<choice, argv, check, pinput, phase, work, status>>

-----------------------------------------------------------------------------
\* The command line of a choice of options with their files.
Words(c, o) ==
  IF o \notin DOMAIN c THEN << >>
  ELSE CASE o \in Named -> <<o, c[o]>> [] o = "-s" -> <<o>> [] o = "file" -> <<c[o]>>
Written(c) ==
  Words(c, "-l") \o Words(c, "-c") \o Words(c, "-o") \o Words(c, "-d") \o Words(c, "-D")
    \o Words(c, "-s") \o Words(c, "file")

Nothing == [modes |-> {}, silent |-> FALSE, infile |-> None, outfile |-> None]

Init ==
  /\ \/ choice = None /\ argv \in CommandLines
     \/ choice \in Choices /\ argv = Written(choice)
  /\ check = 1
  /\ pinput = IF argv = << >> THEN [Nothing EXCEPT !.modes = {"Repl"}] ELSE Nothing
  /\ phase = IF argv = << >> THEN "lexing" ELSE "arguments"
  /\ work = << >> /\ status = "none"

-----------------------------------------------------------------------------
(* The arguments *)

\* argv[0] is the option of the check; at the last check, whatever is there.
Matches(o) == argv # << >> /\ o \in {Head(argv), "file"}
Found(o) == phase = "arguments" /\ check <= 7 /\ Checks[check] = o /\ Matches(o)

\* Mutant: every file that is named is one to read.
Noted_EachIsRead(o, name) ==
  IF o = "-o" THEN [pinput EXCEPT !.outfile = name, !.infile = name]
  ELSE [pinput EXCEPT !.modes = @ \cup {ModeOf[o]}, !.infile = name]

Noted(o, name) ==
  IF o = "-o" THEN [pinput EXCEPT !.outfile = name]
  ELSE [pinput EXCEPT !.modes = @ \cup {ModeOf[o]}, !.infile = name]

Skip ==
  /\ phase = "arguments" /\ check <= 7 /\ ~ Matches(Checks[check])
  /\ check' = check + 1
  /\ UNCHANGED <<choice, argv, pinput, phase, work, status>>

\* Mutant: the option takes the file and leaves it to be read again.
NamedFile_Kept(o) ==
  /\ o \in Named /\ Found(o) /\ Len(argv) > 1
  /\ argv' = Tail(argv) /\ pinput' = Noted(o, argv[2]) /\ check' = check + 1
  /\ UNCHANGED <<choice, phase, work, status>>

NamedFile(o) ==
  /\ o \in Named /\ Found(o) /\ Len(argv) > 1
  /\ argv' = Tail(Tail(argv)) /\ pinput' = Noted(o, argv[2]) /\ check' = check + 1
  /\ UNCHANGED <<choice, phase, work, status>>

\* Mutant: the mode is set before the file is looked for.
NoFile_ModeSet(o) ==
  /\ o \in Named /\ Found(o) /\ Len(argv) = 1
  /\ argv' = << >> /\ phase' = "lexing"
  /\ pinput' = Noted(o, pinput.infile)
  /\ UNCHANGED <<choice, check, work, status>>

\* The break: no file specified.
NoFile(o) ==
  /\ o \in Named /\ Found(o) /\ Len(argv) = 1
  /\ argv' = << >> /\ phase' = "lexing"
  /\ UNCHANGED <<choice, check, pinput, work, status>>

Silent ==
  /\ Found("-s")
  /\ argv' = Tail(argv) /\ pinput' = [pinput EXCEPT !.silent = TRUE] /\ check' = check + 1
  /\ UNCHANGED <<choice, phase, work, status>>

\* Mutant: the argument is not counted off.
Operand_Kept ==
  /\ Found("file")
  /\ pinput' = Noted("file", Head(argv)) /\ check' = check + 1
  /\ UNCHANGED <<choice, argv, phase, work, status>>

Operand ==
  /\ Found("file")
  /\ argv' = Tail(argv) /\ pinput' = Noted("file", Head(argv)) /\ check' = check + 1
  /\ UNCHANGED <<choice, phase, work, status>>

\* The condition of the while.
Again ==
  /\ phase = "arguments" /\ check = 8
  /\ IF argv # << >> THEN check' = 1 /\ UNCHANGED phase
     ELSE phase' = "lexing" /\ UNCHANGED check
  /\ UNCHANGED <<choice, argv, pinput, work, status>>

Arguments == Skip \/ (\E o \in Named : NamedFile(o) \/ NoFile(o)) \/ Silent \/ Operand \/ Again

-----------------------------------------------------------------------------
(* The modes *)

Wanted(mode) == mode \in pinput.modes
Done(mode) == Append(work, [mode |-> mode, file |-> pinput.infile, out |-> None])

End(w, s) == work' = w /\ status' = s /\ phase' = "ended" /\ UNCHANGED <<choice, argv, check, pinput>>

\* readFile: a missing name ends the program, a missing file is read all the same.
Unread ==
  IF pinput.infile = None THEN End(work, "failure")
  ELSE pinput.infile \notin Files /\ End(work, "wild")
Readable == pinput.infile \in Files

\* Listing the tokens does not end the program; for a text with an error that the lexer
\* cannot pass it does not end either (Settles of Lexer), and this step is never taken.
Lexing ==
  /\ phase = "lexing"
  /\ \/ /\ ~ Wanted("Lexing") \/ Readable
        /\ work' = IF Wanted("Lexing") THEN Done("Lexing") ELSE work
        /\ phase' = "modes"
        /\ UNCHANGED <<choice, argv, check, pinput, status>>
     \/ Wanted("Lexing") /\ ~ Readable /\ Unread

\* The mode main() comes to first.
First(modes) ==
  IF \E k \in DOMAIN modes : Wanted(modes[k])
  THEN modes[CHOOSE k \in DOMAIN modes : Wanted(modes[k]) /\ \A j \in 1 .. k - 1 : ~ Wanted(modes[j])]
  ELSE None

Mode == First(<<"Compilation", "Disassembly", "CompAndDisassemble", "Repl", "Interpret">>)

\* The object file is written whatever compile() says.
Compile ==
  /\ phase = "modes" /\ Mode = "Compilation"
  /\ \/ ~ Readable /\ Unread
     \/ /\ Readable
        /\ LET out == IF pinput.outfile = None THEN DefaultOut ELSE pinput.outfile
               all == Append(work, [mode |-> "Compilation", file |-> pinput.infile, out |-> out])
           IN  \E s \in {"success", "failure"} : End(all, s)

\* From a file, from source text, or to run: Interpreter has what comes of it.
Read(mode) ==
  /\ phase = "modes" /\ Mode = mode
  /\ \/ ~ Readable /\ Unread
     \/ Readable /\ End(Done(mode), "success")
     \/ Readable /\ mode # "Disassembly" /\ End(Done(mode), "failure")

Repl == phase = "modes" /\ Mode = "Repl" /\ End(Done("Repl"), "success")

NoMode == phase = "modes" /\ Mode = None /\ End(work, "success")

Ended == phase = "ended" /\ UNCHANGED vars

Next ==
  \/ Arguments \/ Lexing \/ Compile \/ Repl \/ NoMode \/ Ended
  \/ \E mode \in {"Disassembly", "CompAndDisassemble", "Interpret"} : Read(mode)

\* main() reads its arguments and waits for nobody.
Spec == Init /\ [][Next]_vars /\ WF_vars(Arguments)

-----------------------------------------------------------------------------
(* Properties *)

\* Whatever the arguments, also when they end behind an option, a mode that reads a file
\* has been given the name of one: readFile() and main() need not look for NULL.
ModesHaveFiles == pinput.modes \ {"Repl"} # {} => pinput.infile # None

\* The options that ask for something to be done with the file they name, and what they ask for.
Asking(c) == DOMAIN c \cap DOMAIN ModeOf
ModesNamed(c) == IF DOMAIN c = {} THEN {"Repl"} ELSE {ModeOf[o] : o \in Asking(c)}
OutNamed(c) == IF "-o" \in DOMAIN c THEN c["-o"] ELSE None

\* One thing, done with the file that is named behind it.
Order(c, o) ==
  [mode |-> ModeOf[o], file |-> c[o],
   out |-> IF o # "-c" THEN None ELSE IF "-o" \in DOMAIN c THEN c["-o"] ELSE DefaultOut]

\* A command line with its options in the order in which main() looks for them is read for
\* what it is, no option taken for a file and no file for an option: the modes that are set
\* are those that were named, and so are the object file and the silence.  If it asks for one
\* thing, that is done, with its file, and nothing else.  Of several modes main() carries out
\* one, after listing the tokens if it is to, and on the file that was named last: -c f -D g
\* compiles g and disassembles nothing.  All that is promised then is that what is done was
\* asked for, with a file that was named.
OrderedOptions ==
  (choice # None /\ phase = "ended") =>
    /\ status \in {"success", "failure"}
    /\ pinput.modes = ModesNamed(choice)
    /\ pinput.outfile = OutNamed(choice)
    /\ pinput.silent = ("-s" \in DOMAIN choice)
    /\ \A o \in Asking(choice) : Asking(choice) = {o} => work = <<Order(choice, o)>>
    /\ \A k \in DOMAIN work :
         /\ work[k].mode \in ModesNamed(choice)
         /\ work[k].file \in IF DOMAIN choice = {} THEN {None} ELSE {choice[o] : o \in Asking(choice)}

\* No word is read twice or left: the loop over the arguments comes to its end.
ArgumentsEnd == <>(phase # "arguments")
=============================================================================
