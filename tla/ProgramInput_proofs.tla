------------------------ MODULE ProgramInput_proofs ------------------------
(***************************************************************************)
(* Proofs about the loop over the command line, for all sets of files and  *)
(* words and for command lines of every length.                            *)
(***************************************************************************)
EXTENDS ProgramInput, SequenceTheorems, TLAPS

Input == [modes : SUBSET Modes, silent : BOOLEAN, infile : Names \cup {None},
          outfile : Names \cup {None}]

TypeOK ==
  /\ argv \in Seq(Names)
  /\ check \in 1 .. 8
  /\ pinput \in Input
  /\ phase \in {"arguments", "lexing", "modes", "ended"}

\* The words of a choice that the checks from k on will find.
From7(c) == Words(c, "file")
From6(c) == Words(c, "-s") \o From7(c)
From5(c) == Words(c, "-D") \o From6(c)
From4(c) == Words(c, "-d") \o From5(c)
From3(c) == Words(c, "-o") \o From4(c)
From2(c) == Words(c, "-c") \o From3(c)
From1(c) == Words(c, "-l") \o From2(c)
From(c, k) ==
  CASE k = 1 -> From1(c) [] k = 2 -> From2(c) [] k = 3 -> From3(c) [] k = 4 -> From4(c)
    [] k = 5 -> From5(c) [] k = 6 -> From6(c) [] k = 7 -> From7(c) [] k = 8 -> << >>

\* The options of a choice that the checks before k have found, and the last file.
Seen(c, k) == {Checks[j] : j \in 1 .. k - 1} \cap DOMAIN c
Given(c, k) == {j \in {1, 2, 4, 5, 7} : j < k /\ Checks[j] \in DOMAIN c}
LastOf(c, given) ==
  IF given = {} THEN None
  ELSE c[Checks[CHOOSE j \in given : \A i \in given : i <= j]]
LastBefore(c, k) == LastOf(c, Given(c, k))

Expects(c, k, p) ==
  /\ p.modes = {ModeOf[o] : o \in Seen(c, k) \cap DOMAIN ModeOf}
  /\ p.silent <=> "-s" \in Seen(c, k)
  /\ p.infile = LastBefore(c, k)
  /\ p.outfile = IF "-o" \in Seen(c, k) THEN c["-o"] ELSE None

\* All the options have been found; without one, there is the prompt.
Meant(c) ==
  IF DOMAIN c = {} THEN pinput = [Nothing EXCEPT !.modes = {"Repl"}] ELSE Expects(c, 8, pinput)

\* The file main() works with is the one the last of the options, or the operand, names.
LastFile(c) ==
  LET given == {k \in {1, 2, 4, 5, 7} : Checks[k] \in DOMAIN c}
  IN  IF given = {} THEN None
      ELSE c[Checks[CHOOSE k \in given : \A j \in given : j <= k]]

\* What main() makes of it: a list of the tokens, and one more thing, compiling before
\* disassembling before interpreting.
Asked(c) ==
  LET asks(o) == o \in DOMAIN c
      file == LastFile(c)
      out == IF asks("-o") THEN c["-o"] ELSE DefaultOut
      plain(mode) == [mode |-> mode, file |-> file, out |-> None]
  IN  (IF asks("-l") THEN <<plain("Lexing")>> ELSE << >>) \o
      CASE DOMAIN c = {} -> <<plain("Repl")>>
        [] asks("-c") -> <<[mode |-> "Compilation", file |-> file, out |-> out]>>
        [] ~ asks("-c") /\ asks("-D") -> <<plain("Disassembly")>>
        [] ~ asks("-c") /\ ~ asks("-D") /\ asks("-d") -> <<plain("CompAndDisassemble")>>
        [] DOMAIN c \cap {"-c", "-D", "-d"} = {} /\ asks("file") -> <<plain("Interpret")>>
        [] DOMAIN c # {} /\ DOMAIN c \cap {"-c", "-D", "-d", "file"} = {} -> << >>

Listed(c) ==
  IF "-l" \in DOMAIN c THEN <<[mode |-> "Lexing", file |-> LastFile(c), out |-> None]>> ELSE << >>

Ordered ==
  choice # None =>
    /\ choice \in Choices
    /\ phase = "arguments" => /\ argv = From(choice, check)
                              /\ Expects(choice, check, pinput)
                              /\ work = << >> /\ DOMAIN choice # {}
    /\ phase = "lexing" => Meant(choice) /\ work = << >>
    /\ phase = "modes" => Meant(choice) /\ work = Listed(choice)
    /\ phase = "ended" => /\ Meant(choice)
                          /\ status \in {"success", "failure"}
                          /\ work = Asked(choice)

-----------------------------------------------------------------------------
(* The words of a choice *)

LEMMA CheckNames ==
  /\ Checks[1] = "-l" /\ Checks[2] = "-c" /\ Checks[3] = "-o" /\ Checks[4] = "-d"
  /\ Checks[5] = "-D" /\ Checks[6] = "-s" /\ Checks[7] = "file"
BY DEF Checks

LEMMA OneTo7 ==
  ASSUME NEW k \in 1 .. 7
  PROVE  k = 1 \/ k = 2 \/ k = 3 \/ k = 4 \/ k = 5 \/ k = 6 \/ k = 7
OBVIOUS

LEMMA OptionNames == Options = {"-l", "-c", "-o", "-d", "-D", "-s"}
<1>1. \A k \in 1 .. 6 : k = 1 \/ k = 2 \/ k = 3 \/ k = 4 \/ k = 5 \/ k = 6
  OBVIOUS
<1>2. 1 \in 1 .. 6 /\ 2 \in 1 .. 6 /\ 3 \in 1 .. 6 /\ 4 \in 1 .. 6 /\ 5 \in 1 .. 6 /\ 6 \in 1 .. 6
  OBVIOUS
<1>. HIDE DEF Checks
<1>. QED  BY <1>1, <1>2, CheckNames DEF Options

\* What a choice gives to each of its options.
LEMMA ChoiceFacts ==
  ASSUME NEW c \in Choices
  PROVE  /\ DOMAIN c \subseteq {"-l", "-c", "-o", "-d", "-D", "-s", "file"}
         /\ \A o \in DOMAIN c : c[o] \in Files /\ c[o] \in Names /\ c[o] # None
         /\ "file" \in DOMAIN c => c["file"] \notin {"-l", "-c", "-o", "-d", "-D", "-s"}
BY ChoicesAssumption, NamesAssumption, OptionNames DEF Names

LEMMA WordsOf ==
  ASSUME NEW c \in Choices, NEW o \in {"-l", "-c", "-o", "-d", "-D", "-s", "file"}
  PROVE  /\ Words(c, o) \in Seq(Names)
         /\ o \notin DOMAIN c => Words(c, o) = << >>
         /\ o \in DOMAIN c \cap Named => Words(c, o) = <<o, c[o]>>
         /\ o \in DOMAIN c /\ o = "-s" => Words(c, o) = <<o>>
         /\ o \in DOMAIN c /\ o = "file" => Words(c, o) = <<c[o]>>
<1>1. /\ o \notin DOMAIN c => Words(c, o) = << >>
      /\ o \in DOMAIN c \cap Named => Words(c, o) = <<o, c[o]>>
      /\ o \in DOMAIN c /\ o = "-s" => Words(c, o) = <<o>>
      /\ o \in DOMAIN c /\ o = "file" => Words(c, o) = <<c[o]>>
  BY DEF Words, Named
<1>2. o # "file" => o \in Names
  BY OptionNames DEF Names
<1>3. o \in DOMAIN c => c[o] \in Names
  BY ChoiceFacts
<1>4. o \in Named \/ o = "-s" \/ o = "file"
  BY DEF Named
<1>5. "file" \notin Named
  BY DEF Named
<1>6. Words(c, o) \in Seq(Names)
  <2>1. << >> \in Seq(Names)
    OBVIOUS
  <2>2. \A a \in Names : <<a>> \in Seq(Names)
    OBVIOUS
  <2>3. \A a, b \in Names : <<a, b>> \in Seq(Names)
    OBVIOUS
  <2>4. CASE o \notin DOMAIN c
    BY <1>1, <2>1, <2>4, Zenon
  <2>5. CASE o \in DOMAIN c /\ o \in Named
    <3>1. o \in Names /\ c[o] \in Names
      BY <1>2, <1>3, <1>5, <2>5, Zenon
    <3>2. Words(c, o) = <<o, c[o]>>
      BY <1>1, <2>5
    <3>. QED  BY <2>3, <3>1, <3>2, Zenon
  <2>6. CASE o \in DOMAIN c /\ o = "-s"
    <3>1. o \in Names
      BY <1>2, <2>6
    <3>. QED  BY <1>1, <2>2, <2>6, <3>1, Zenon
  <2>7. CASE o \in DOMAIN c /\ o = "file"
    BY <1>1, <1>3, <2>2, <2>7, Zenon
  <2>. QED  BY <1>4, <2>4, <2>5, <2>6, <2>7, Zenon
<1>. QED  BY <1>1, <1>6, Zenon

LEMMA FromTypes ==
  ASSUME NEW c \in Choices
  PROVE  \A k \in 1 .. 8 : From(c, k) \in Seq(Names)
<1>1. /\ Words(c, "-l") \in Seq(Names) /\ Words(c, "-c") \in Seq(Names)
      /\ Words(c, "-o") \in Seq(Names) /\ Words(c, "-d") \in Seq(Names)
      /\ Words(c, "-D") \in Seq(Names) /\ Words(c, "-s") \in Seq(Names)
      /\ Words(c, "file") \in Seq(Names)
  BY WordsOf
<1>2. /\ From1(c) \in Seq(Names) /\ From2(c) \in Seq(Names) /\ From3(c) \in Seq(Names)
      /\ From4(c) \in Seq(Names) /\ From5(c) \in Seq(Names) /\ From6(c) \in Seq(Names)
      /\ From7(c) \in Seq(Names) /\ << >> \in Seq(Names)
  BY <1>1 DEF From1, From2, From3, From4, From5, From6, From7
<1>3. \A k \in 1 .. 8 : k \in 1 .. 7 \/ k = 8
  OBVIOUS
<1>. QED  BY <1>2, <1>3, OneTo7 DEF From

LEMMA FromSteps ==
  ASSUME NEW c \in Choices, NEW k \in 1 .. 7
  PROVE  From(c, k) = Words(c, Checks[k]) \o From(c, k + 1)
<1>1. From7(c) = Words(c, "file") \o << >>
  BY WordsOf, ConcatEmptySeq DEF From7
<1>. HIDE DEF Checks
<1>2. CASE k = 1
  BY <1>2, CheckNames DEF From, From1
<1>3. CASE k = 2
  BY <1>3, CheckNames DEF From, From2
<1>4. CASE k = 3
  BY <1>4, CheckNames DEF From, From3
<1>5. CASE k = 4
  BY <1>5, CheckNames DEF From, From4
<1>6. CASE k = 5
  BY <1>6, CheckNames DEF From, From5
<1>7. CASE k = 6
  BY <1>7, CheckNames DEF From, From6
<1>8. CASE k = 7
  <2>1. From(c, 7) = From7(c) /\ From(c, 8) = << >>
    BY DEF From
  <2>2. Checks[k] = "file" /\ From(c, k) = From(c, 7) /\ From(c, k + 1) = From(c, 8)
    BY <1>8, CheckNames
  <2>. QED  BY <1>1, <2>1, <2>2, Zenon
<1>. QED  BY <1>2, <1>3, <1>4, <1>5, <1>6, <1>7, <1>8, OneTo7

\* Concatenation, of which only the next two facts are used.
Cat(s, t) == s \o t

LEMMA CatFacts ==
  ASSUME NEW S, NEW s \in Seq(S), NEW t \in Seq(S), NEW u \in Seq(S)
  PROVE  Cat(s, t) \in Seq(S) /\ Cat(Cat(s, t), u) = Cat(s, Cat(t, u))
BY ConcatProperties, ConcatAssociative DEF Cat

\* The command line is read from the left, whatever way it is put together.
LEMMA WrittenIsFrom ==
  ASSUME NEW c \in Choices
  PROVE  Written(c) = From(c, 1)
<1>w1. PICK s1 \in Seq(Names) : s1 = Words(c, "-l")
  BY WordsOf
<1>w2. PICK s2 \in Seq(Names) : s2 = Words(c, "-c")
  BY WordsOf
<1>w3. PICK s3 \in Seq(Names) : s3 = Words(c, "-o")
  BY WordsOf
<1>w4. PICK s4 \in Seq(Names) : s4 = Words(c, "-d")
  BY WordsOf
<1>w5. PICK s5 \in Seq(Names) : s5 = Words(c, "-D")
  BY WordsOf
<1>w6. PICK s6 \in Seq(Names) : s6 = Words(c, "-s")
  BY WordsOf
<1>w7. PICK s7 \in Seq(Names) : s7 = Words(c, "file")
  BY WordsOf
<1>1. PICK l2 \in Seq(Names) : l2 = Cat(s1, s2)
  BY CatFacts
<1>2. PICK l3 \in Seq(Names) : l3 = Cat(l2, s3)
  BY CatFacts
<1>3. PICK l4 \in Seq(Names) : l4 = Cat(l3, s4)
  BY CatFacts
<1>4. PICK l5 \in Seq(Names) : l5 = Cat(l4, s5)
  BY CatFacts
<1>5. Cat(Cat(l5, s6), s7) = Cat(l5, Cat(s6, s7)) /\ Cat(s6, s7) \in Seq(Names)
  BY CatFacts
<1>6. PICK r6 \in Seq(Names) : r6 = Cat(s6, s7)
  BY CatFacts
<1>7. PICK r5 \in Seq(Names) : r5 = Cat(s5, r6)
  BY CatFacts
<1>8. PICK r4 \in Seq(Names) : r4 = Cat(s4, r5)
  BY CatFacts
<1>9. PICK r3 \in Seq(Names) : r3 = Cat(s3, r4)
  BY CatFacts
<1>10. Cat(Cat(l4, s5), r6) = Cat(l4, Cat(s5, r6))
  BY CatFacts
<1>11. Cat(Cat(l3, s4), r5) = Cat(l3, Cat(s4, r5))
  BY CatFacts
<1>12. Cat(Cat(l2, s3), r4) = Cat(l2, Cat(s3, r4))
  BY CatFacts
<1>13. Cat(Cat(s1, s2), r3) = Cat(s1, Cat(s2, r3))
  BY CatFacts
<1>14. Cat(Cat(Cat(Cat(Cat(Cat(s1, s2), s3), s4), s5), s6), s7)
         = Cat(s1, Cat(s2, Cat(s3, Cat(s4, Cat(s5, Cat(s6, s7))))))
  BY <1>1, <1>2, <1>3, <1>4, <1>5, <1>6, <1>7, <1>8, <1>9, <1>10, <1>11, <1>12, <1>13, Zenon
<1>15. Written(c) = Cat(Cat(Cat(Cat(Cat(Cat(s1, s2), s3), s4), s5), s6), s7)
  BY <1>w1, <1>w2, <1>w3, <1>w4, <1>w5, <1>w6, <1>w7, Zenon DEF Written, Cat
<1>16. From1(c) = Cat(s1, Cat(s2, Cat(s3, Cat(s4, Cat(s5, Cat(s6, s7))))))
  BY <1>w1, <1>w2, <1>w3, <1>w4, <1>w5, <1>w6, <1>w7, Zenon
  DEF From1, From2, From3, From4, From5, From6, From7, Cat
<1>17. From(c, 1) = From1(c)
  BY DEF From
<1>. QED  BY <1>14, <1>15, <1>16, <1>17, Zenon

-----------------------------------------------------------------------------
(* A mode that reads a file has the name of one *)

LEMMA WrittenTypes == \A c \in Choices : Written(c) \in Seq(Names)
BY WrittenIsFrom, FromTypes

LEMMA ModeNames ==
  /\ \A o \in DOMAIN ModeOf : ModeOf[o] \in Modes \ {"Repl"}
  /\ Named \cup {"file"} = DOMAIN ModeOf \cup {"-o"}
  /\ "Repl" \in Modes
<1>1. DOMAIN ModeOf = {"-l", "-c", "-d", "-D", "file"}
  BY DEF ModeOf
<1>2. \A o \in DOMAIN ModeOf : ModeOf[o] # "Repl"
  BY DEF ModeOf
<1>3. \A o \in DOMAIN ModeOf : ModeOf[o] \in Modes
  BY DEF Modes
<1>. QED  BY <1>1, <1>2, <1>3 DEF Modes, Named

\* What is noted of a name that is read.
LEMMA NotedIsTyped ==
  ASSUME pinput \in Input, ModesHaveFiles, NEW o \in Named \cup {"file"}, NEW name \in Names
  PROVE  /\ Noted(o, name) \in Input
         /\ Noted(o, name).modes \ {"Repl"} # {} => Noted(o, name).infile # None
<1>1. name # None
  BY NamesAssumption
<1>2. CASE o = "-o"
  <2>1. Noted(o, name) = [pinput EXCEPT !.outfile = name]
    BY <1>2 DEF Noted
  <2>. QED  BY <2>1 DEF Input, ModesHaveFiles
<1>3. CASE o # "-o"
  <2>1. Noted(o, name) = [pinput EXCEPT !.modes = @ \cup {ModeOf[o]}, !.infile = name]
    BY <1>3 DEF Noted
  <2>2. ModeOf[o] \in Modes
    BY <1>3, ModeNames
  <2>. QED  BY <1>1, <2>1, <2>2, ZenonT(60) DEF Input
<1>. QED  BY <1>2, <1>3

LEMMA StartTypes == Init => TypeOK /\ ModesHaveFiles
<1>. SUFFICES ASSUME Init PROVE TypeOK /\ ModesHaveFiles
  OBVIOUS
<1>1. argv \in Seq(Names)
  BY CommandLinesAssumption, WrittenTypes DEF Init
<1>2. Nothing \in Input /\ [Nothing EXCEPT !.modes = {"Repl"}] \in Input
  BY ModeNames DEF Nothing, Input
<1>3. pinput \in Input /\ pinput.modes \ {"Repl"} = {}
  BY <1>2 DEF Init, Nothing
<1>. QED  BY <1>1, <1>3 DEF Init, TypeOK, ModesHaveFiles

LEMMA StepTypes == TypeOK /\ ModesHaveFiles /\ [Next]_vars => TypeOK' /\ ModesHaveFiles'
<1>. SUFFICES ASSUME TypeOK, ModesHaveFiles, [Next]_vars PROVE TypeOK' /\ ModesHaveFiles'
  OBVIOUS
<1>. USE DEF TypeOK
<1>1. ASSUME Skip PROVE TypeOK' /\ ModesHaveFiles'
  BY <1>1 DEF Skip, ModesHaveFiles
<1>2. ASSUME NEW o \in Named, NamedFile(o) PROVE TypeOK' /\ ModesHaveFiles'
  <2>1. argv[2] \in Names /\ Tail(Tail(argv)) \in Seq(Names) /\ check' \in 1 .. 8
    <3>1. Len(argv) > 1 /\ check <= 7 /\ check' = check + 1
      BY <1>2 DEF NamedFile, Found
    <3>2. argv \in Seq(Names) /\ check \in 1 .. 8
      OBVIOUS
    <3>. HIDE DEF TypeOK
    <3>3. argv[2] \in Names /\ Tail(argv) \in Seq(Names) /\ Len(Tail(argv)) = Len(argv) - 1
      BY <3>1, <3>2
    <3>4. Tail(Tail(argv)) \in Seq(Names)
      <4>1. PICK t \in Seq(Names) : t = Tail(argv)
        BY <3>3
      <4>2. Len(t) = Len(argv) - 1
        BY <3>3, <4>1, Zenon
      <4>3. t # << >>
        BY <3>1, <3>2, <4>2
      <4>4. Tail(t) \in Seq(Names)
        BY <4>3
      <4>. QED  BY <4>1, <4>4, Zenon
    <3>. QED  BY <3>1, <3>2, <3>3, <3>4
  <2>2. pinput' = Noted(o, argv[2])
    BY <1>2 DEF NamedFile
  <2>3. pinput' \in Input /\ ModesHaveFiles'
    BY <2>1, <2>2, NotedIsTyped DEF ModesHaveFiles
  <2>. QED  BY <1>2, <2>1, <2>3 DEF NamedFile
<1>3. ASSUME NEW o \in Named, NoFile(o) PROVE TypeOK' /\ ModesHaveFiles'
  BY <1>3 DEF NoFile, ModesHaveFiles
<1>4. ASSUME Silent PROVE TypeOK' /\ ModesHaveFiles'
  <2>1. Tail(argv) \in Seq(Names) /\ check' \in 1 .. 8
    BY <1>4 DEF Silent, Found, Matches
  <2>2. pinput' \in Input /\ pinput'.modes = pinput.modes /\ pinput'.infile = pinput.infile
    BY <1>4 DEF Silent, Input
  <2>. QED  BY <1>4, <2>1, <2>2 DEF Silent, ModesHaveFiles
<1>5. ASSUME Operand PROVE TypeOK' /\ ModesHaveFiles'
  <2>1. Head(argv) \in Names /\ Tail(argv) \in Seq(Names) /\ check' \in 1 .. 8
    BY <1>5 DEF Operand, Found, Matches
  <2>2. pinput' = Noted("file", Head(argv))
    BY <1>5 DEF Operand
  <2>3. pinput' \in Input /\ ModesHaveFiles'
    BY <2>1, <2>2, NotedIsTyped DEF ModesHaveFiles
  <2>. QED  BY <1>5, <2>1, <2>3 DEF Operand
<1>6. ASSUME Again PROVE TypeOK' /\ ModesHaveFiles'
  BY <1>6 DEF Again, ModesHaveFiles
<1>7. ASSUME NEW w, NEW s, End(w, s) PROVE TypeOK' /\ ModesHaveFiles'
  BY <1>7 DEF End, ModesHaveFiles
<1>8. ASSUME Lexing PROVE TypeOK' /\ ModesHaveFiles'
  <2>1. CASE phase' = "modes" /\ UNCHANGED <<choice, argv, check, pinput, status>>
    BY <2>1 DEF ModesHaveFiles
  <2>2. CASE Unread
    BY <1>7, <2>2 DEF Unread
  <2>. QED  BY <1>8, <2>1, <2>2 DEF Lexing
<1>9. ASSUME Compile PROVE TypeOK' /\ ModesHaveFiles'
  BY <1>7, <1>9 DEF Compile, Unread
<1>10. ASSUME NEW mode, Read(mode) PROVE TypeOK' /\ ModesHaveFiles'
  BY <1>7, <1>10 DEF Read, Unread
<1>11. ASSUME Repl \/ NoMode PROVE TypeOK' /\ ModesHaveFiles'
  BY <1>7, <1>11 DEF Repl, NoMode
<1>12. ASSUME UNCHANGED vars PROVE TypeOK' /\ ModesHaveFiles'
  BY <1>12 DEF vars, ModesHaveFiles
<1>. HIDE DEF TypeOK
<1>. QED
  BY <1>1, <1>2, <1>3, <1>4, <1>5, <1>6, <1>8, <1>9, <1>10, <1>11, <1>12
  DEF Next, Arguments, Ended

\* Whatever the files, the words and the length of the command line: the arguments are read
\* within their number, the loop of main() finds only its modes, and a mode that reads a file
\* has the name of one.
THEOREM ModesAlwaysHaveFiles == Spec => [](TypeOK /\ ModesHaveFiles)
BY StartTypes, StepTypes, PTL DEF Spec

-----------------------------------------------------------------------------
(* The arguments of a choice, one check after the other *)

LEMMA Fronts ==
  ASSUME NEW S, NEW r \in Seq(S), NEW a \in S, NEW b \in S
  PROVE  /\ <<a>> \o r # << >> /\ Head(<<a>> \o r) = a /\ Tail(<<a>> \o r) = r
         /\ <<a, b>> \o r # << >> /\ Head(<<a, b>> \o r) = a /\ (<<a, b>> \o r)[2] = b
         /\ Len(<<a, b>> \o r) > 1 /\ Tail(Tail(<<a, b>> \o r)) = r
<1>1. <<a>> \o r # << >> /\ Head(<<a>> \o r) = a
  OBVIOUS
<1>2. Tail(<<a>> \o r) = r
  OBVIOUS
<1>3. <<a, b>> \o r # << >> /\ Head(<<a, b>> \o r) = a /\ (<<a, b>> \o r)[2] = b
  OBVIOUS
<1>4. Len(<<a, b>> \o r) > 1
  OBVIOUS
<1>5. Tail(Tail(<<a, b>> \o r)) = r
  OBVIOUS
<1>. QED  BY <1>1, <1>2, <1>3, <1>4, <1>5, Zenon

\* At a check whose option was chosen the words of the option come first.
LEMMA Peel ==
  ASSUME NEW c \in Choices, NEW k \in 1 .. 7
  PROVE  /\ Checks[k] \notin DOMAIN c => From(c, k) = From(c, k + 1)
         /\ Checks[k] \in DOMAIN c =>
              /\ From(c, k) # << >>
              /\ Checks[k] \in Named =>
                   /\ Head(From(c, k)) = Checks[k] /\ Len(From(c, k)) > 1
                   /\ From(c, k)[2] = c[Checks[k]]
                   /\ Tail(Tail(From(c, k))) = From(c, k + 1)
              /\ Checks[k] = "-s" =>
                   Head(From(c, k)) = Checks[k] /\ Tail(From(c, k)) = From(c, k + 1)
              /\ Checks[k] = "file" =>
                   Head(From(c, k)) = c["file"] /\ Tail(From(c, k)) = From(c, k + 1)
<1>. DEFINE o == Checks[k]
<1>1. PICK r \in Seq(Names) : r = From(c, k + 1)
  BY FromTypes
<1>2. From(c, k) = Words(c, o) \o r
  BY <1>1, FromSteps
<1>3. o \in {"-l", "-c", "-o", "-d", "-D", "-s", "file"}
  BY OneTo7, CheckNames
<1>4. \A n \in Options : n \in Names
  BY DEF Names
<1>5. \A n \in Named \cup {"-s"} : n \in Names
  BY <1>4, OptionNames DEF Named
<1>6. o \in Named \/ o = "-s" \/ o = "file"
  BY <1>3 DEF Named
<1>7. "file" \notin Named /\ "-s" \notin Named
  BY DEF Named
<1>. HIDE DEF o
<1>8. CASE o \notin DOMAIN c
  <2>1. Words(c, o) = << >>
    BY <1>3, <1>8, WordsOf
  <2>2. << >> \o r = r
    OBVIOUS
  <2>. QED  BY <1>1, <1>2, <1>8, <2>1, <2>2, Zenon DEF o
<1>9. CASE o \in DOMAIN c /\ o \in Named
  <2>1. Words(c, o) = <<o, c[o]>>
    BY <1>3, <1>9, WordsOf
  <2>2. PICK a \in Names : a = o
    BY <1>5, <1>9
  <2>3. PICK b \in Names : b = c[o]
    BY <1>9, ChoiceFacts
  <2>4. /\ <<a, b>> \o r # << >> /\ Head(<<a, b>> \o r) = a /\ (<<a, b>> \o r)[2] = b
        /\ Len(<<a, b>> \o r) > 1 /\ Tail(Tail(<<a, b>> \o r)) = r
    BY Fronts
  <2>. HIDE DEF Checks
  <2>. QED  BY <1>1, <1>2, <1>7, <1>9, <2>1, <2>2, <2>3, <2>4, Zenon DEF o
<1>10. CASE o \in DOMAIN c /\ o = "-s"
  <2>1. Words(c, o) = <<o>>
    BY <1>3, <1>10, WordsOf
  <2>2. PICK a \in Names : a = o
    BY <1>5, <1>10
  <2>3. <<a>> \o r # << >> /\ Head(<<a>> \o r) = a /\ Tail(<<a>> \o r) = r
    BY Fronts
  <2>. HIDE DEF Checks
  <2>. QED  BY <1>1, <1>2, <1>7, <1>10, <2>1, <2>2, <2>3 DEF o
<1>11. CASE o \in DOMAIN c /\ o = "file"
  <2>1. Words(c, o) = <<c[o]>>
    BY <1>3, <1>11, WordsOf
  <2>2. PICK a \in Names : a = c[o]
    BY <1>11, ChoiceFacts
  <2>3. <<a>> \o r # << >> /\ Head(<<a>> \o r) = a /\ Tail(<<a>> \o r) = r
    BY Fronts
  <2>. HIDE DEF Checks
  <2>. QED  BY <1>1, <1>2, <1>7, <1>11, <2>1, <2>2, <2>3 DEF o
<1>. QED  BY <1>6, <1>8, <1>9, <1>10, <1>11, Zenon

\* Of the words left, the first is an option still to be looked for or the operand; there
\* are none only when there is none of these options.
StartsRight(c, k) ==
  /\ From(c, k) = << >> <=> \A j \in k .. 7 : Checks[j] \notin DOMAIN c
  /\ From(c, k) # << >> =>
       \/ \E j \in k .. 6 : Head(From(c, k)) = Checks[j]
       \/ "file" \in DOMAIN c /\ Head(From(c, k)) = c["file"]

LEMMA StartsBefore ==
  ASSUME NEW c \in Choices, NEW k \in 1 .. 7, StartsRight(c, k + 1)
  PROVE  StartsRight(c, k)
<1>1. /\ \A j \in k + 1 .. 7 : j \in k .. 7
      /\ \A j \in k + 1 .. 6 : j \in k .. 6
      /\ \A j \in k .. 7 : j = k \/ j \in k + 1 .. 7
      /\ k \in k .. 7 /\ (k = 7 \/ k \in k .. 6)
  OBVIOUS
<1>2. Checks[k] \in Named \/ Checks[k] = "-s" \/ Checks[k] = "file"
  BY OneTo7, CheckNames DEF Named
<1>3. k = 7 <=> Checks[k] = "file"
  BY OneTo7, CheckNames
<1>4. "file" \notin Named /\ "-s" \notin Named
  BY DEF Named
<1>5. CASE Checks[k] \notin DOMAIN c
  <2>1. From(c, k) = From(c, k + 1)
    BY <1>5, Peel
  <2>. QED  BY <1>1, <1>5, <2>1, Zenon DEF StartsRight
<1>6. CASE Checks[k] \in DOMAIN c
  <2>1. From(c, k) # << >>
    BY <1>6, Peel
  <2>2. Checks[k] = "file" => Head(From(c, k)) = c["file"]
    BY <1>6, Peel
  <2>3. Checks[k] # "file" => Head(From(c, k)) = Checks[k]
    BY <1>2, <1>6, Peel
  <2>. QED  BY <1>1, <1>3, <1>6, <2>1, <2>2, <2>3, Zenon DEF StartsRight
<1>. QED  BY <1>5, <1>6

LEMMA Starts ==
  ASSUME NEW c \in Choices, NEW k \in 1 .. 8
  PROVE  StartsRight(c, k)
<1>8. StartsRight(c, 8)
  <2>1. \A j \in 8 .. 7 : FALSE
    OBVIOUS
  <2>2. From(c, 8) = << >>
    BY DEF From
  <2>. QED  BY <2>1, <2>2, Zenon DEF StartsRight
<1>7. StartsRight(c, 7)
  BY <1>8, StartsBefore
<1>6. StartsRight(c, 6)
  BY <1>7, StartsBefore
<1>5. StartsRight(c, 5)
  BY <1>6, StartsBefore
<1>4. StartsRight(c, 4)
  BY <1>5, StartsBefore
<1>3. StartsRight(c, 3)
  BY <1>4, StartsBefore
<1>2. StartsRight(c, 2)
  BY <1>3, StartsBefore
<1>1. StartsRight(c, 1)
  BY <1>2, StartsBefore
<1>. QED  BY <1>1, <1>2, <1>3, <1>4, <1>5, <1>6, <1>7, <1>8, OneTo7

LEMMA ChecksDiffer ==
  \A j, k \in 1 .. 7 : Checks[j] = Checks[k] => j = k
<1>. SUFFICES ASSUME NEW j \in 1 .. 7, NEW k \in 1 .. 7, Checks[j] = Checks[k] PROVE j = k
  OBVIOUS
<1>. HIDE DEF Checks
<1>. QED  BY OneTo7, CheckNames

\* A check finds its option exactly when it was chosen.
LEMMA MatchesChosen ==
  ASSUME NEW c \in Choices, NEW k \in 1 .. 7, argv = From(c, k)
  PROVE  Matches(Checks[k]) <=> Checks[k] \in DOMAIN c
<1>1. k = 7 <=> Checks[k] = "file"
  BY OneTo7, CheckNames
<1>2. CASE Checks[k] \in DOMAIN c
  <2>1. Checks[k] \in Named \/ Checks[k] = "-s" \/ Checks[k] = "file"
    BY OneTo7, CheckNames DEF Named
  <2>2. argv # << >>
    BY <1>2, Peel
  <2>3. Checks[k] = "file" \/ Head(argv) = Checks[k]
    BY <1>2, <2>1, Peel
  <2>. QED  BY <1>2, <2>2, <2>3, Zenon DEF Matches
<1>3. CASE Checks[k] \notin DOMAIN c /\ k = 7
  <2>1. From(c, 7) = From(c, 8)
    BY <1>3, Peel
  <2>2. From(c, 8) = << >>
    BY DEF From
  <2>. QED  BY <1>3, <2>1, <2>2 DEF Matches
<1>4. CASE Checks[k] \notin DOMAIN c /\ k # 7
  <2>1. k + 1 \in 1 .. 8 /\ k \in 1 .. 6 /\ \A j \in k + 1 .. 6 : j \in 1 .. 7 /\ j # k
    BY <1>4
  <2>2. argv = From(c, k + 1)
    BY <1>4, Peel
  <2>3. StartsRight(c, k + 1)
    BY <2>1, Starts
  <2>4. SUFFICES ASSUME argv # << >> PROVE Head(argv) # Checks[k]
    BY <1>1, <1>4 DEF Matches
  <2>5. \/ \E j \in k + 1 .. 6 : Head(argv) = Checks[j]
        \/ "file" \in DOMAIN c /\ Head(argv) = c["file"]
    BY <2>2, <2>3, <2>4, Zenon DEF StartsRight
  <2>6. ASSUME NEW j \in k + 1 .. 6 PROVE Checks[j] # Checks[k]
    BY <2>1, ChecksDiffer
  <2>7. "file" \in DOMAIN c => c["file"] \notin Options
    BY ChoicesAssumption
  <2>8. Checks[k] \in Options
    BY <2>1 DEF Options
  <2>. QED  BY <2>5, <2>6, <2>7, <2>8, Zenon
<1>. QED  BY <1>2, <1>3, <1>4

-----------------------------------------------------------------------------
(* What the checks have noted *)

LEMMA SeenStep ==
  ASSUME NEW c, NEW k \in 1 .. 7
  PROVE  Seen(c, k + 1) = Seen(c, k) \cup ({Checks[k]} \cap DOMAIN c)
<1>1. \A j : j \in 1 .. (k + 1) - 1 <=> (j \in 1 .. k - 1 \/ j = k)
  OBVIOUS
<1>. HIDE DEF Checks
<1>. QED  BY <1>1, Zenon DEF Seen

LEMMA GivenStep ==
  ASSUME NEW c, NEW k \in 1 .. 7
  PROVE  Given(c, k + 1) =
           IF k \in {1, 2, 4, 5, 7} /\ Checks[k] \in DOMAIN c THEN Given(c, k) \cup {k}
           ELSE Given(c, k)
<1>1. \A j \in {1, 2, 4, 5, 7} : j < k + 1 <=> (j < k \/ j = k)
  OBVIOUS
<1>. DEFINE K == {1, 2, 4, 5, 7}
<1>2. \A j \in K : j < k + 1 <=> (j < k \/ j = k)
  BY <1>1
<1>3. Given(c, k + 1) = {j \in K : j < k + 1 /\ Checks[j] \in DOMAIN c}
      /\ Given(c, k) = {j \in K : j < k /\ Checks[j] \in DOMAIN c}
  BY DEF Given
<1>. HIDE DEF Checks, K
<1>4. \A j : j \in Given(c, k + 1) <=> j \in Given(c, k) \/ (j = k /\ k \in K /\ Checks[k] \in DOMAIN c)
  <2>. SUFFICES ASSUME NEW j PROVE
         j \in Given(c, k + 1) <=> j \in Given(c, k) \/ (j = k /\ k \in K /\ Checks[k] \in DOMAIN c)
    OBVIOUS
  <2>1. CASE j \in K
    <3>1. ~ (k < k) /\ k < k + 1
      OBVIOUS
    <3>. QED  BY <1>2, <1>3, <2>1, <3>1, Zenon
  <2>2. CASE j \notin K
    BY <1>3, <2>2, Zenon
  <2>. QED  BY <2>1, <2>2
<1>5. CASE k \in K /\ Checks[k] \in DOMAIN c
  <2>1. Given(c, k + 1) = Given(c, k) \cup {k}
    BY <1>4, <1>5, Zenon
  <2>. QED  BY <1>5, <2>1, Zenon DEF K
<1>6. CASE ~ (k \in K /\ Checks[k] \in DOMAIN c)
  <2>1. Given(c, k + 1) = Given(c, k)
    BY <1>4, <1>6, Zenon
  <2>. QED  BY <1>6, <2>1, Zenon DEF K
<1>. QED  BY <1>5, <1>6, Zenon

\* The last of the options given so far is the one the file is from.
LEMMA LastStep ==
  ASSUME NEW c, NEW k \in 1 .. 7
  PROVE  LastBefore(c, k + 1) =
           IF k \in {1, 2, 4, 5, 7} /\ Checks[k] \in DOMAIN c THEN c[Checks[k]]
           ELSE LastBefore(c, k)
<1>1. CASE ~ (k \in {1, 2, 4, 5, 7} /\ Checks[k] \in DOMAIN c)
  <2>1. Given(c, k + 1) = Given(c, k)
    BY <1>1, GivenStep, Zenon
  <2>2. LastBefore(c, k + 1) = LastBefore(c, k)
    <3>. HIDE DEF Checks
    <3>. QED  BY <2>1, Zenon DEF LastBefore
  <2>. DEFINE Carrying == k \in {1, 2, 4, 5, 7} /\ Checks[k] \in DOMAIN c
  <2>3. ~ Carrying
    BY <1>1
  <2>. HIDE DEF Carrying
  <2>4. LastBefore(c, k + 1) = IF Carrying THEN c[Checks[k]] ELSE LastBefore(c, k)
    BY <2>2, <2>3, Zenon
  <2>. QED  BY <2>4 DEF Carrying
<1>2. CASE k \in {1, 2, 4, 5, 7} /\ Checks[k] \in DOMAIN c
  <2>1. Given(c, k + 1) = Given(c, k) \cup {k}
    BY <1>2, GivenStep, Zenon
  <2>2. \A j \in Given(c, k) : j \in Int /\ j < k
    <3>1. \A j \in {1, 2, 4, 5, 7} : j \in Int
      OBVIOUS
    <3>. QED  BY <3>1 DEF Given
  <2>. DEFINE G == Given(c, k + 1)
              Greatest(j) == \A i \in G : i <= j
  <2>3. k \in G /\ Greatest(k)
    <3>1. k \in G
      BY <2>1
    <3>2. ASSUME NEW i \in G PROVE i <= k
      BY <2>1, <2>2, <3>2
    <3>. QED  BY <3>1, <3>2
  <2>4. ASSUME NEW j \in G, Greatest(j) PROVE j = k
    <3>1. k <= j
      BY <2>3, <2>4
    <3>2. j \in Given(c, k) \/ j = k
      BY <2>1, <2>4
    <3>. QED  BY <2>2, <3>1, <3>2
  <2>5. (CHOOSE j \in G : Greatest(j)) = k
    <3>. HIDE DEF G, Greatest
    <3>. QED  BY <2>3, <2>4
  <2>6. LastBefore(c, k + 1) = c[Checks[k]]
    <3>1. G # {}
      BY <2>3
    <3>. HIDE DEF Checks
    <3>. QED  BY <2>5, <3>1, Zenon DEF LastBefore, LastOf, G, Greatest
  <2>. QED  BY <1>2, <2>6, Zenon
<1>. QED  BY <1>1, <1>2, Zenon

LEMMA Carriers ==
  ASSUME NEW k \in 1 .. 7
  PROVE  /\ k \in {1, 2, 4, 5, 7} <=> Checks[k] \in DOMAIN ModeOf
         /\ DOMAIN ModeOf = {"-l", "-c", "-d", "-D", "file"}
         /\ (Checks[k] \in DOMAIN ModeOf \/ Checks[k] = "-o" \/ Checks[k] = "-s")
<1>1. DOMAIN ModeOf = {"-l", "-c", "-d", "-D", "file"}
  BY DEF ModeOf
<1>. HIDE DEF Checks, ModeOf
<1>2. k \in {1, 2, 4, 5, 7} <=> Checks[k] \in {"-l", "-c", "-d", "-D", "file"}
  BY OneTo7, CheckNames
<1>3. Checks[k] \in {"-l", "-c", "-d", "-D", "file"} \/ Checks[k] = "-o" \/ Checks[k] = "-s"
  BY OneTo7, CheckNames
<1>. QED  BY <1>1, <1>2, <1>3

LEMMA ExpectsNext ==
  ASSUME NEW c, NEW k \in 1 .. 7, NEW p, NEW q, Expects(c, k, p),
         LET o == Checks[k]  found == o \in DOMAIN c
         IN  /\ q.modes = IF found /\ o \in DOMAIN ModeOf THEN p.modes \cup {ModeOf[o]} ELSE p.modes
             /\ q.silent <=> p.silent \/ (found /\ o = "-s")
             /\ q.infile = IF found /\ o \in DOMAIN ModeOf THEN c[o] ELSE p.infile
             /\ q.outfile = IF found /\ o = "-o" THEN c[o] ELSE p.outfile
  PROVE  Expects(c, k + 1, q)
<1>. DEFINE o == Checks[k]
            found == o \in DOMAIN c
<1>1. Seen(c, k + 1) = Seen(c, k) \cup ({o} \cap DOMAIN c)
  BY SeenStep
<1>2. LastBefore(c, k + 1) = IF o \in DOMAIN ModeOf /\ found THEN c[o] ELSE LastBefore(c, k)
  <2>. DEFINE K == {1, 2, 4, 5, 7}
  <2>1. LastBefore(c, k + 1) = IF k \in K /\ found THEN c[o] ELSE LastBefore(c, k)
    BY LastStep
  <2>2. k \in K <=> o \in DOMAIN ModeOf
    BY Carriers
  <2>. HIDE DEF K, o
  <2>. QED  BY <2>1, <2>2, Zenon
<1>. HIDE DEF o
<1>3. q.modes = {ModeOf[n] : n \in Seen(c, k + 1) \cap DOMAIN ModeOf}
  <2>1. p.modes = {ModeOf[n] : n \in Seen(c, k) \cap DOMAIN ModeOf}
    BY DEF Expects
  <2>2. q.modes = IF found /\ o \in DOMAIN ModeOf THEN p.modes \cup {ModeOf[o]} ELSE p.modes
    BY Zenon DEF o
  <2>3. CASE found /\ o \in DOMAIN ModeOf
    BY <1>1, <2>1, <2>2, <2>3, Zenon
  <2>4. CASE ~ (found /\ o \in DOMAIN ModeOf)
    <3>1. Seen(c, k + 1) \cap DOMAIN ModeOf = Seen(c, k) \cap DOMAIN ModeOf
      BY <1>1, <2>4, Zenon
    <3>. QED  BY <2>1, <2>2, <2>4, <3>1, Zenon
  <2>. QED  BY <2>3, <2>4, Zenon
<1>4. q.silent <=> "-s" \in Seen(c, k + 1)
  <2>1. p.silent <=> "-s" \in Seen(c, k)
    BY Zenon DEF Expects
  <2>2. q.silent <=> p.silent \/ (found /\ o = "-s")
    BY Zenon DEF o
  <2>. QED  BY <1>1, <2>1, <2>2, Zenon
<1>5. q.infile = LastBefore(c, k + 1)
  <2>1. p.infile = LastBefore(c, k)
    BY Zenon DEF Expects
  <2>2. q.infile = IF found /\ o \in DOMAIN ModeOf THEN c[o] ELSE p.infile
    BY Zenon DEF o
  <2>. QED  BY <1>2, <2>1, <2>2, Zenon
<1>6. q.outfile = IF "-o" \in Seen(c, k + 1) THEN c["-o"] ELSE None
  <2>1. p.outfile = IF "-o" \in Seen(c, k) THEN c["-o"] ELSE None
    BY Zenon DEF Expects
  <2>2. q.outfile = IF found /\ o = "-o" THEN c[o] ELSE p.outfile
    BY Zenon DEF o
  <2>3. CASE found /\ o = "-o"
    BY <1>1, <2>2, <2>3, Zenon
  <2>4. CASE ~ (found /\ o = "-o")
    BY <1>1, <2>1, <2>2, <2>4, Zenon
  <2>. QED  BY <2>3, <2>4, Zenon
<1>. QED  BY <1>3, <1>4, <1>5, <1>6, Zenon DEF Expects

-----------------------------------------------------------------------------
(* A choice from its words to its end *)

LEMMA StartOrdered == Init => Ordered
<1>. SUFFICES ASSUME Init, choice # None PROVE Ordered
  BY DEF Ordered
<1>1. choice \in Choices /\ argv = From(choice, 1) /\ check = 1 /\ work = << >>
  BY WrittenIsFrom DEF Init
<1>2. StartsRight(choice, 1)
  BY <1>1, Starts
<1>3. argv = << >> <=> \A j \in 1 .. 7 : Checks[j] \notin DOMAIN choice
  BY <1>1, <1>2, Zenon DEF StartsRight
<1>4. (\A j \in 1 .. 7 : Checks[j] \notin DOMAIN choice) <=> DOMAIN choice = {}
  <2>1. DOMAIN choice \subseteq {"-l", "-c", "-o", "-d", "-D", "-s", "file"}
    BY <1>1, ChoiceFacts
  <2>2. 1 \in 1 .. 7 /\ 2 \in 1 .. 7 /\ 3 \in 1 .. 7 /\ 4 \in 1 .. 7 /\ 5 \in 1 .. 7 /\ 6 \in 1 .. 7 /\ 7 \in 1 .. 7
    OBVIOUS
  <2>. HIDE DEF Checks
  <2>. QED  BY <2>1, <2>2, CheckNames
<1>5. CASE argv = << >>
  <2>1. phase = "lexing" /\ pinput = [Nothing EXCEPT !.modes = {"Repl"}]
    BY <1>5 DEF Init
  <2>2. Meant(choice)
    BY <1>3, <1>4, <1>5, <2>1 DEF Meant
  <2>. QED  BY <1>1, <2>1, <2>2 DEF Ordered
<1>6. CASE argv # << >>
  <2>1. phase = "arguments" /\ pinput = Nothing
    BY <1>6 DEF Init
  <2>2. Seen(choice, 1) = {}
    BY DEF Seen
  <2>3. Given(choice, 1) = {}
    BY DEF Given
  <2>4. LastBefore(choice, 1) = None
    BY <2>3 DEF LastBefore, LastOf
  <2>5. pinput.modes = {} /\ pinput.silent = FALSE /\ pinput.infile = None /\ pinput.outfile = None
    BY <2>1 DEF Nothing
  <2>6. Expects(choice, 1, pinput)
    BY <2>2, <2>4, <2>5 DEF Expects
  <2>. QED  BY <1>1, <1>3, <1>4, <1>6, <2>1, <2>6 DEF Ordered
<1>. QED  BY <1>5, <1>6

\* What is noted, field by field.
LEMMA NotedFields ==
  ASSUME pinput \in Input, NEW o \in Named \cup {"file"}, NEW name
  PROVE  /\ Noted(o, name).modes = IF o \in DOMAIN ModeOf THEN pinput.modes \cup {ModeOf[o]} ELSE pinput.modes
         /\ Noted(o, name).silent = pinput.silent
         /\ Noted(o, name).infile = IF o \in DOMAIN ModeOf THEN name ELSE pinput.infile
         /\ Noted(o, name).outfile = IF o = "-o" THEN name ELSE pinput.outfile
<1>1. DOMAIN ModeOf = {"-l", "-c", "-d", "-D", "file"}
  BY DEF ModeOf
<1>2. CASE o = "-o"
  <2>1. Noted(o, name) = [pinput EXCEPT !.outfile = name]
    BY <1>2 DEF Noted
  <2>. QED  BY <1>1, <1>2, <2>1 DEF Input
<1>3. CASE o # "-o"
  <2>1. Noted(o, name) = [pinput EXCEPT !.modes = @ \cup {ModeOf[o]}, !.infile = name]
    BY <1>3 DEF Noted
  <2>2. o \in DOMAIN ModeOf
    BY <1>3, ModeNames
  <2>. HIDE DEF ModeOf
  <2>. QED  BY <1>3, <2>1, <2>2 DEF Input
<1>. QED  BY <1>2, <1>3

\* The state in which the loop stands before check k of a choice.
Stands(c, k) == c \in Choices /\ argv = From(c, k) /\ Expects(c, k, pinput)

LEMMA SkipsRight ==
  ASSUME NEW c, NEW k \in 1 .. 7, Stands(c, k), ~ Matches(Checks[k])
  PROVE  argv = From(c, k + 1) /\ Expects(c, k + 1, pinput)
<1>1. Checks[k] \notin DOMAIN c
  BY MatchesChosen DEF Stands
<1>2. argv = From(c, k + 1)
  BY <1>1, Peel DEF Stands
<1>3. Expects(c, k, pinput)
  BY DEF Stands
<1>. HIDE DEF Checks
<1>4. /\ pinput.modes = IF Checks[k] \in DOMAIN c /\ Checks[k] \in DOMAIN ModeOf
                        THEN pinput.modes \cup {ModeOf[Checks[k]]} ELSE pinput.modes
      /\ pinput.silent <=> pinput.silent \/ (Checks[k] \in DOMAIN c /\ Checks[k] = "-s")
      /\ pinput.infile = IF Checks[k] \in DOMAIN c /\ Checks[k] \in DOMAIN ModeOf
                         THEN c[Checks[k]] ELSE pinput.infile
      /\ pinput.outfile = IF Checks[k] \in DOMAIN c /\ Checks[k] = "-o" THEN c[Checks[k]] ELSE pinput.outfile
  BY <1>1, Zenon
<1>5. Expects(c, k + 1, pinput)
  BY <1>3, <1>4, ExpectsNext
<1>. QED  BY <1>2, <1>5

LEMMA FindsRight ==
  ASSUME NEW c, NEW k \in 1 .. 7, Stands(c, k), Matches(Checks[k]), pinput \in Input
  PROVE  /\ Checks[k] \in Named =>
              /\ Len(argv) > 1 /\ Tail(Tail(argv)) = From(c, k + 1)
              /\ Expects(c, k + 1, Noted(Checks[k], argv[2]))
         /\ Checks[k] = "-s" =>
              /\ Tail(argv) = From(c, k + 1)
              /\ Expects(c, k + 1, [pinput EXCEPT !.silent = TRUE])
         /\ Checks[k] = "file" =>
              /\ Tail(argv) = From(c, k + 1)
              /\ Expects(c, k + 1, Noted("file", Head(argv)))
<1>. DEFINE o == Checks[k]
<1>1. o \in DOMAIN c
  BY MatchesChosen DEF Stands
<1>2. Expects(c, k, pinput)
  BY DEF Stands
<1>3. o \notin DOMAIN ModeOf => o = "-o" \/ o = "-s"
  BY Carriers
<1>4. ASSUME NEW q,
             /\ q.modes = IF o \in DOMAIN ModeOf THEN pinput.modes \cup {ModeOf[o]} ELSE pinput.modes
             /\ q.silent <=> pinput.silent \/ o = "-s"
             /\ q.infile = IF o \in DOMAIN ModeOf THEN c[o] ELSE pinput.infile
             /\ q.outfile = IF o = "-o" THEN c[o] ELSE pinput.outfile
      PROVE  Expects(c, k + 1, q)
  <2>. HIDE DEF Checks
  <2>1. /\ q.modes = IF Checks[k] \in DOMAIN c /\ Checks[k] \in DOMAIN ModeOf
                     THEN pinput.modes \cup {ModeOf[Checks[k]]} ELSE pinput.modes
        /\ q.silent <=> pinput.silent \/ (Checks[k] \in DOMAIN c /\ Checks[k] = "-s")
        /\ q.infile = IF Checks[k] \in DOMAIN c /\ Checks[k] \in DOMAIN ModeOf
                      THEN c[Checks[k]] ELSE pinput.infile
        /\ q.outfile = IF Checks[k] \in DOMAIN c /\ Checks[k] = "-o" THEN c[Checks[k]] ELSE pinput.outfile
    BY <1>1, <1>4, Zenon
  <2>. QED  BY <1>2, <2>1, ExpectsNext
<1>5. CASE o \in Named
  <2>1. Len(argv) > 1 /\ Tail(Tail(argv)) = From(c, k + 1) /\ argv[2] = c[o]
    BY <1>1, <1>5, Peel DEF Stands
  <2>2. o # "-s" /\ o # "file" /\ o \in Named \cup {"file"}
    BY <1>5 DEF Named
  <2>. DEFINE q == Noted(o, argv[2])
  <2>. HIDE DEF o
  <2>3. /\ q.modes = IF o \in DOMAIN ModeOf THEN pinput.modes \cup {ModeOf[o]} ELSE pinput.modes
        /\ q.silent = pinput.silent
        /\ q.infile = IF o \in DOMAIN ModeOf THEN argv[2] ELSE pinput.infile
        /\ q.outfile = IF o = "-o" THEN argv[2] ELSE pinput.outfile
    BY <2>2, NotedFields
  <2>. HIDE DEF q
  <2>4. Expects(c, k + 1, q)
    BY <1>4, <2>1, <2>2, <2>3, Zenon
  <2>. QED  BY <2>1, <2>2, <2>4, Zenon DEF q, o
<1>6. CASE o = "file"
  <2>1. Tail(argv) = From(c, k + 1) /\ Head(argv) = c[o]
    BY <1>1, <1>6, Peel DEF Stands
  <2>2. o \notin Named /\ o # "-s" /\ o \in Named \cup {"file"}
    BY <1>6 DEF Named
  <2>. DEFINE q == Noted(o, Head(argv))
  <2>. HIDE DEF o
  <2>3. /\ q.modes = IF o \in DOMAIN ModeOf THEN pinput.modes \cup {ModeOf[o]} ELSE pinput.modes
        /\ q.silent = pinput.silent
        /\ q.infile = IF o \in DOMAIN ModeOf THEN Head(argv) ELSE pinput.infile
        /\ q.outfile = IF o = "-o" THEN Head(argv) ELSE pinput.outfile
    BY <2>2, NotedFields
  <2>. HIDE DEF q
  <2>4. Expects(c, k + 1, q)
    BY <1>4, <2>1, <2>2, <2>3, Zenon
  <2>. QED  BY <1>6, <2>1, <2>2, <2>4, Zenon DEF q, o
<1>7. CASE o = "-s"
  <2>1. Tail(argv) = From(c, k + 1)
    BY <1>1, <1>7, Peel DEF Stands
  <2>2. o \notin Named /\ o # "file" /\ o # "-o" /\ o \notin DOMAIN ModeOf
    BY <1>7 DEF Named, ModeOf
  <2>. DEFINE q == [pinput EXCEPT !.silent = TRUE]
  <2>3. q.modes = pinput.modes /\ q.silent = TRUE /\ q.infile = pinput.infile /\ q.outfile = pinput.outfile
    BY DEF Input
  <2>. HIDE DEF q, o
  <2>4. Expects(c, k + 1, q)
    BY <1>4, <1>7, <2>2, <2>3, Zenon
  <2>. QED  BY <1>7, <2>1, <2>2, <2>4, Zenon DEF q, o
<1>8. o \in Named \/ o = "-s" \/ o = "file"
  BY OneTo7, CheckNames DEF Named
<1>. QED  BY <1>5, <1>6, <1>7, <1>8, Zenon

LEMMA ArgumentsOrdered ==
  ASSUME TypeOK, Ordered, choice # None, Arguments
  PROVE  Ordered'
<1>. DEFINE c == choice
<1>1. phase = "arguments" /\ choice' = choice /\ work' = work
  BY DEF Arguments, Skip, NamedFile, NoFile, Silent, Operand, Again, Found
<1>2. /\ c \in Choices /\ argv = From(c, check) /\ Expects(c, check, pinput)
      /\ work = << >> /\ DOMAIN c # {} /\ pinput \in Input /\ check \in 1 .. 8
  BY <1>1 DEF Ordered, TypeOK
<1>3. check \in 1 .. 7 => Stands(c, check)
  BY <1>2 DEF Stands
<1>4. ASSUME phase' = "arguments", argv' = From(c, check'), Expects(c, check', pinput')
      PROVE  Ordered'
  BY <1>1, <1>2, <1>4 DEF Ordered
<1>5. ASSUME Skip PROVE Ordered'
  <2>1. check \in 1 .. 7 /\ ~ Matches(Checks[check])
    BY <1>2, <1>5 DEF Skip
  <2>2. argv = From(c, check + 1) /\ Expects(c, check + 1, pinput)
    BY <1>3, <2>1, SkipsRight
  <2>. QED  BY <1>1, <1>4, <1>5, <2>2 DEF Skip
<1>6. ASSUME NEW o \in Named, NamedFile(o) PROVE Ordered'
  <2>1. check \in 1 .. 7 /\ Matches(Checks[check]) /\ Checks[check] = o
    BY <1>2, <1>6 DEF NamedFile, Found
  <2>2. Tail(Tail(argv)) = From(c, check + 1) /\ Expects(c, check + 1, Noted(o, argv[2]))
    BY <1>2, <1>3, <1>6, <2>1, FindsRight
  <2>. QED  BY <1>1, <1>4, <1>6, <2>2 DEF NamedFile
<1>7. ASSUME NEW o \in Named, NoFile(o) PROVE FALSE
  <2>1. check \in 1 .. 7 /\ Matches(Checks[check]) /\ Checks[check] = o /\ Len(argv) = 1
    BY <1>2, <1>7 DEF NoFile, Found
  <2>2. Len(argv) > 1
    BY <1>2, <1>3, <1>7, <2>1, FindsRight
  <2>. QED  BY <2>1, <2>2
<1>8. ASSUME Silent PROVE Ordered'
  <2>1. check \in 1 .. 7 /\ Matches(Checks[check]) /\ Checks[check] = "-s"
    BY <1>2, <1>8 DEF Silent, Found
  <2>2. Tail(argv) = From(c, check + 1) /\ Expects(c, check + 1, [pinput EXCEPT !.silent = TRUE])
    BY <1>2, <1>3, <2>1, FindsRight
  <2>. QED  BY <1>1, <1>4, <1>8, <2>2 DEF Silent
<1>9. ASSUME Operand PROVE Ordered'
  <2>1. check \in 1 .. 7 /\ Matches(Checks[check]) /\ Checks[check] = "file"
    BY <1>2, <1>9 DEF Operand, Found
  <2>2. Tail(argv) = From(c, check + 1) /\ Expects(c, check + 1, Noted("file", Head(argv)))
    BY <1>2, <1>3, <2>1, FindsRight
  <2>. QED  BY <1>1, <1>4, <1>9, <2>2 DEF Operand
<1>10. ASSUME Again PROVE Ordered'
  <2>1. check = 8 /\ argv = << >>
    BY <1>2, <1>10 DEF Again, From
  <2>2. phase' = "lexing" /\ pinput' = pinput
    BY <1>10, <2>1 DEF Again
  <2>3. Meant(c)'
    BY <1>1, <1>2, <2>1, <2>2 DEF Meant
  <2>. QED  BY <1>1, <1>2, <2>2, <2>3 DEF Ordered
<1>. QED  BY <1>5, <1>6, <1>7, <1>8, <1>9, <1>10 DEF Arguments

\* All the checks have been made.
LEMMA AllSeen ==
  ASSUME NEW c \in Choices
  PROVE  /\ Seen(c, 8) = DOMAIN c
         /\ LastBefore(c, 8) = LastFile(c)
         /\ Asking(c) # {} =>
              /\ LastFile(c) \in Files
              /\ \E o \in Asking(c) : LastFile(c) = c[o]
<1>1. DOMAIN c \subseteq {"-l", "-c", "-o", "-d", "-D", "-s", "file"}
  BY ChoiceFacts
<1>2. Seen(c, 8) = DOMAIN c
  <2>1. {"-l", "-c", "-o", "-d", "-D", "-s", "file"} \subseteq {Checks[j] : j \in 1 .. 8 - 1}
    <3>1. 1 \in 1 .. 8 - 1 /\ 2 \in 1 .. 8 - 1 /\ 3 \in 1 .. 8 - 1 /\ 4 \in 1 .. 8 - 1
          /\ 5 \in 1 .. 8 - 1 /\ 6 \in 1 .. 8 - 1 /\ 7 \in 1 .. 8 - 1
      OBVIOUS
    <3>. HIDE DEF Checks
    <3>. QED  BY <3>1, CheckNames
  <2>. QED  BY <1>1, <2>1 DEF Seen
<1>. DEFINE given == {k \in {1, 2, 4, 5, 7} : Checks[k] \in DOMAIN c}
<1>3. Given(c, 8) = given
  <2>1. \A j \in {1, 2, 4, 5, 7} : j < 8
    OBVIOUS
  <2>. HIDE DEF Checks
  <2>. QED  BY <2>1 DEF Given
<1>4. LastFile(c) = LastOf(c, given)
  <2>. HIDE DEF Checks
  <2>. QED  BY Zenon DEF LastFile, LastOf
<1>5. LastBefore(c, 8) = LastFile(c)
  <2>. HIDE DEF given
  <2>. QED  BY <1>3, <1>4 DEF LastBefore
<1>6. ASSUME NEW o \in Asking(c)
      PROVE  LastFile(c) \in Files /\ \E w \in Asking(c) : LastFile(c) = c[w]
  <2>1. o \in {"-l", "-c", "-d", "-D", "file"} /\ o \in DOMAIN c
    BY DEF ModeOf, Asking
  <2>2. \E k \in {1, 2, 4, 5, 7} : Checks[k] = o
    <3>. HIDE DEF Checks
    <3>. QED  BY <2>1, CheckNames
  <2>3. given # {}
    BY <2>1, <2>2
  <2>4. \E k \in given : \A i \in given : i <= k
    <3>1. given \subseteq {1, 2, 4, 5, 7}
      OBVIOUS
    <3>. HIDE DEF given
    <3>2. CASE 7 \in given
      BY <3>1, <3>2
    <3>3. CASE 7 \notin given /\ 5 \in given
      BY <3>1, <3>3
    <3>4. CASE 7 \notin given /\ 5 \notin given /\ 4 \in given
      BY <3>1, <3>4
    <3>5. CASE given \subseteq {1, 2} /\ 2 \in given
      BY <3>5
    <3>6. CASE given \subseteq {1}
      <4>1. given = {1}
        BY <2>3, <3>6
      <4>. QED  BY <4>1
    <3>. QED  BY <3>1, <3>2, <3>3, <3>4, <3>5, <3>6
  <2>. DEFINE last == CHOOSE k \in given : \A i \in given : i <= k
  <2>5. last \in given
    <3>. HIDE DEF given
    <3>. QED  BY <2>4
  <2>6. Checks[last] \in Asking(c)
    <3>1. Checks[last] \in DOMAIN c /\ last \in {1, 2, 4, 5, 7}
      <4>. HIDE DEF last, Checks
      <4>. QED  BY <2>5
    <3>2. DOMAIN ModeOf = {"-l", "-c", "-d", "-D", "file"}
      BY DEF ModeOf
    <3>. HIDE DEF last, Checks, ModeOf
    <3>. QED  BY <3>1, <3>2, CheckNames DEF Asking
  <2>7. LastFile(c) = c[Checks[last]]
    <3>. HIDE DEF given, Checks
    <3>. QED  BY <1>4, <2>3, Zenon DEF LastOf, last
  <2>. HIDE DEF last
  <2>. QED  BY <2>6, <2>7, ChoiceFacts DEF Asking
<1>. QED  BY <1>2, <1>5, <1>6

LEMMA MeantFacts ==
  ASSUME NEW c \in Choices, Meant(c)
  PROVE  /\ Wanted("Lexing") <=> "-l" \in DOMAIN c
         /\ Wanted("Compilation") <=> "-c" \in DOMAIN c
         /\ Wanted("CompAndDisassemble") <=> "-d" \in DOMAIN c
         /\ Wanted("Disassembly") <=> "-D" \in DOMAIN c
         /\ Wanted("Interpret") <=> "file" \in DOMAIN c
         /\ Wanted("Repl") <=> DOMAIN c = {}
         /\ pinput.infile = LastFile(c)
         /\ Asking(c) # {} => pinput.infile \in Files
         /\ pinput.outfile = IF "-o" \in DOMAIN c THEN c["-o"] ELSE None
         /\ pinput.silent <=> "-s" \in DOMAIN c
<1>0. DOMAIN ModeOf = {"-l", "-c", "-d", "-D", "file"}
  BY DEF ModeOf
<1>1. CASE DOMAIN c = {}
  <2>1. pinput.modes = {"Repl"} /\ pinput.silent = FALSE /\ pinput.infile = None /\ pinput.outfile = None
    BY <1>1 DEF Meant, Nothing
  <2>2. LastFile(c) = None
    BY <1>1 DEF LastFile
  <2>. QED  BY <1>1, <2>1, <2>2 DEF Wanted, Asking
<1>2. CASE DOMAIN c # {}
  <2>1. Expects(c, 8, pinput)
    BY <1>2 DEF Meant
  <2>2. pinput.modes = {ModeOf[o] : o \in DOMAIN c \cap DOMAIN ModeOf}
    BY <2>1, AllSeen DEF Expects
  <2>3. pinput.infile = LastFile(c)
    BY <2>1, AllSeen DEF Expects
  <2>4. pinput.outfile = IF "-o" \in DOMAIN c THEN c["-o"] ELSE None
    BY <2>1, AllSeen DEF Expects
  <2>5. pinput.silent <=> "-s" \in DOMAIN c
    BY <2>1, AllSeen, Zenon DEF Expects
  <2>6. /\ ModeOf["-l"] = "Lexing" /\ ModeOf["-c"] = "Compilation" /\ ModeOf["-d"] = "CompAndDisassemble"
        /\ ModeOf["-D"] = "Disassembly" /\ ModeOf["file"] = "Interpret"
    BY DEF ModeOf
  <2>7. /\ Wanted("Lexing") <=> "-l" \in DOMAIN c
        /\ Wanted("Compilation") <=> "-c" \in DOMAIN c
        /\ Wanted("CompAndDisassemble") <=> "-d" \in DOMAIN c
        /\ Wanted("Disassembly") <=> "-D" \in DOMAIN c
        /\ Wanted("Interpret") <=> "file" \in DOMAIN c
        /\ ~ Wanted("Repl")
    <3>. HIDE DEF ModeOf
    <3>. QED  BY <1>0, <2>2, <2>6 DEF Wanted
  <2>. HIDE DEF ModeOf
  <2>. QED  BY <1>2, <2>3, <2>4, <2>5, <2>7, AllSeen, Zenon
<1>. QED  BY <1>1, <1>2

LEMMA FirstWanted ==
  ASSUME NEW n \in Nat, NEW modes, DOMAIN modes = 1 .. n, NEW i \in 1 .. n, Wanted(modes[i]),
         \A j \in 1 .. i - 1 : ~ Wanted(modes[j])
  PROVE  First(modes) = modes[i]
<1>. DEFINE D == 1 .. n
            Fits(k) == Wanted(modes[k]) /\ \A j \in 1 .. k - 1 : ~ Wanted(modes[j])
<1>1. ASSUME NEW k \in D, Fits(k) PROVE k = i
  <2>1. ~ (k \in 1 .. i - 1)
    BY <1>1, Zenon
  <2>2. ~ (i \in 1 .. k - 1)
    BY <1>1, Zenon
  <2>. QED  BY <2>1, <2>2
<1>2. i \in D /\ Fits(i)
  BY Zenon
<1>. HIDE DEF D, Fits
<1>3. (CHOOSE k \in D : Fits(k)) = i
  BY <1>1, <1>2
<1>4. First(modes) = modes[CHOOSE k \in D : Fits(k)]
  BY Zenon DEF First, D, Fits
<1>. QED  BY <1>3, <1>4, Zenon

\* The first mode that is wanted is the one main() goes into.
LEMMA ModeIs ==
  /\ Wanted("Compilation") => Mode = "Compilation"
  /\ ~ Wanted("Compilation") /\ Wanted("Disassembly") => Mode = "Disassembly"
  /\ ~ Wanted("Compilation") /\ ~ Wanted("Disassembly") /\ Wanted("CompAndDisassemble") =>
       Mode = "CompAndDisassemble"
  /\ ~ Wanted("Compilation") /\ ~ Wanted("Disassembly") /\ ~ Wanted("CompAndDisassemble")
       /\ Wanted("Repl") => Mode = "Repl"
  /\ ~ Wanted("Compilation") /\ ~ Wanted("Disassembly") /\ ~ Wanted("CompAndDisassemble")
       /\ ~ Wanted("Repl") /\ Wanted("Interpret") => Mode = "Interpret"
  /\ ~ Wanted("Compilation") /\ ~ Wanted("Disassembly") /\ ~ Wanted("CompAndDisassemble")
       /\ ~ Wanted("Repl") /\ ~ Wanted("Interpret") => Mode = None
<1>. DEFINE modes == <<"Compilation", "Disassembly", "CompAndDisassemble", "Repl", "Interpret">>
<1>1. /\ DOMAIN modes = 1 .. 5 /\ modes[1] = "Compilation" /\ modes[2] = "Disassembly"
      /\ modes[3] = "CompAndDisassemble" /\ modes[4] = "Repl" /\ modes[5] = "Interpret"
  OBVIOUS
<1>2. Mode = First(modes)
  BY DEF Mode
<1>. HIDE DEF modes
<1>3. ASSUME NEW i \in 1 .. 5, Wanted(modes[i]), \A j \in 1 .. i - 1 : ~ Wanted(modes[j])
      PROVE  Mode = modes[i]
  BY <1>1, <1>2, <1>3, FirstWanted
<1>4. \A i \in 1 .. 5 : i = 1 \/ i = 2 \/ i = 3 \/ i = 4 \/ i = 5
  OBVIOUS
<1>5. CASE Wanted("Compilation")
  <2>1. \A j \in 1 .. 1 - 1 : ~ Wanted(modes[j])
    OBVIOUS
  <2>. QED  BY <1>1, <1>3, <1>5, <2>1
<1>6. CASE ~ Wanted("Compilation") /\ Wanted("Disassembly")
  <2>1. \A j \in 1 .. 2 - 1 : j = 1
    OBVIOUS
  <2>. QED  BY <1>1, <1>3, <1>6, <2>1
<1>7. CASE ~ Wanted("Compilation") /\ ~ Wanted("Disassembly") /\ Wanted("CompAndDisassemble")
  <2>1. \A j \in 1 .. 3 - 1 : j = 1 \/ j = 2
    OBVIOUS
  <2>. QED  BY <1>1, <1>3, <1>7, <2>1
<1>8. CASE ~ Wanted("Compilation") /\ ~ Wanted("Disassembly") /\ ~ Wanted("CompAndDisassemble")
           /\ Wanted("Repl")
  <2>1. \A j \in 1 .. 4 - 1 : j = 1 \/ j = 2 \/ j = 3
    OBVIOUS
  <2>. QED  BY <1>1, <1>3, <1>8, <2>1
<1>9. CASE ~ Wanted("Compilation") /\ ~ Wanted("Disassembly") /\ ~ Wanted("CompAndDisassemble")
           /\ ~ Wanted("Repl") /\ Wanted("Interpret")
  <2>1. \A j \in 1 .. 5 - 1 : j = 1 \/ j = 2 \/ j = 3 \/ j = 4
    OBVIOUS
  <2>. QED  BY <1>1, <1>3, <1>9, <2>1
<1>10. CASE ~ Wanted("Compilation") /\ ~ Wanted("Disassembly") /\ ~ Wanted("CompAndDisassemble")
            /\ ~ Wanted("Repl") /\ ~ Wanted("Interpret")
  <2>1. \A k \in DOMAIN modes : ~ Wanted(modes[k])
    BY <1>1, <1>4, <1>10
  <2>2. Mode = None
    BY <1>2, <2>1, Zenon DEF First
  <2>. QED  BY <1>10, <2>2
<1>. QED  BY <1>5, <1>6, <1>7, <1>8, <1>9, <1>10

LEMMA LexingOrdered ==
  ASSUME TypeOK, Ordered, choice # None, Lexing
  PROVE  Ordered'
<1>1. phase = "lexing" /\ choice' = choice
  BY DEF Lexing, Unread, End
<1>2. choice \in Choices /\ Meant(choice) /\ work = << >>
  BY <1>1 DEF Ordered
<1>3. Wanted("Lexing") <=> "-l" \in DOMAIN choice
  BY <1>2, MeantFacts
<1>4. pinput.infile = LastFile(choice)
  BY <1>2, MeantFacts
<1>5. Wanted("Lexing") => pinput.infile \in Files
  <2>1. "-l" \in DOMAIN ModeOf
    BY DEF ModeOf
  <2>. QED  BY <1>2, <1>3, <2>1, MeantFacts DEF Asking
<1>6. /\ work' = IF Wanted("Lexing") THEN Done("Lexing") ELSE work
      /\ phase' = "modes" /\ UNCHANGED <<choice, argv, check, pinput, status>>
  BY <1>5 DEF Lexing, Readable
<1>7. work' = Listed(choice)
  <2>1. Append(<< >>, [mode |-> "Lexing", file |-> pinput.infile, out |-> None])
          = <<[mode |-> "Lexing", file |-> pinput.infile, out |-> None]>>
    OBVIOUS
  <2>. QED  BY <1>2, <1>3, <1>4, <1>6, <2>1, Zenon DEF Done, Listed
<1>8. Meant(choice)'
  BY <1>2, <1>6 DEF Meant
<1>. QED  BY <1>2, <1>6, <1>7, <1>8 DEF Ordered

\* What is done after the list of the tokens.
LEMMA AskedIs ==
  ASSUME NEW c \in Choices
  PROVE  /\ DOMAIN c = {} =>
              Asked(c) = Append(Listed(c), [mode |-> "Repl", file |-> LastFile(c), out |-> None])
         /\ "-c" \in DOMAIN c =>
              Asked(c) = Append(Listed(c), [mode |-> "Compilation", file |-> LastFile(c),
                                out |-> IF "-o" \in DOMAIN c THEN c["-o"] ELSE DefaultOut])
         /\ "-c" \notin DOMAIN c /\ "-D" \in DOMAIN c =>
              Asked(c) = Append(Listed(c), [mode |-> "Disassembly", file |-> LastFile(c), out |-> None])
         /\ DOMAIN c \cap {"-c", "-D"} = {} /\ "-d" \in DOMAIN c =>
              Asked(c) = Append(Listed(c), [mode |-> "CompAndDisassemble", file |-> LastFile(c), out |-> None])
         /\ DOMAIN c \cap {"-c", "-D", "-d"} = {} /\ "file" \in DOMAIN c =>
              Asked(c) = Append(Listed(c), [mode |-> "Interpret", file |-> LastFile(c), out |-> None])
         /\ DOMAIN c # {} /\ DOMAIN c \cap {"-c", "-D", "-d", "file"} = {} => Asked(c) = Listed(c)
<1>. DEFINE file == LastFile(c)
            lexing == [mode |-> "Lexing", file |-> file, out |-> None]
<1>1. Listed(c) = IF "-l" \in DOMAIN c THEN <<lexing>> ELSE << >>
  BY DEF Listed
<1>. HIDE DEF lexing
<1>2. ASSUME NEW r PROVE Listed(c) \o <<r>> = Append(Listed(c), r)
  <2>1. CASE "-l" \in DOMAIN c
    <3>1. <<lexing>> \o <<r>> = Append(<<lexing>>, r)
      OBVIOUS
    <3>. QED  BY <1>1, <2>1, <3>1, Zenon
  <2>2. CASE "-l" \notin DOMAIN c
    <3>1. << >> \o <<r>> = Append(<< >>, r)
      OBVIOUS
    <3>. QED  BY <1>1, <2>2, <3>1, Zenon
  <2>. QED  BY <2>1, <2>2
<1>3. Listed(c) \o << >> = Listed(c)
  <2>1. <<lexing>> \o << >> = <<lexing>> /\ << >> \o << >> = << >>
    OBVIOUS
  <2>. QED  BY <1>1, <2>1, Zenon
<1>. USE DEF Asked, Listed
<1>4. CASE DOMAIN c = {}
  <2>1. Asked(c) = Listed(c) \o <<[mode |-> "Repl", file |-> LastFile(c), out |-> None]>>
    BY <1>4
  <2>. HIDE DEF Asked, Listed
  <2>. QED  BY <1>2, <1>4, <2>1, Zenon
<1>5. ASSUME "-c" \in DOMAIN c
      PROVE  Asked(c) = Append(Listed(c), [mode |-> "Compilation", file |-> LastFile(c),
                               out |-> IF "-o" \in DOMAIN c THEN c["-o"] ELSE DefaultOut])
  <2>. DEFINE compiled == [mode |-> "Compilation", file |-> LastFile(c),
                           out |-> IF "-o" \in DOMAIN c THEN c["-o"] ELSE DefaultOut]
  <2>1. Asked(c) = Listed(c) \o <<compiled>>
    BY <1>5
  <2>. HIDE DEF Asked, Listed, compiled
  <2>2. Asked(c) = Append(Listed(c), compiled)
    BY <1>2, <2>1, Zenon
  <2>. QED  BY <2>2 DEF compiled
<1>6. CASE "-c" \notin DOMAIN c /\ "-D" \in DOMAIN c
  <2>1. Asked(c) = Listed(c) \o <<[mode |-> "Disassembly", file |-> LastFile(c), out |-> None]>>
    BY <1>6
  <2>. HIDE DEF Asked, Listed
  <2>. QED  BY <1>2, <1>6, <2>1, Zenon
<1>7. CASE "-c" \notin DOMAIN c /\ "-D" \notin DOMAIN c /\ "-d" \in DOMAIN c
  <2>1. Asked(c) = Listed(c) \o <<[mode |-> "CompAndDisassemble", file |-> LastFile(c), out |-> None]>>
    BY <1>7
  <2>. HIDE DEF Asked, Listed
  <2>. QED  BY <1>2, <1>7, <2>1, Zenon
<1>8. CASE DOMAIN c \cap {"-c", "-D", "-d"} = {} /\ "file" \in DOMAIN c
  <2>1. Asked(c) = Listed(c) \o <<[mode |-> "Interpret", file |-> LastFile(c), out |-> None]>>
    BY <1>8
  <2>. HIDE DEF Asked, Listed
  <2>. QED  BY <1>2, <1>8, <2>1, Zenon
<1>9. CASE DOMAIN c # {} /\ DOMAIN c \cap {"-c", "-D", "-d", "file"} = {}
  <2>1. Asked(c) = Listed(c) \o << >>
    BY <1>9
  <2>. HIDE DEF Asked, Listed
  <2>. QED  BY <1>3, <1>9, <2>1, Zenon
<1>. HIDE DEF Asked, Listed
<1>. QED  BY <1>4, <1>5, <1>6, <1>7, <1>8, <1>9, Zenon

\* How a choice ends.
LEMMA EndsOrdered ==
  ASSUME choice \in Choices, Meant(choice), NEW w, NEW s \in {"success", "failure"},
         w = Asked(choice), End(w, s)
  PROVE  Ordered'
<1>1. /\ phase' = "ended" /\ choice' = choice /\ work' = w /\ status' = s
      /\ pinput' = pinput
  BY DEF End
<1>2. Meant(choice)'
  BY <1>1 DEF Meant
<1>. QED  BY <1>1, <1>2 DEF Ordered

LEMMA ModesOrdered ==
  ASSUME TypeOK, Ordered, choice # None,
         Compile \/ Repl \/ NoMode \/ \E m \in {"Disassembly", "CompAndDisassemble", "Interpret"} : Read(m)
  PROVE  Ordered'
<1>. DEFINE c == choice
            asks(o) == o \in DOMAIN c
            plain(m) == [mode |-> m, file |-> LastFile(c), out |-> None]
<1>1. phase = "modes"
  BY DEF Compile, Repl, NoMode, Read
<1>2. c \in Choices /\ Meant(c) /\ work = Listed(c)
  BY <1>1 DEF Ordered
<1>3. /\ Wanted("Compilation") <=> asks("-c")
      /\ Wanted("CompAndDisassemble") <=> asks("-d")
      /\ Wanted("Disassembly") <=> asks("-D")
      /\ Wanted("Interpret") <=> asks("file")
      /\ Wanted("Repl") <=> DOMAIN c = {}
      /\ pinput.infile = LastFile(c)
      /\ Asking(c) # {} => pinput.infile \in Files
      /\ pinput.outfile = IF "-o" \in DOMAIN c THEN c["-o"] ELSE None
  BY <1>2, MeantFacts
<1>4. \A o \in {"-c", "-d", "-D", "file"} : asks(o) => Readable
  BY <1>3 DEF Asking, ModeOf, Readable
<1>5. \A m : Done(m) = Append(Listed(c), plain(m))
  BY <1>2, <1>3 DEF Done
<1>6. None \notin Modes
  BY NamesAssumption
<1>7. {"Compilation", "CompAndDisassemble", "Disassembly", "Interpret", "Repl"} \subseteq Modes
  <2>1. /\ ModeOf["-l"] = "Lexing" /\ ModeOf["-c"] = "Compilation" /\ ModeOf["-d"] = "CompAndDisassemble"
        /\ ModeOf["-D"] = "Disassembly" /\ ModeOf["file"] = "Interpret"
        /\ DOMAIN ModeOf = {"-l", "-c", "-d", "-D", "file"}
    BY DEF ModeOf
  <2>. HIDE DEF ModeOf
  <2>. QED  BY <2>1 DEF Modes
<1>8. /\ Mode = "Compilation" => asks("-c")
      /\ Mode = "Disassembly" => ~ asks("-c") /\ asks("-D")
      /\ Mode = "CompAndDisassemble" => ~ asks("-c") /\ ~ asks("-D") /\ asks("-d")
      /\ Mode = "Repl" => DOMAIN c = {}
      /\ Mode = "Interpret" => DOMAIN c \cap {"-c", "-D", "-d"} = {} /\ asks("file")
      /\ Mode = None => DOMAIN c # {} /\ DOMAIN c \cap {"-c", "-D", "-d", "file"} = {}
  BY <1>3, <1>6, <1>7, ModeIs
<1>9. ASSUME Compile PROVE Ordered'
  <2>1. asks("-c") /\ Readable
    BY <1>4, <1>8, <1>9 DEF Compile
  <2>. DEFINE out == IF pinput.outfile = None THEN DefaultOut ELSE pinput.outfile
              all == Append(work, [mode |-> "Compilation", file |-> pinput.infile, out |-> out])
  <2>2. out = IF "-o" \in DOMAIN c THEN c["-o"] ELSE DefaultOut
    BY <1>2, <1>3, ChoiceFacts
  <2>3. all = Asked(c)
    <3>1. Asked(c) = Append(Listed(c), [mode |-> "Compilation", file |-> LastFile(c),
                            out |-> IF "-o" \in DOMAIN c THEN c["-o"] ELSE DefaultOut])
      BY <1>2, <2>1, AskedIs
    <3>. HIDE DEF out
    <3>. QED  BY <1>2, <1>3, <2>2, <3>1
  <2>4. \E s \in {"success", "failure"} : End(all, s)
    BY <1>9, <2>1 DEF Compile
  <2>. HIDE DEF all
  <2>. QED  BY <1>2, <2>3, <2>4, EndsOrdered
<1>10. ASSUME NEW m \in {"Disassembly", "CompAndDisassemble", "Interpret"}, Read(m) PROVE Ordered'
  <2>1. Mode = m
    BY <1>10 DEF Read
  <2>2. Readable
    BY <1>4, <1>8, <2>1
  <2>3. End(Done(m), "success") \/ End(Done(m), "failure")
    BY <1>10, <2>2 DEF Read
  <2>4. Done(m) = Asked(c)
    <3>1. Asked(c) = Append(Listed(c), plain(m))
      <4>1. CASE m = "Disassembly"
        BY <1>2, <1>8, <2>1, <4>1, AskedIs
      <4>2. CASE m = "CompAndDisassemble"
        <5>1. DOMAIN c \cap {"-c", "-D"} = {} /\ "-d" \in DOMAIN c
          BY <1>8, <2>1, <4>2
        <5>. QED  BY <1>2, <4>2, <5>1, AskedIs
      <4>3. CASE m = "Interpret"
        BY <1>2, <1>8, <2>1, <4>3, AskedIs
      <4>. QED  BY <4>1, <4>2, <4>3
    <3>. QED  BY <1>5, <3>1, Zenon
  <2>. QED  BY <1>2, <2>3, <2>4, EndsOrdered
<1>11. ASSUME Repl PROVE Ordered'
  <2>1. Mode = "Repl" /\ End(Done("Repl"), "success")
    BY <1>11 DEF Repl
  <2>2. Asked(c) = Append(Listed(c), plain("Repl"))
    BY <1>2, <1>8, <2>1, AskedIs
  <2>3. Done("Repl") = Asked(c)
    BY <1>5, <2>2, Zenon
  <2>. QED  BY <1>2, <2>1, <2>3, EndsOrdered
<1>12. ASSUME NoMode PROVE Ordered'
  <2>1. Mode = None /\ End(work, "success")
    BY <1>12 DEF NoMode
  <2>2. Asked(c) = work
    BY <1>2, <1>8, <2>1, AskedIs
  <2>. QED  BY <1>2, <2>1, <2>2, EndsOrdered
<1>. QED  BY <1>9, <1>10, <1>11, <1>12

LEMMA StepOrdered == TypeOK /\ Ordered /\ [Next]_vars => Ordered'
<1>. SUFFICES ASSUME TypeOK, Ordered, [Next]_vars PROVE Ordered'
  OBVIOUS
<1>1. choice' = choice
  BY DEF Next, vars, Arguments, Skip, NamedFile, NoFile, Silent, Operand, Again, Lexing, Unread,
         Compile, Read, Repl, NoMode, Ended, End
<1>2. CASE choice = None
  BY <1>1, <1>2 DEF Ordered
<1>3. CASE choice # None /\ Next
  <2>1. CASE Ended
    BY <2>1 DEF Ended, vars, Ordered, Meant
  <2>. QED  BY <1>3, <2>1, ArgumentsOrdered, LexingOrdered, ModesOrdered DEF Next
<1>4. CASE UNCHANGED vars
  BY <1>4 DEF vars, Ordered, Meant
<1>. QED  BY <1>2, <1>3, <1>4

\* Everything that is done was named, and its file is the last that was.
LEMMA DoneWasNamed ==
  ASSUME NEW c \in Choices, NEW k \in DOMAIN Asked(c)
  PROVE  Asked(c)[k].mode \in ModesNamed(c) /\ Asked(c)[k].file = LastFile(c)
<1>. DEFINE listed == [mode |-> "Lexing", file |-> LastFile(c), out |-> None]
<1>1. /\ ModeOf["-l"] = "Lexing" /\ ModeOf["-c"] = "Compilation" /\ ModeOf["-d"] = "CompAndDisassemble"
      /\ ModeOf["-D"] = "Disassembly" /\ ModeOf["file"] = "Interpret"
      /\ DOMAIN ModeOf = {"-l", "-c", "-d", "-D", "file"}
  BY DEF ModeOf
<1>2. Listed(c) = IF "-l" \in DOMAIN c THEN <<listed>> ELSE << >>
  BY DEF Listed
<1>3. /\ listed.mode = "Lexing" /\ listed.file = LastFile(c)
      /\ "-l" \in DOMAIN c => "Lexing" \in ModesNamed(c)
  <2>. HIDE DEF ModeOf
  <2>. QED  BY <1>1 DEF ModesNamed, Asking
<1>. HIDE DEF listed
<1>4. ASSUME Asked(c) = Listed(c)
      PROVE  Asked(c)[k].mode \in ModesNamed(c) /\ Asked(c)[k].file = LastFile(c)
  <2>1. CASE "-l" \in DOMAIN c
    <3>1. Asked(c) = <<listed>> /\ k = 1
      BY <1>2, <1>4, <2>1
    <3>. QED  BY <1>3, <2>1, <3>1
  <2>2. CASE "-l" \notin DOMAIN c
    BY <1>2, <1>4, <2>2
  <2>. QED  BY <2>1, <2>2
<1>5. ASSUME NEW r, r.mode \in ModesNamed(c), r.file = LastFile(c), Asked(c) = Append(Listed(c), r)
      PROVE  Asked(c)[k].mode \in ModesNamed(c) /\ Asked(c)[k].file = LastFile(c)
  <2>1. CASE "-l" \in DOMAIN c
    <3>1. Asked(c) = Append(<<listed>>, r)
      BY <1>2, <1>5, <2>1, Zenon
    <3>2. <<listed>> \in Seq({listed, r})
      OBVIOUS
    <3>. DEFINE done == Append(<<listed>>, r)
    <3>3. DOMAIN done = 1 .. 2 /\ done[1] = listed /\ done[2] = r
      BY <3>2
    <3>. HIDE DEF done
    <3>4. Asked(c) = done
      BY <3>1 DEF done
    <3>5. k = 1 \/ k = 2
      BY <3>3, <3>4
    <3>. QED  BY <1>3, <1>5, <2>1, <3>3, <3>4, <3>5
  <2>2. CASE "-l" \notin DOMAIN c
    <3>1. Asked(c) = <<r>> /\ k = 1
      BY <1>2, <1>5, <2>2
    <3>. QED  BY <1>5, <3>1
  <2>. QED  BY <2>1, <2>2
<1>6. \A o \in {"-c", "-d", "-D", "file"} : o \in DOMAIN c => ModeOf[o] \in ModesNamed(c)
  <2>. HIDE DEF ModeOf
  <2>. QED  BY <1>1 DEF ModesNamed, Asking
<1>7. ASSUME NEW m \in ModesNamed(c),
             Asked(c) = Append(Listed(c), [mode |-> m, file |-> LastFile(c), out |-> None])
      PROVE  Asked(c)[k].mode \in ModesNamed(c) /\ Asked(c)[k].file = LastFile(c)
  <2>. DEFINE r == [mode |-> m, file |-> LastFile(c), out |-> None]
  <2>1. r.mode = m /\ r.file = LastFile(c)
    OBVIOUS
  <2>2. Asked(c) = Append(Listed(c), r)
    BY <1>7
  <2>. HIDE DEF r
  <2>. QED  BY <1>5, <2>1, <2>2
<1>8. CASE DOMAIN c = {}
  <2>1. "Repl" \in ModesNamed(c)
    BY <1>8 DEF ModesNamed
  <2>. QED  BY <1>7, <1>8, <2>1, AskedIs
<1>9. CASE "-c" \in DOMAIN c
  <2>. DEFINE r == [mode |-> "Compilation", file |-> LastFile(c),
                    out |-> IF "-o" \in DOMAIN c THEN c["-o"] ELSE DefaultOut]
  <2>1. r.mode = "Compilation" /\ r.file = LastFile(c)
    OBVIOUS
  <2>2. Asked(c) = Append(Listed(c), r)
    BY <1>9, AskedIs
  <2>3. "Compilation" \in ModesNamed(c)
    BY <1>1, <1>6, <1>9
  <2>. HIDE DEF r
  <2>. QED  BY <1>5, <2>1, <2>2, <2>3
<1>10. CASE "-c" \notin DOMAIN c /\ "-D" \in DOMAIN c
  <2>1. "Disassembly" \in ModesNamed(c)
    BY <1>1, <1>6, <1>10
  <2>. QED  BY <1>7, <1>10, <2>1, AskedIs
<1>11. CASE DOMAIN c \cap {"-c", "-D"} = {} /\ "-d" \in DOMAIN c
  <2>1. "CompAndDisassemble" \in ModesNamed(c)
    BY <1>1, <1>6, <1>11
  <2>. QED  BY <1>7, <1>11, <2>1, AskedIs
<1>12. CASE DOMAIN c \cap {"-c", "-D", "-d"} = {} /\ "file" \in DOMAIN c
  <2>1. "Interpret" \in ModesNamed(c)
    BY <1>1, <1>6, <1>12
  <2>. QED  BY <1>7, <1>12, <2>1, AskedIs
<1>13. CASE DOMAIN c # {} /\ DOMAIN c \cap {"-c", "-D", "-d", "file"} = {}
  BY <1>4, <1>13, AskedIs
<1>. QED  BY <1>8, <1>9, <1>10, <1>11, <1>12, <1>13

\* One mode alone is carried out, with its own file.
LEMMA OneThing ==
  ASSUME NEW c \in Choices, NEW o \in Asking(c), Asking(c) = {o}
  PROVE  Asked(c) = <<Order(c, o)>>
<1>1. /\ ModeOf["-l"] = "Lexing" /\ ModeOf["-c"] = "Compilation" /\ ModeOf["-d"] = "CompAndDisassemble"
      /\ ModeOf["-D"] = "Disassembly" /\ ModeOf["file"] = "Interpret"
      /\ DOMAIN ModeOf = {"-l", "-c", "-d", "-D", "file"}
  BY DEF ModeOf
<1>. HIDE DEF ModeOf
<1>2. LastFile(c) = c[o]
  BY AllSeen
<1>3. o \in DOMAIN c /\ o \in {"-l", "-c", "-d", "-D", "file"}
      /\ \A w \in {"-l", "-c", "-d", "-D", "file"} : w \in DOMAIN c => w = o
  BY <1>1 DEF Asking
<1>4. \A r : Append(<< >>, r) = <<r>>
  OBVIOUS
<1>5. CASE o = "-l"
  <2>1. DOMAIN c # {} /\ DOMAIN c \cap {"-c", "-D", "-d", "file"} = {}
    BY <1>3, <1>5
  <2>2. Asked(c) = Listed(c)
    BY <2>1, AskedIs
  <2>. QED  BY <1>1, <1>2, <1>3, <1>5, <2>2 DEF Listed, Order
<1>6. ASSUME o # "-l" PROVE Listed(c) = << >>
  BY <1>3, <1>6 DEF Listed
<1>7. CASE o = "-c"
  <2>1. Asked(c) = Append(Listed(c), [mode |-> "Compilation", file |-> LastFile(c),
                          out |-> IF "-o" \in DOMAIN c THEN c["-o"] ELSE DefaultOut])
    BY <1>3, <1>7, AskedIs
  <2>. QED  BY <1>1, <1>2, <1>4, <1>6, <1>7, <2>1 DEF Order
<1>8. CASE o = "-D"
  <2>1. Asked(c) = Append(Listed(c), [mode |-> "Disassembly", file |-> LastFile(c), out |-> None])
    BY <1>3, <1>8, AskedIs
  <2>. QED  BY <1>1, <1>2, <1>4, <1>6, <1>8, <2>1 DEF Order
<1>9. CASE o = "-d"
  <2>1. DOMAIN c \cap {"-c", "-D"} = {} /\ "-d" \in DOMAIN c
    BY <1>3, <1>9
  <2>2. Asked(c) = Append(Listed(c), [mode |-> "CompAndDisassemble", file |-> LastFile(c), out |-> None])
    BY <2>1, AskedIs
  <2>. QED  BY <1>1, <1>2, <1>4, <1>6, <1>9, <2>2 DEF Order
<1>10. CASE o = "file"
  <2>1. DOMAIN c \cap {"-c", "-D", "-d"} = {} /\ "file" \in DOMAIN c
    BY <1>3, <1>10
  <2>2. Asked(c) = Append(Listed(c), [mode |-> "Interpret", file |-> LastFile(c), out |-> None])
    BY <2>1, AskedIs
  <2>. QED  BY <1>1, <1>2, <1>4, <1>6, <1>10, <2>2 DEF Order
<1>. QED  BY <1>3, <1>5, <1>7, <1>8, <1>9, <1>10

LEMMA OrderedImplies == TypeOK /\ Ordered => OrderedOptions
<1>. SUFFICES ASSUME TypeOK, Ordered, choice # None, phase = "ended" PROVE OrderedOptions
  BY DEF OrderedOptions
<1>1. choice \in Choices /\ Meant(choice) /\ status \in {"success", "failure"} /\ work = Asked(choice)
  BY DEF Ordered
<1>2. pinput.silent <=> "-s" \in DOMAIN choice
  BY <1>1, MeantFacts
<1>3. pinput.silent \in BOOLEAN
  BY DEF TypeOK, Input
<1>. DEFINE silent == pinput.silent
            asked == "-s" \in DOMAIN choice
<1>4. silent = asked
  <2>1. silent \in BOOLEAN /\ asked \in BOOLEAN /\ (silent <=> asked)
    BY <1>2, <1>3
  <2>2. \A p, q \in BOOLEAN : (p <=> q) => p = q
    OBVIOUS
  <2>. HIDE DEF silent, asked
  <2>. QED  BY <2>1, <2>2
<1>5. pinput.modes = ModesNamed(choice)
  <2>1. CASE DOMAIN choice = {}
    BY <1>1, <2>1 DEF Meant, Nothing, ModesNamed
  <2>2. CASE DOMAIN choice # {}
    <3>1. pinput.modes = {ModeOf[o] : o \in Seen(choice, 8) \cap DOMAIN ModeOf}
      BY <1>1, <2>2, Zenon DEF Meant, Expects
    <3>2. Seen(choice, 8) = DOMAIN choice
      BY <1>1, AllSeen
    <3>. QED  BY <2>2, <3>1, <3>2, Zenon DEF ModesNamed, Asking
  <2>. QED  BY <2>1, <2>2
<1>6. pinput.outfile = OutNamed(choice)
  BY <1>1, MeantFacts DEF OutNamed
<1>7. \A o \in Asking(choice) : Asking(choice) = {o} => work = <<Order(choice, o)>>
  BY <1>1, OneThing
<1>. DEFINE files == IF DOMAIN choice = {} THEN {None} ELSE {choice[o] : o \in Asking(choice)}
<1>8. LastFile(choice) \in files \/ work = << >>
  <2>1. CASE DOMAIN choice = {}
    BY <2>1 DEF LastFile
  <2>2. CASE DOMAIN choice # {} /\ Asking(choice) # {}
    <3>1. PICK o \in Asking(choice) : LastFile(choice) = choice[o]
      BY <1>1, <2>2, AllSeen
    <3>2. LastFile(choice) \in {choice[w] : w \in Asking(choice)}
      BY <3>1
    <3>3. files = {choice[w] : w \in Asking(choice)}
      BY <2>2
    <3>. QED  BY <3>2, <3>3
  <2>3. CASE DOMAIN choice # {} /\ Asking(choice) = {}
    <3>1. DOMAIN choice \cap {"-l", "-c", "-D", "-d", "file"} = {}
      BY <2>3 DEF Asking, ModeOf
    <3>2. Asked(choice) = Listed(choice)
      BY <1>1, <2>3, <3>1, AskedIs
    <3>3. Listed(choice) = << >>
      BY <3>1 DEF Listed
    <3>4. work = << >>
      BY <1>1, <3>2, <3>3
    <3>. QED  BY <3>4
  <2>. QED  BY <2>1, <2>2, <2>3
<1>9. \A k \in DOMAIN work : work[k].mode \in ModesNamed(choice) /\ work[k].file \in files
  <2>1. SUFFICES ASSUME NEW k \in DOMAIN work
                 PROVE  work[k].mode \in ModesNamed(choice) /\ work[k].file \in files
    OBVIOUS
  <2>2. work # << >>
    BY <2>1
  <2>3. work[k].mode \in ModesNamed(choice) /\ work[k].file = LastFile(choice)
    BY <1>1, DoneWasNamed
  <2>. HIDE DEF files
  <2>. QED  BY <1>8, <2>2, <2>3
<1>. QED  BY <1>1, <1>4, <1>5, <1>6, <1>7, <1>9, Zenon DEF OrderedOptions

\* Whatever options a command line in the order of the checks has, and whatever files: main()
\* finds the modes that were named and no others, the object file, and whether to be silent.
\* One mode alone it carries out, with its own file.  With several it does nothing that was not
\* asked for, and touches no file that was not named; that it does all of it the theorem does
\* not say, for it does not.
THEOREM OptionsAreUnderstood == Spec => []OrderedOptions
<1>1. Init => TypeOK /\ ModesHaveFiles /\ Ordered
  BY StartTypes, StartOrdered
<1>2. (TypeOK /\ ModesHaveFiles /\ Ordered) /\ [Next]_vars => (TypeOK /\ ModesHaveFiles /\ Ordered)'
  BY StepTypes, StepOrdered
<1>. QED  BY <1>1, <1>2, OrderedImplies, PTL DEF Spec
=============================================================================
