---------------------------- MODULE CommandLine ----------------------------
(***************************************************************************)
(* The line editor of the prompt, scline.c: grabInputLine() reads keys,    *)
(* edits the candidate and shows earlier lines until the line is entered.  *)
(* One step is one turn of its loop.                                       *)
(*                                                                         *)
(* The candidate is a buffer of characters, as in C; the other strings are *)
(* only ever copied whole and are sequences.                               *)
(***************************************************************************)
EXTENDS Integers, Sequences

CONSTANTS
  Chars,          \* the printable characters
  LineLength,     \* DEFAULT_LINE_LENGTH
  HistoryLength,  \* desiredHistoryLength
  MaxCapacity     \* bound: realloc() gives no buffer longer than this

\* Characters that are not printable; Nul also stands for those without a meaning.
Nul == "nul"
Controls == {Nul, "backspace", "escape"}

ASSUME CharsAssumption == Chars \cap Controls = {}
ASSUME LengthsAssumption ==
  LineLength \in Nat \ {0} /\ HistoryLength \in Nat \ {0} /\ MaxCapacity \in Nat

VARIABLES
  lineCapacity,      \* line->lineCapacity
  candidate,         \* line->candidate
  cursorIndex,       \* line->cursorIndex
  stMemory,          \* line->stMemory
  isViewingHistory,  \* line->isViewingHistory
  history,           \* line->history
  c,                 \* the character grabInputLine() read last
  input,             \* "open", or "hung" once read() returns 0
  output,            \* the line that grabInputLine() returned
  status             \* see Status

vars == <<lineCapacity, candidate, cursorIndex, stMemory, isViewingHistory, history, c,
          input, output, status>>

Status == {"reading",    \* in grabInputLine()
           "returned",   \* in main(), with a line
           "exit",       \* "realloc failed"
           "wild"}       \* a string without an end, or none at all, was read

-----------------------------------------------------------------------------
(* Strings *)

IsString(buffer) == \E k \in DOMAIN buffer : buffer[k] = Nul
strlen(buffer) ==
  CHOOSE n \in DOMAIN buffer : buffer[n] = Nul /\ \A k \in 0 .. n - 1 : buffer[k] # Nul

\* What the buffer spells, and the buffer that strcpy() into zeroed memory leaves.
Spelling(buffer) == [k \in 1 .. strlen(buffer) |-> buffer[k - 1]]
Written(s) == [k \in 0 .. lineCapacity - 1 |-> IF k < Len(s) THEN s[k + 1] ELSE Nul]

Text == Spelling(candidate)
Blank == [k \in 0 .. lineCapacity - 1 |-> Nul]

-----------------------------------------------------------------------------
(* The history, the most recent line first *)

History == [index : Nat, size : Nat, width : Nat, records : [0 .. HistoryLength - 1 -> Seq(Chars)]]

_historyMoveLater(h) == IF h.index + 1 < h.size THEN [h EXCEPT !.index = @ + 1] ELSE h
_historyMoveToLast(h) == IF h.size > 0 THEN [h EXCEPT !.index = h.size - 1] ELSE h
_historyMoveToFirst(h) == [h EXCEPT !.index = 0]
_historyGetAtIndex(h) == h.records[h.index]

\* A line that is blank or the same as the most recent one is not recorded.
_historyRecordLine(h, addition) ==
  IF addition \in {h.records[0], <<>>} THEN h
  ELSE [h EXCEPT !.records = [k \in DOMAIN @ |-> IF k = 0 THEN addition ELSE @[k - 1]],
                 !.size = IF @ < HistoryLength THEN @ + 1 ELSE @]

-----------------------------------------------------------------------------
(* Reading *)

Init ==
  /\ lineCapacity = LineLength
  /\ candidate = [k \in 0 .. LineLength - 1 |-> Nul]
  /\ cursorIndex = 0
  /\ stMemory = <<>>
  /\ isViewingHistory = FALSE
  /\ history = [index |-> 0, size |-> 0, width |-> LineLength,
                records |-> [k \in 0 .. HistoryLength - 1 |-> <<>>]]
  /\ c = Nul
  /\ input = "open"
  /\ output = <<>>
  /\ status = "reading"

\* A turn of the loop with ch: read() has stored it, or has stored nothing and it is
\* still there.  The string on the screen must have an end.
Turn(ch) ==
  /\ status = "reading"
  /\ IsString(candidate)
  /\ input = "hung" => ch = c
  /\ c' = ch
  /\ UNCHANGED <<input, output>>

\* An escape sequence, which needs more characters to come.
Escape == Turn("escape") /\ input = "open"

\* The line is edited, or replaced by s.
Edit(buffer, cursor) ==
  /\ candidate' = buffer
  /\ cursorIndex' = cursor
  /\ UNCHANGED <<lineCapacity, stMemory, isViewingHistory, history, status>>

_writeToCandidate(s) ==
  /\ candidate' = Written(s)
  /\ cursorIndex' = Len(s)
  /\ UNCHANGED lineCapacity

-----------------------------------------------------------------------------
(* Characters *)

\* _insertAtCandidateCursor looks for room behind the cursor.
NewCapacity == IF cursorIndex + 1 >= lineCapacity THEN 2 * lineCapacity ELSE lineCapacity

Inserted(ch) ==
  LET n == strlen(candidate)
      wide == [k \in 0 .. NewCapacity - 1 |-> IF k < lineCapacity THEN candidate[k] ELSE Nul]
  IN  IF cursorIndex = n
        THEN [wide EXCEPT ![n] = ch]
        ELSE [k \in DOMAIN wide |-> IF k = cursorIndex THEN ch
                                    ELSE IF k \in cursorIndex + 2 .. n THEN wide[k - 1]
                                    ELSE wide[k]]

\* Mutant: the records of the history keep their length.
Visible_NarrowHistory(ch) ==
  /\ Turn(ch)
  /\ NewCapacity <= MaxCapacity
  /\ lineCapacity' = NewCapacity
  /\ candidate' = Inserted(ch)
  /\ cursorIndex' = cursorIndex + 1
  /\ isViewingHistory' = FALSE
  /\ history' = [history EXCEPT !.index = IF isViewingHistory THEN 0 ELSE @]
  /\ UNCHANGED <<stMemory, status>>

\* Mutant: the place in the history is kept when an earlier line is edited.
Visible_KeepsIndex(ch) ==
  /\ Turn(ch)
  /\ NewCapacity <= MaxCapacity
  /\ lineCapacity' = NewCapacity
  /\ candidate' = Inserted(ch)
  /\ cursorIndex' = cursorIndex + 1
  /\ isViewingHistory' = FALSE
  /\ history' = [history EXCEPT !.width = NewCapacity]
  /\ UNCHANGED <<stMemory, status>>

Visible(ch) ==
  /\ Turn(ch)
  /\ NewCapacity <= MaxCapacity
  /\ lineCapacity' = NewCapacity
  /\ candidate' = Inserted(ch)
  /\ cursorIndex' = cursorIndex + 1
  /\ isViewingHistory' = FALSE
  /\ history' = [history EXCEPT !.index = IF isViewingHistory THEN 0 ELSE @,
                                !.width = NewCapacity]
  /\ UNCHANGED <<stMemory, status>>

OutOfMemory(ch) ==
  /\ Turn(ch)
  /\ NewCapacity > MaxCapacity
  /\ status' = "exit"
  /\ UNCHANGED <<lineCapacity, candidate, cursorIndex, stMemory, isViewingHistory, history>>

\* Mutant: what is behind the cursor is not moved but cut off.
Removed_LeavesTail(cursor) == [candidate EXCEPT ![cursor - 1] = Nul]

\* _backspaceAtCursor, for the cursor behind the character that goes.
Removed(cursor) ==
  [k \in DOMAIN candidate |->
     IF k \in cursor - 1 .. lineCapacity - 2 THEN candidate[k + 1] ELSE candidate[k]]

Backspace ==
  /\ Turn("backspace")
  /\ IF cursorIndex = 0
       THEN Edit(candidate, 0)
       ELSE Edit(IF cursorIndex = strlen(candidate)
                   THEN [candidate EXCEPT ![cursorIndex - 1] = Nul]
                   ELSE Removed(cursorIndex),
                 cursorIndex - 1)

Delete == Escape /\ Edit(Removed(cursorIndex + 1), cursorIndex)

-----------------------------------------------------------------------------
(* Keys *)

ArrowRight ==
  Escape /\ Edit(candidate, IF cursorIndex < strlen(candidate) THEN cursorIndex + 1 ELSE cursorIndex)

ArrowLeft == Escape /\ Edit(candidate, IF cursorIndex > 0 THEN cursorIndex - 1 ELSE 0)
Home == Escape /\ Edit(candidate, 0)
End == Escape /\ Edit(candidate, strlen(candidate))

\* Mutant: that history is shown is not noted.
ArrowUp_NotNoted ==
  /\ Escape
  /\ history.size > 0
  /\ IF isViewingHistory
       THEN history' = _historyMoveLater(history) /\ UNCHANGED stMemory
       ELSE stMemory' = Text /\ UNCHANGED history
  /\ UNCHANGED isViewingHistory
  /\ _writeToCandidate(_historyGetAtIndex(history'))
  /\ UNCHANGED status

ArrowUp ==
  /\ Escape
  /\ history.size > 0
  /\ IF isViewingHistory
       THEN history' = _historyMoveLater(history) /\ UNCHANGED stMemory
       ELSE stMemory' = Text /\ UNCHANGED history
  /\ isViewingHistory' = TRUE
  /\ _writeToCandidate(_historyGetAtIndex(history'))
  /\ UNCHANGED status

ArrowDown ==
  /\ Escape
  /\ isViewingHistory
  /\ IF history.index > 0
       THEN /\ history' = [history EXCEPT !.index = @ - 1]
            /\ _writeToCandidate(_historyGetAtIndex(history'))
            /\ UNCHANGED isViewingHistory
       ELSE /\ _writeToCandidate(stMemory)
            /\ isViewingHistory' = FALSE
            /\ UNCHANGED history
  /\ UNCHANGED <<stMemory, status>>

\* Mutant: the line being shown is remembered too.
PageUp_RemembersAlways ==
  /\ Escape
  /\ history.size > 0
  /\ stMemory' = Text
  /\ isViewingHistory' = TRUE
  /\ history' = _historyMoveToLast(history)
  /\ _writeToCandidate(_historyGetAtIndex(history'))
  /\ UNCHANGED status

PageUp ==
  /\ Escape
  /\ history.size > 0
  /\ stMemory' = IF isViewingHistory THEN stMemory ELSE Text
  /\ isViewingHistory' = TRUE
  /\ history' = _historyMoveToLast(history)
  /\ _writeToCandidate(_historyGetAtIndex(history'))
  /\ UNCHANGED status

\* Without history _historyGetAtIndex returns no string to copy.
PageUpNothing ==
  /\ Escape
  /\ history.size = 0
  /\ stMemory' = IF isViewingHistory THEN stMemory ELSE Text
  /\ isViewingHistory' = TRUE
  /\ candidate' = Blank
  /\ status' = "wild"
  /\ UNCHANGED <<lineCapacity, cursorIndex, history>>

PageDown ==
  /\ Escape
  /\ isViewingHistory' = FALSE
  /\ history' = _historyMoveToFirst(history)
  /\ _writeToCandidate(stMemory)
  /\ UNCHANGED <<stMemory, status>>

\* Other keys, up without history, down without viewing it, an escape at the end.
OtherKey == \E ch \in {Nul, "escape"} : Turn(ch) /\ Edit(candidate, cursorIndex)

-----------------------------------------------------------------------------
(* Returning *)

\* Carriage return or Ctrl+D.
Enter ==
  /\ status = "reading"
  /\ IsString(candidate)
  /\ input = "open"
  /\ output' = Text
  /\ history' = _historyMoveToFirst(_historyRecordLine(history, Text))
  /\ isViewingHistory' = FALSE
  /\ _writeToCandidate(<<>>)
  /\ stMemory' = <<>>
  /\ c' = Nul
  /\ status' = "returned"
  /\ UNCHANGED input

\* main() asks for the next line.
Again ==
  /\ status = "returned"
  /\ output' = <<>>
  /\ status' = "reading"
  /\ UNCHANGED <<lineCapacity, candidate, cursorIndex, stMemory, isViewingHistory, history, c, input>>

\* The terminal goes away: from now on read() returns 0.
Hangup ==
  /\ input = "open"
  /\ input' = "hung"
  /\ UNCHANGED <<lineCapacity, candidate, cursorIndex, stMemory, isViewingHistory, history, c,
                 output, status>>

\* showCmdLine() prints a buffer without an end.
Unterminated ==
  /\ status = "reading"
  /\ ~IsString(candidate)
  /\ status' = "wild"
  /\ UNCHANGED <<lineCapacity, candidate, cursorIndex, stMemory, isViewingHistory, history, c,
                 input, output>>

Editor ==
  \/ \E ch \in Chars : Visible(ch) \/ OutOfMemory(ch)
  \/ Backspace \/ Delete
  \/ ArrowRight \/ ArrowLeft \/ Home \/ End
  \/ ArrowUp \/ ArrowDown \/ PageUp \/ PageUpNothing \/ PageDown \/ OtherKey
  \/ Enter \/ Unterminated

Rest == status \in {"exit", "wild"} /\ UNCHANGED vars

Next == Editor \/ Again \/ Hangup \/ Rest

Spec == Init /\ [][Next]_vars

-----------------------------------------------------------------------------
(* Properties *)

\* Every variable has its type.
TypeOK ==
  /\ lineCapacity \in Nat \ {0}
  /\ candidate \in [0 .. lineCapacity - 1 -> Chars \cup {Nul}]
  /\ cursorIndex \in Nat
  /\ stMemory \in Seq(Chars)
  /\ isViewingHistory \in BOOLEAN
  /\ history \in History
  /\ c \in Chars \cup Controls
  /\ input \in {"open", "hung"}
  /\ output \in Seq(Chars)
  /\ status \in Status

\* The cursor is on the line or just behind it, and everything behind the line is
\* zero: a character put at the end brings no terminator with it, and what an
\* earlier and longer line left there would come back.
LineEndsInZeros ==
  IsString(candidate) =>
    /\ cursorIndex <= strlen(candidate) \/ status = "wild"
    /\ \A k \in strlen(candidate) .. lineCapacity - 1 : candidate[k] = Nul

\* strcpy() always finds room: lines go back and forth between the candidate, the
\* memory and the history, whichever of them was there before the last widening.
StringsFit ==
  /\ history.width = lineCapacity
  /\ Len(stMemory) < lineCapacity
  /\ \A k \in 0 .. HistoryLength - 1 : Len(history.records[k]) < history.width

\* The history has no blank lines and no line twice in a row, its unused records are
\* behind the used ones, and the place in it is a line, the most recent one while no
\* history is shown.
HistoryInOrder ==
  /\ history.size <= HistoryLength
  /\ \A k \in 0 .. HistoryLength - 1 : history.records[k] # <<>> <=> k < history.size
  /\ \A k \in 1 .. history.size - 1 : history.records[k] # history.records[k - 1]
  /\ history.index # 0 => history.index < history.size /\ isViewingHistory

\* While history is shown the memory keeps what was being typed when it was first
\* shown, whichever keys lead through it.
TypedLineIsKept ==
  [][isViewingHistory /\ isViewingHistory' => stMemory' = stMemory]_vars

\* While no history is shown the line changes at the cursor only, and by one character:
\* what stands before it stays.  Page down is the one key that replaces the line by an
\* older one in the memory.
TypedLineStays ==
  [][(/\ ~ isViewingHistory /\ ~ isViewingHistory'
      /\ status = "reading" /\ status' = "reading"
      /\ candidate # candidate' /\ IsString(candidate') /\ ~ PageDown) =>
       LET kept == IF cursorIndex < cursorIndex' THEN cursorIndex ELSE cursorIndex'
       IN  /\ Len(Text') \in Len(Text) - 1 .. Len(Text) + 1
           /\ SubSeq(Text', 1, kept) = SubSeq(Text, 1, kept)]_vars

\* "shift to right": a character typed in the middle of a line moves the rest of the
\* line on by one.
InsertionShifts ==
  [][IsString(candidate) /\ IsString(candidate') =>
       \A ch \in Chars : Visible(ch) =>
         Spelling(candidate') = SubSeq(Text, 1, cursorIndex) \o <<ch>>
                                  \o SubSeq(Text, cursorIndex + 1, Len(Text))]_vars
=============================================================================
