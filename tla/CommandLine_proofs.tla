------------------------- MODULE CommandLine_proofs -------------------------
(***************************************************************************)
(* Proofs about the line editor, for any characters, any first length of a *)
(* line, any length of the history and any keys.                           *)
(***************************************************************************)
EXTENDS CommandLine, TLAPS

-----------------------------------------------------------------------------
(* Buffers *)

\* The buffer has cap characters, of which the first n are the line.
Shaped(b, cap, n) ==
  /\ n \in 0 .. cap
  /\ b \in [0 .. cap - 1 -> Chars \cup {Nul}]
  /\ \A k \in 0 .. cap - 1 : b[k] = Nul <=> k >= n

LEMMA NulIsNoChar == Nul \notin Chars
BY CharsAssumption DEF Controls

LEMMA ShapedString ==
  ASSUME NEW cap \in Nat \ {0}, NEW b, NEW n, Shaped(b, cap, n), IsString(b)
  PROVE  n < cap /\ strlen(b) = n /\ Spelling(b) \in Seq(Chars) /\ Len(Spelling(b)) = n
<1>1. n \in Nat /\ DOMAIN b = 0 .. cap - 1
  BY DEF Shaped
<1>2. n < cap
  BY DEF Shaped, IsString
<1>3. n \in DOMAIN b /\ b[n] = Nul /\ \A k \in 0 .. n - 1 : b[k] # Nul
  BY <1>1, <1>2 DEF Shaped
<1>4. ASSUME NEW m \in DOMAIN b, b[m] = Nul, \A k \in 0 .. m - 1 : b[k] # Nul
      PROVE  m = n
  BY <1>1, <1>3, <1>4 DEF Shaped
<1>5. strlen(b) = n
  BY <1>3, <1>4 DEF strlen
<1>6. \A k \in 1 .. n : b[k - 1] \in Chars
  BY <1>1, <1>2 DEF Shaped
<1>7. Spelling(b) \in [1 .. n -> Chars]
  BY <1>5, <1>6 DEF Spelling
<1>. QED  BY <1>1, <1>2, <1>5, <1>7

LEMMA WrittenShaped ==
  ASSUME lineCapacity \in Nat \ {0}, NEW s \in Seq(Chars), Len(s) < lineCapacity
  PROVE  Shaped(Written(s), lineCapacity, Len(s))
<1>1. ASSUME NEW k \in 0 .. lineCapacity - 1
      PROVE  /\ Written(s)[k] \in Chars \cup {Nul}
             /\ Written(s)[k] = Nul <=> k >= Len(s)
  <2>1. CASE k < Len(s)
    <3>1. k + 1 \in 1 .. Len(s)
      BY <2>1
    <3>. QED  BY <2>1, <3>1, NulIsNoChar DEF Written
  <2>2. CASE k >= Len(s)
    BY <2>2 DEF Written
  <2>. QED  BY <2>1, <2>2
<1>2. Written(s) \in [0 .. lineCapacity - 1 -> Chars \cup {Nul}]
  BY <1>1 DEF Written
<1>. QED  BY <1>1, <1>2 DEF Shaped

\* A character at the cursor makes the line longer by one, or takes the place of its last.
LEMMA InsertedShaped ==
  ASSUME lineCapacity \in Nat \ {0}, IsString(candidate), NEW n, Shaped(candidate, lineCapacity, n),
         cursorIndex \in 0 .. n, NEW ch \in Chars
  PROVE  /\ NewCapacity \in Nat \ {0} /\ lineCapacity <= NewCapacity
         /\ \E m \in n .. n + 1 : Shaped(Inserted(ch), NewCapacity, m) /\ cursorIndex + 1 <= m
         /\ \A k \in 0 .. cursorIndex - 1 : Inserted(ch)[k] = candidate[k]
<1>. DEFINE cap == NewCapacity
            wide == [k \in 0 .. cap - 1 |-> IF k < lineCapacity THEN candidate[k] ELSE Nul]
<1>1. n \in Nat /\ n < lineCapacity /\ strlen(candidate) = n
  <2>1. n < lineCapacity /\ strlen(candidate) = n
    BY ShapedString
  <2>. QED  BY <2>1 DEF Shaped
<1>2. cap \in Nat \ {0} /\ lineCapacity <= cap /\ n < cap /\ (cursorIndex = n => n + 1 <= cap)
  BY <1>1 DEF NewCapacity
<1>3. Inserted(ch) = IF cursorIndex = n
                       THEN [wide EXCEPT ![n] = ch]
                       ELSE [k \in 0 .. cap - 1 |-> IF k = cursorIndex THEN ch
                                                    ELSE IF k \in cursorIndex + 2 .. n THEN wide[k - 1]
                                                    ELSE wide[k]]
  BY <1>1 DEF Inserted
<1>. HIDE DEF cap
<1>10. \A k \in 0 .. cursorIndex - 1 : k \in 0 .. cap - 1 /\ k < lineCapacity /\ k < n /\ k # cursorIndex
                                        /\ k \notin cursorIndex + 2 .. n
  BY <1>1, <1>2
<1>11. \A k \in 0 .. cursorIndex - 1 : wide[k] = candidate[k]
  BY <1>10
<1>4. Shaped(wide, cap, n)
  <2>1. \A k \in 0 .. cap - 1 : /\ wide[k] \in Chars \cup {Nul}
                                /\ wide[k] = Nul <=> k >= n
    BY <1>1, <1>2 DEF Shaped
  <2>. QED  BY <2>1, <1>1, <1>2 DEF Shaped
<1>. HIDE DEF wide
<1>5. CASE cursorIndex = n
  <2>1. Inserted(ch) = [wide EXCEPT ![n] = ch]
    BY <1>3, <1>5
  <2>2. \A k \in 0 .. cap - 1 : Inserted(ch)[k] = IF k = n THEN ch ELSE wide[k]
    BY <2>1, <1>4 DEF Shaped
  <2>3. Inserted(ch) \in [0 .. cap - 1 -> Chars \cup {Nul}]
    BY <2>1, <1>4 DEF Shaped
  <2>4. \A k \in 0 .. cap - 1 : Inserted(ch)[k] = Nul <=> k >= n + 1
    BY <2>2, <1>1, <1>4, NulIsNoChar DEF Shaped
  <2>5. Shaped(Inserted(ch), cap, n + 1)
    BY <2>3, <2>4, <1>1, <1>2 DEF Shaped
  <2>6. \A k \in 0 .. cursorIndex - 1 : Inserted(ch)[k] = candidate[k]
    BY <2>2, <1>10, <1>11
  <2>7. n + 1 \in n .. n + 1 /\ cursorIndex + 1 <= n + 1
    BY <1>1, <1>5
  <2>. QED  BY <2>5, <2>6, <2>7, <1>2, Zenon DEF cap
<1>6. CASE cursorIndex # n
  <2>. DEFINE m == IF cursorIndex + 2 <= n THEN n + 1 ELSE n
  <2>1. cursorIndex \in Nat /\ cursorIndex < n /\ m \in Nat /\ cursorIndex + 1 <= m /\ m <= cap
    BY <1>1, <1>2, <1>6
  <2>2. Inserted(ch) = [k \in 0 .. cap - 1 |-> IF k = cursorIndex THEN ch
                                               ELSE IF k \in cursorIndex + 2 .. n THEN wide[k - 1]
                                               ELSE wide[k]]
    BY <1>3, <1>6
  <2>3. ASSUME NEW k \in 0 .. cap - 1
        PROVE  /\ Inserted(ch)[k] \in Chars \cup {Nul}
               /\ Inserted(ch)[k] = Nul <=> k >= m
    <3>1. CASE k = cursorIndex
      BY <3>1, <2>1, <2>2, NulIsNoChar
    <3>2. CASE k # cursorIndex /\ k \in cursorIndex + 2 .. n
      <4>1. Inserted(ch)[k] = wide[k - 1] /\ k - 1 \in 0 .. cap - 1 /\ k - 1 < n /\ m = n + 1
        BY <3>2, <2>1, <2>2, <1>1, <1>2
      <4>. QED  BY <4>1, <3>2, <1>1, <1>4 DEF Shaped
    <3>3. CASE k # cursorIndex /\ k \notin cursorIndex + 2 .. n
      <4>1. Inserted(ch)[k] = wide[k]
        BY <3>3, <2>2
      <4>2. k >= n <=> k >= m
        BY <3>3, <2>1, <1>1
      <4>. QED  BY <4>1, <4>2, <1>4 DEF Shaped
    <3>. QED  BY <3>1, <3>2, <3>3
  <2>. HIDE DEF m
  <2>4. Inserted(ch) \in [0 .. cap - 1 -> Chars \cup {Nul}]
    BY <2>2, <2>3
  <2>5. Shaped(Inserted(ch), cap, m)
    BY <2>1, <2>3, <2>4 DEF Shaped
  <2>6. \A k \in 0 .. cursorIndex - 1 : Inserted(ch)[k] = candidate[k]
    BY <2>2, <1>10, <1>11
  <2>7. m \in n .. n + 1
    BY <1>1 DEF m
  <2>. QED  BY <2>1, <2>5, <2>6, <2>7, <1>2, Zenon DEF cap
<1>. QED  BY <1>5, <1>6

\* The character before the cursor goes, or none when the cursor is behind the line.
LEMMA RemovedShaped ==
  ASSUME lineCapacity \in Nat \ {0}, NEW n, Shaped(candidate, lineCapacity, n), n < lineCapacity,
         NEW cursor \in 1 .. n + 1
  PROVE  Shaped(Removed(cursor), lineCapacity, IF cursor <= n THEN n - 1 ELSE n)
<1>. DEFINE m == IF cursor <= n THEN n - 1 ELSE n
<1>1. n \in Nat /\ m \in 0 .. lineCapacity /\ cursor \in Nat
  BY DEF Shaped
<1>2. ASSUME NEW k \in 0 .. lineCapacity - 1
      PROVE  /\ Removed(cursor)[k] \in Chars \cup {Nul}
             /\ Removed(cursor)[k] = Nul <=> k >= m
  <2>1. CASE k \in cursor - 1 .. lineCapacity - 2
    <3>1. Removed(cursor)[k] = candidate[k + 1] /\ k + 1 \in 0 .. lineCapacity - 1
      BY <2>1 DEF Removed, Shaped
    <3>2. k + 1 >= n <=> k >= m
      BY <2>1, <1>1
    <3>. QED  BY <3>1, <3>2 DEF Shaped
  <2>2. CASE k \notin cursor - 1 .. lineCapacity - 2
    <3>1. Removed(cursor)[k] = candidate[k]
      BY <2>2 DEF Removed, Shaped
    <3>2. k >= n <=> k >= m
      BY <2>2, <1>1
    <3>. QED  BY <3>1, <3>2 DEF Shaped
  <2>. QED  BY <2>1, <2>2
<1>3. Removed(cursor) \in [0 .. lineCapacity - 1 -> Chars \cup {Nul}]
  BY <1>2 DEF Removed, Shaped
<1>. QED  BY <1>1, <1>2, <1>3 DEF Shaped

-----------------------------------------------------------------------------
(* The invariant *)

\* The first part is what LineEndsInZeros lacks to be inductive: the shape of a buffer
\* without an end, which the line may have until it is shown.
LineShaped == \E n \in Nat : /\ Shaped(candidate, lineCapacity, n)
                             /\ cursorIndex <= n \/ status = "wild"

IInv == LineShaped /\ TypeOK /\ StringsFit /\ HistoryInOrder

\* What is left of the invariant when the candidate is put aside.
Kept(h, viewing, memory, cap) ==
  /\ h \in History /\ memory \in Seq(Chars)
  /\ h.width = cap /\ Len(memory) < cap
  /\ \A k \in 0 .. HistoryLength - 1 : Len(h.records[k]) < cap
  /\ h.size <= HistoryLength
  /\ \A k \in 0 .. HistoryLength - 1 : h.records[k] # << >> <=> k < h.size
  /\ \A k \in 1 .. h.size - 1 : h.records[k] # h.records[k - 1]
  /\ h.index # 0 => h.index < h.size /\ viewing

Plain ==
  /\ lineCapacity \in Nat \ {0} /\ cursorIndex \in Nat
  /\ isViewingHistory \in BOOLEAN
  /\ c \in Chars \cup Controls /\ input \in {"open", "hung"}
  /\ output \in Seq(Chars) /\ status \in Status

LEMMA Parts ==
  IInv <=> LineShaped /\ Plain /\ Kept(history, isViewingHistory, stMemory, lineCapacity)
<1>1. LineShaped /\ lineCapacity \in Nat \ {0} => candidate \in [0 .. lineCapacity - 1 -> Chars \cup {Nul}]
  BY DEF LineShaped, Shaped
<1>2. Kept(history, isViewingHistory, stMemory, lineCapacity) =>
        \A k \in 0 .. HistoryLength - 1 : Len(history.records[k]) < history.width
  BY DEF Kept
<1>3. ASSUME LineShaped, Plain, Kept(history, isViewingHistory, stMemory, lineCapacity)
      PROVE  IInv
  <2>1. TypeOK
    BY <1>1, <1>3 DEF TypeOK, Plain, Kept
  <2>2. StringsFit
    BY <1>2, <1>3 DEF StringsFit, Kept
  <2>3. HistoryInOrder
    BY <1>3 DEF HistoryInOrder, Kept
  <2>. QED  BY <1>3, <2>1, <2>2, <2>3 DEF IInv
<1>4. ASSUME IInv
      PROVE  LineShaped /\ Plain /\ Kept(history, isViewingHistory, stMemory, lineCapacity)
  BY <1>4 DEF IInv, TypeOK, StringsFit, HistoryInOrder, Plain, Kept
<1>. QED  BY <1>3, <1>4

\* While a line is read: its length, and that what it spells fits.
LEMMA ReadingLine ==
  ASSUME IInv, status = "reading", IsString(candidate)
  PROVE  /\ lineCapacity \in Nat \ {0}
         /\ \E n \in Nat : /\ Shaped(candidate, lineCapacity, n)
                           /\ n < lineCapacity /\ strlen(candidate) = n /\ cursorIndex \in 0 .. n
         /\ Text \in Seq(Chars) /\ Len(Text) < lineCapacity
<1>1. PICK n \in Nat : Shaped(candidate, lineCapacity, n) /\ cursorIndex <= n
  BY DEF IInv, LineShaped
<1>2. lineCapacity \in Nat \ {0} /\ cursorIndex \in Nat
  BY DEF IInv, TypeOK
<1>3. /\ n < lineCapacity /\ strlen(candidate) = n
      /\ Spelling(candidate) \in Seq(Chars) /\ Len(Spelling(candidate)) = n
  BY <1>1, <1>2, ShapedString
<1>. QED  BY <1>1, <1>2, <1>3 DEF Text

\* A step that leaves the history and the memory and makes a line of its own.
LEMMA EditStep ==
  ASSUME IInv, NEW ch \in Chars \cup Controls, NEW b, NEW cursor, NEW m \in Nat,
         Turn(ch), Edit(b, cursor), Shaped(b, lineCapacity, m), cursor \in 0 .. m
  PROVE  IInv'
<1>1. LineShaped'
  BY DEF Edit, LineShaped
<1>2. Plain /\ Kept(history, isViewingHistory, stMemory, lineCapacity)
  BY Parts
<1>3. Plain'
  BY <1>2 DEF Plain, Edit, Turn
<1>4. Kept(history, isViewingHistory, stMemory, lineCapacity)'
  BY <1>2 DEF Edit
<1>. QED  BY <1>1, <1>3, <1>4, Parts, PTL

\* A step that shows a line of the history, or the memory.
LEMMA ShowStep ==
  ASSUME IInv, NEW s \in Seq(Chars), Len(s) < lineCapacity, _writeToCandidate(s)
  PROVE  /\ LineShaped'
         /\ lineCapacity' \in Nat \ {0} /\ cursorIndex' \in Nat
<1>1. lineCapacity \in Nat \ {0}
  BY DEF IInv, TypeOK
<1>2. Shaped(Written(s), lineCapacity, Len(s))
  BY <1>1, WrittenShaped
<1>. QED  BY <1>1, <1>2 DEF LineShaped, _writeToCandidate

\* The most recent line, the place in the history, and the lines beside it.
LEMMA HistoryPlace ==
  ASSUME NEW h, NEW viewing, NEW memory, NEW cap, Kept(h, viewing, memory, cap), h.size > 0
  PROVE  /\ h.index \in 0 .. HistoryLength - 1
         /\ _historyGetAtIndex(h) \in Seq(Chars) /\ Len(_historyGetAtIndex(h)) < cap
BY LengthsAssumption DEF Kept, History, _historyGetAtIndex

LEMMA HistoryMoves ==
  ASSUME NEW h, NEW viewing, NEW memory \in Seq(Chars), NEW cap, Kept(h, viewing, memory, cap)
  PROVE  /\ Kept(_historyMoveLater(h), TRUE, memory, cap) /\ _historyMoveLater(h).size = h.size
         /\ Kept(_historyMoveToLast(h), TRUE, memory, cap) /\ _historyMoveToLast(h).size = h.size
         /\ Kept(_historyMoveToFirst(h), FALSE, memory, cap)
<1>1. ASSUME NEW i \in Nat, i < h.size
      PROVE  /\ Kept([h EXCEPT !.index = i], TRUE, memory, cap)
             /\ [h EXCEPT !.index = i].size = h.size
  BY <1>1 DEF Kept, History
<1>2. h.index \in Nat /\ h.size \in Nat
  BY DEF Kept, History
<1>3. Kept(h, TRUE, memory, cap)
  BY DEF Kept
<1>4. Kept(_historyMoveLater(h), TRUE, memory, cap) /\ _historyMoveLater(h).size = h.size
  <2>1. CASE h.index + 1 < h.size
    <3>1. _historyMoveLater(h) = [h EXCEPT !.index = h.index + 1] /\ h.index + 1 \in Nat
      BY <2>1, <1>2 DEF _historyMoveLater
    <3>2. /\ Kept([h EXCEPT !.index = h.index + 1], TRUE, memory, cap)
          /\ [h EXCEPT !.index = h.index + 1].size = h.size
      BY <3>1, <2>1, <1>1
    <3>. QED  BY <3>1, <3>2, Zenon
  <2>2. CASE ~ (h.index + 1 < h.size)
    BY <2>2, <1>3 DEF _historyMoveLater
  <2>. QED  BY <2>1, <2>2
<1>5. Kept(_historyMoveToLast(h), TRUE, memory, cap) /\ _historyMoveToLast(h).size = h.size
  <2>1. CASE h.size > 0
    <3>1. /\ _historyMoveToLast(h) = [h EXCEPT !.index = h.size - 1]
          /\ h.size - 1 \in Nat /\ h.size - 1 < h.size
      BY <2>1, <1>2 DEF _historyMoveToLast
    <3>2. /\ Kept([h EXCEPT !.index = h.size - 1], TRUE, memory, cap)
          /\ [h EXCEPT !.index = h.size - 1].size = h.size
      BY <3>1, <1>1
    <3>. QED  BY <3>1, <3>2, Zenon
  <2>2. CASE ~ (h.size > 0)
    BY <2>2, <1>3 DEF _historyMoveToLast
  <2>. QED  BY <2>1, <2>2
<1>6. Kept(_historyMoveToFirst(h), FALSE, memory, cap)
  BY DEF _historyMoveToFirst, Kept, History
<1>. QED  BY <1>4, <1>5, <1>6

\* What is recorded goes in front of the others, unless it is there already.
LEMMA HistoryRecords ==
  ASSUME NEW h, NEW viewing, NEW memory, NEW cap, Kept(h, viewing, memory, cap),
         NEW s \in Seq(Chars), Len(s) < cap
  PROVE  Kept(_historyRecordLine(h, s), viewing, memory, cap)
<1>. DEFINE r == _historyRecordLine(h, s)
            shifted == [k \in 0 .. HistoryLength - 1 |-> IF k = 0 THEN s ELSE h.records[k - 1]]
            more == IF h.size < HistoryLength THEN h.size + 1 ELSE h.size
<1>1. /\ h.index \in Nat /\ h.size \in Nat /\ h.width \in Nat
      /\ h.records \in [0 .. HistoryLength - 1 -> Seq(Chars)]
      /\ HistoryLength \in Nat \ {0} /\ h.size <= HistoryLength
  BY LengthsAssumption DEF Kept, History
<1>2. CASE s \in {h.records[0], << >>}
  BY <1>2 DEF _historyRecordLine
<1>3. CASE s \notin {h.records[0], << >>}
  <2>1. r = [h EXCEPT !.records = shifted, !.size = more]
    BY <1>1, <1>3 DEF _historyRecordLine
  <2>2. h = [index |-> h.index, size |-> h.size, width |-> h.width, records |-> h.records]
    BY DEF Kept, History
  <2>. HIDE DEF r, shifted, more
  <2>3. r = [index |-> h.index, size |-> more, width |-> h.width, records |-> shifted]
    BY <2>1, <2>2
  <2>4. more \in Nat /\ more <= HistoryLength /\ h.size <= more /\ more <= h.size + 1
    BY <1>1, SMTT(40) DEF more
  <2>5. shifted \in [0 .. HistoryLength - 1 -> Seq(Chars)]
    BY <1>1 DEF shifted
  <2>6. shifted[0] = s /\ \A k \in 1 .. HistoryLength - 1 : shifted[k] = h.records[k - 1]
    BY <1>1 DEF shifted
  <2>7. r \in History
    BY <1>1, <2>3, <2>4, <2>5 DEF History
  <2>8. ASSUME NEW k \in 0 .. HistoryLength - 1 PROVE Len(shifted[k]) < cap
    <3>1. CASE k = 0
      BY <3>1, <2>6
    <3>2. CASE k # 0
      <4>1. k - 1 \in 0 .. HistoryLength - 1 /\ shifted[k] = h.records[k - 1]
        BY <3>2, <1>1, <2>6
      <4>. QED  BY <4>1 DEF Kept
    <3>. QED  BY <3>1, <3>2
  <2>9. ASSUME NEW k \in 0 .. HistoryLength - 1 PROVE shifted[k] # << >> <=> k < more
    <3>1. CASE k = 0
      BY <3>1, <1>1, <1>3, <2>6 DEF more
    <3>2. CASE k # 0
      <4>1. k - 1 \in 0 .. HistoryLength - 1 /\ shifted[k] = h.records[k - 1]
        BY <3>2, <1>1, <2>6
      <4>2. h.records[k - 1] # << >> <=> k - 1 < h.size
        BY <4>1 DEF Kept
      <4>. QED  BY <4>1, <4>2, <1>1, SMTT(40) DEF more
    <3>. QED  BY <3>1, <3>2
  <2>10. ASSUME NEW k \in 1 .. more - 1 PROVE shifted[k] # shifted[k - 1]
    <3>1. CASE k = 1
      <4>1. 1 \in 1 .. HistoryLength - 1
        BY <3>1, <2>4, <1>1
      <4>2. shifted[1] = h.records[0] /\ shifted[0] = s
        BY <4>1, <2>6
      <4>. QED  BY <4>2, <3>1, <1>3
    <3>2. CASE k # 1
      <4>1. k \in 1 .. HistoryLength - 1 /\ k - 1 \in 1 .. HistoryLength - 1 /\ k - 1 \in 1 .. h.size - 1
        BY <3>2, <2>4, <1>1
      <4>2. shifted[k] = h.records[k - 1] /\ shifted[k - 1] = h.records[(k - 1) - 1]
        BY <4>1, <2>6
      <4>. QED  BY <4>1, <4>2 DEF Kept
    <3>. QED  BY <3>1, <3>2
  <2>11. h.index # 0 => h.index < more /\ viewing
    BY <1>1, <2>4 DEF Kept
  <2>12. memory \in Seq(Chars) /\ h.width = cap /\ Len(memory) < cap
    BY DEF Kept
  <2>13. Kept(r, viewing, memory, cap)
    BY <2>3, <2>4, <2>7, <2>8, <2>9, <2>10, <2>11, <2>12 DEF Kept
  <2>. QED  BY <2>13 DEF r
<1>. QED  BY <1>2, <1>3

-----------------------------------------------------------------------------
(* The steps *)

LEMMA InitInvariant == Init => IInv
<1>. SUFFICES ASSUME Init PROVE IInv
  OBVIOUS
<1>. USE DEF Init
<1>1. LineShaped
  <2>1. Shaped(candidate, lineCapacity, 0)
    BY LengthsAssumption DEF Shaped
  <2>. QED  BY <2>1 DEF LineShaped
<1>2. Plain
  <2>1. lineCapacity \in Nat \ {0} /\ cursorIndex \in Nat
    BY LengthsAssumption
  <2>2. isViewingHistory \in BOOLEAN
    OBVIOUS
  <2>3. c \in Controls /\ input \in {"open", "hung"} /\ status \in Status
    BY DEF Controls, Status
  <2>4. output \in Seq(Chars)
    OBVIOUS
  <2>. QED  BY <2>1, <2>2, <2>3, <2>4 DEF Plain
<1>3. Kept(history, isViewingHistory, stMemory, lineCapacity)
  <2>1. history \in History
    BY LengthsAssumption DEF History
  <2>. QED  BY <2>1, LengthsAssumption DEF Kept
<1>. QED  BY <1>1, <1>2, <1>3, Parts

\* The buffers and the records of the history grow together.
LEMMA WidenedKept ==
  ASSUME NEW h, NEW viewing \in BOOLEAN, NEW memory, NEW cap \in Nat, NEW new \in Nat, cap <= new,
         Kept(h, viewing, memory, cap)
  PROVE  Kept([h EXCEPT !.index = IF viewing THEN 0 ELSE @, !.width = new], FALSE, memory, new)
<1>. DEFINE place == IF viewing THEN 0 ELSE h.index
            w == [h EXCEPT !.index = place, !.width = new]
<1>1. h.index \in Nat /\ h.size \in Nat /\ h.records \in [0 .. HistoryLength - 1 -> Seq(Chars)]
  BY DEF Kept, History
<1>2. place = 0
  BY DEF Kept
<1>. HIDE DEF place
<1>3. w = [index |-> 0, size |-> h.size, width |-> new, records |-> h.records]
  <2>1. h = [index |-> h.index, size |-> h.size, width |-> h.width, records |-> h.records]
    BY DEF Kept, History
  <2>2. w = [h EXCEPT !.index = 0, !.width = new]
    BY <1>2
  <2>. HIDE DEF w
  <2>. QED  BY <2>1, <2>2
<1>. HIDE DEF w
<1>4. w \in History
  BY <1>1, <1>3 DEF History
<1>5. \A k \in 0 .. HistoryLength - 1 : Len(h.records[k]) < new
  BY <1>1 DEF Kept
<1>6. Len(memory) < new
  BY DEF Kept
<1>7. Kept(w, FALSE, memory, new)
  BY <1>3, <1>4, <1>5, <1>6 DEF Kept
<1>. QED  BY <1>7 DEF w, place

LEMMA VisibleStep ==
  ASSUME IInv, NEW ch \in Chars, Visible(ch)
  PROVE  IInv'
<1>. USE DEF Visible
<1>1. PICK n \in Nat : Shaped(candidate, lineCapacity, n) /\ cursorIndex \in 0 .. n
  BY ReadingLine DEF Turn
<1>2. lineCapacity \in Nat \ {0}
  BY DEF IInv, TypeOK
<1>3. /\ NewCapacity \in Nat \ {0} /\ lineCapacity <= NewCapacity
      /\ \E m \in n .. n + 1 : Shaped(Inserted(ch), NewCapacity, m) /\ cursorIndex + 1 <= m
  BY <1>1, <1>2, InsertedShaped DEF Turn
<1>4. LineShaped'
  <2>1. \A m \in n .. n + 1 : m \in Nat
    OBVIOUS
  <2>. QED  BY <1>3, <2>1 DEF LineShaped
<1>5. Plain /\ Kept(history, isViewingHistory, stMemory, lineCapacity)
  BY Parts
<1>6. Plain'
  <2>1. lineCapacity' \in Nat \ {0} /\ cursorIndex' \in Nat
    BY <1>3, <1>5 DEF Plain
  <2>2. isViewingHistory' \in BOOLEAN
    OBVIOUS
  <2>3. c' \in Chars \cup Controls /\ input' \in {"open", "hung"} /\ output' \in Seq(Chars) /\ status' \in Status
    BY <1>5 DEF Plain, Turn
  <2>. QED  BY <2>1, <2>2, <2>3 DEF Plain
<1>7. Kept(history, isViewingHistory, stMemory, lineCapacity)'
  <2>1. Kept([history EXCEPT !.index = IF isViewingHistory THEN 0 ELSE @, !.width = NewCapacity],
             FALSE, stMemory, NewCapacity)
    BY <1>2, <1>3, <1>5, WidenedKept DEF Plain
  <2>. QED  BY <2>1
<1>. QED  BY <1>4, <1>6, <1>7, Parts, PTL

\* A step that gives up, or reads a line that has no end.
LEMMA FinalStep ==
  ASSUME IInv, NEW ch \in Chars \cup Controls,
         OutOfMemory(ch) \/ Unterminated \/ Hangup \/ Again \/ Rest \/ UNCHANGED vars
  PROVE  IInv'
<1>1. Plain /\ Kept(history, isViewingHistory, stMemory, lineCapacity) /\ LineShaped
  BY Parts
<1>2. UNCHANGED <<lineCapacity, candidate, cursorIndex, stMemory, isViewingHistory, history>>
  BY DEF OutOfMemory, Unterminated, Hangup, Again, Rest, vars
<1>3. Plain'
  <2>1. lineCapacity' \in Nat \ {0} /\ cursorIndex' \in Nat /\ isViewingHistory' \in BOOLEAN
    BY <1>1, <1>2 DEF Plain
  <2>2. c' \in Chars \cup Controls /\ input' \in {"open", "hung"}
    <3>1. c' \in {c, ch} /\ input' \in {input, "hung"}
      BY DEF OutOfMemory, Turn, Unterminated, Hangup, Again, Rest, vars
    <3>. QED  BY <3>1, <1>1 DEF Plain
  <2>3. output' \in Seq(Chars)
    <3>1. output' = output \/ output' = << >>
      BY DEF OutOfMemory, Turn, Unterminated, Hangup, Again, Rest, vars
    <3>2. output \in Seq(Chars) /\ << >> \in Seq(Chars)
      BY <1>1 DEF Plain
    <3>. QED  BY <3>1, <3>2, Zenon
  <2>4. status' \in Status
    BY <1>1 DEF Plain, OutOfMemory, Turn, Unterminated, Hangup, Again, Rest, vars, Status
  <2>. QED  BY <2>1, <2>2, <2>3, <2>4 DEF Plain
<1>4. LineShaped'
  <2>1. status = "wild" => status' = "wild"
    BY DEF OutOfMemory, Turn, Unterminated, Hangup, Again, Rest, vars
  <2>. QED  BY <1>1, <1>2, <2>1 DEF LineShaped
<1>5. Kept(history, isViewingHistory, stMemory, lineCapacity)'
  BY <1>1, <1>2
<1>. QED  BY <1>3, <1>4, <1>5, Parts, PTL

LEMMA BackspaceStep == IInv /\ Backspace => IInv'
<1>. SUFFICES ASSUME IInv, Backspace PROVE IInv'
  OBVIOUS
<1>1. PICK n \in Nat : /\ Shaped(candidate, lineCapacity, n) /\ cursorIndex \in 0 .. n
                       /\ n < lineCapacity /\ strlen(candidate) = n
  BY ReadingLine DEF Backspace, Turn
<1>2. lineCapacity \in Nat \ {0} /\ "backspace" \in Chars \cup Controls
  BY DEF IInv, TypeOK, Controls
<1>3. CASE cursorIndex = 0
  <2>1. Edit(candidate, 0) /\ Turn("backspace")
    BY <1>3 DEF Backspace
  <2>. QED  BY <2>1, <1>1, <1>2, EditStep
<1>4. CASE cursorIndex # 0 /\ cursorIndex = n
  <2>. DEFINE b == [candidate EXCEPT ![cursorIndex - 1] = Nul]
  <2>1. Edit(b, cursorIndex - 1) /\ Turn("backspace")
    BY <1>1, <1>4 DEF Backspace
  <2>2. Shaped(b, lineCapacity, n - 1)
    BY <1>1, <1>2, <1>4 DEF Shaped
  <2>3. n - 1 \in Nat /\ cursorIndex - 1 \in 0 .. n - 1
    BY <1>1, <1>4
  <2>. HIDE DEF b
  <2>. QED  BY <2>1, <2>2, <2>3, <1>2, EditStep
<1>5. CASE cursorIndex # 0 /\ cursorIndex # n
  <2>1. Edit(Removed(cursorIndex), cursorIndex - 1) /\ Turn("backspace")
    BY <1>1, <1>5 DEF Backspace
  <2>2. Shaped(Removed(cursorIndex), lineCapacity, n - 1)
    BY <1>1, <1>2, <1>5, RemovedShaped
  <2>3. n - 1 \in Nat /\ cursorIndex - 1 \in 0 .. n - 1
    BY <1>1, <1>5
  <2>. QED  BY <2>1, <2>2, <2>3, <1>2, EditStep
<1>. QED  BY <1>3, <1>4, <1>5

LEMMA DeleteStep == IInv /\ Delete => IInv'
<1>. SUFFICES ASSUME IInv, Delete PROVE IInv'
  OBVIOUS
<1>1. PICK n \in Nat : /\ Shaped(candidate, lineCapacity, n) /\ cursorIndex \in 0 .. n
                       /\ n < lineCapacity
  BY ReadingLine DEF Delete, Escape, Turn
<1>2. lineCapacity \in Nat \ {0} /\ "escape" \in Chars \cup Controls
  BY DEF IInv, TypeOK, Controls
<1>. DEFINE m == IF cursorIndex + 1 <= n THEN n - 1 ELSE n
<1>3. Shaped(Removed(cursorIndex + 1), lineCapacity, m)
  BY <1>1, <1>2, RemovedShaped
<1>4. m \in Nat /\ cursorIndex \in 0 .. m
  BY <1>1
<1>. HIDE DEF m
<1>5. Turn("escape") /\ Edit(Removed(cursorIndex + 1), cursorIndex)
  BY DEF Delete, Escape
<1>. QED  BY <1>2, <1>3, <1>4, <1>5, EditStep

\* The cursor moves along the line, or nothing happens.
LEMMA MoveStep ==
  ASSUME IInv, ArrowRight \/ ArrowLeft \/ Home \/ End \/ OtherKey
  PROVE  IInv'
<1>. USE DEF ArrowRight, ArrowLeft, Home, End, OtherKey, Escape
<1>1. PICK n \in Nat : /\ Shaped(candidate, lineCapacity, n) /\ cursorIndex \in 0 .. n
                       /\ strlen(candidate) = n
  BY ReadingLine DEF Turn
<1>2. PICK ch \in {Nul, "escape"}, cursor \in 0 .. n : Turn(ch) /\ Edit(candidate, cursor)
  <2>1. ArrowRight => \E cursor \in 0 .. n : Turn("escape") /\ Edit(candidate, cursor)
    BY <1>1
  <2>2. ArrowLeft => \E cursor \in 0 .. n : Turn("escape") /\ Edit(candidate, cursor)
    BY <1>1
  <2>3. Home \/ End => \E cursor \in 0 .. n : Turn("escape") /\ Edit(candidate, cursor)
    BY <1>1
  <2>4. OtherKey => \E ch \in {Nul, "escape"}, cursor \in 0 .. n : Turn(ch) /\ Edit(candidate, cursor)
    BY <1>1
  <2>. QED  BY <2>1, <2>2, <2>3, <2>4
<1>3. ch \in Chars \cup Controls
  BY DEF Controls
<1>. QED  BY <1>1, <1>2, <1>3, EditStep

\* A key that leads into the history, through it or out of it: which part of it is kept
\* follows from the place it leaves, and the line shown is one of the history or the memory.
LEMMA KeyStep ==
  ASSUME IInv, Escape, status' = status, NEW s \in Seq(Chars), Len(s) < lineCapacity,
         _writeToCandidate(s), isViewingHistory' \in BOOLEAN,
         Kept(history', isViewingHistory', stMemory', lineCapacity)
  PROVE  IInv'
<1>1. Plain
  BY Parts
<1>2. /\ LineShaped'
      /\ lineCapacity' \in Nat \ {0} /\ cursorIndex' \in Nat
  BY ShowStep
<1>3. lineCapacity' = lineCapacity
  BY DEF _writeToCandidate
<1>4. Plain'
  <2>1. c' \in Chars \cup Controls /\ input' \in {"open", "hung"} /\ output' \in Seq(Chars) /\ status' \in Status
    BY <1>1 DEF Plain, Escape, Turn, Controls
  <2>. QED  BY <1>2, <2>1 DEF Plain
<1>5. Kept(history, isViewingHistory, stMemory, lineCapacity)'
  BY <1>3
<1>. QED  BY <1>2, <1>4, <1>5, Parts, PTL

LEMMA KeptMemory ==
  ASSUME NEW h, NEW viewing, NEW memory, NEW cap, Kept(h, viewing, memory, cap),
         NEW s \in Seq(Chars), Len(s) < cap
  PROVE  Kept(h, viewing, s, cap) /\ Kept(h, TRUE, s, cap)
BY DEF Kept

\* What arrow up and page up find and leave when there is a history.
LEMMA UpStep ==
  ASSUME IInv, Escape, status' = status, history.size > 0,
         isViewingHistory' = TRUE, _writeToCandidate(_historyGetAtIndex(history')),
         stMemory' \in {stMemory, Text},
         history' \in {history, _historyMoveLater(history), _historyMoveToLast(history)}
  PROVE  IInv'
<1>1. Kept(history, isViewingHistory, stMemory, lineCapacity)
  BY Parts
<1>2. Text \in Seq(Chars) /\ Len(Text) < lineCapacity
  BY ReadingLine DEF Escape, Turn
<1>3. stMemory' \in Seq(Chars) /\ Len(stMemory') < lineCapacity
  BY <1>1, <1>2 DEF Kept
<1>4. Kept(history, TRUE, stMemory', lineCapacity)
  BY <1>1, <1>3, KeptMemory
<1>5. Kept(history', TRUE, stMemory', lineCapacity) /\ history'.size = history.size
  <2>1. /\ Kept(_historyMoveLater(history), TRUE, stMemory', lineCapacity)
        /\ _historyMoveLater(history).size = history.size
        /\ Kept(_historyMoveToLast(history), TRUE, stMemory', lineCapacity)
        /\ _historyMoveToLast(history).size = history.size
    BY <1>3, <1>4, HistoryMoves
  <2>2. \/ history' = history \/ history' = _historyMoveLater(history)
        \/ history' = _historyMoveToLast(history)
    OBVIOUS
  <2>3. CASE history' = history
    BY <2>3, <1>4
  <2>4. CASE history' = _historyMoveLater(history)
    BY <2>4, <2>1
  <2>5. CASE history' = _historyMoveToLast(history)
    BY <2>5, <2>1
  <2>. QED  BY <2>2, <2>3, <2>4, <2>5
<1>6. _historyGetAtIndex(history') \in Seq(Chars) /\ Len(_historyGetAtIndex(history')) < lineCapacity
  <2>1. history'.size > 0
    BY <1>5
  <2>. QED  BY <2>1, <1>5, HistoryPlace
<1>7. Kept(history', isViewingHistory', stMemory', lineCapacity)
  BY <1>5
<1>. QED  BY <1>6, <1>7, KeyStep

LEMMA ArrowUpStep == IInv /\ ArrowUp => IInv'
<1>. SUFFICES ASSUME IInv, ArrowUp PROVE IInv'
  OBVIOUS
<1>1. stMemory' \in {stMemory, Text} /\ history' \in {history, _historyMoveLater(history)}
  BY DEF ArrowUp
<1>. QED  BY <1>1, UpStep DEF ArrowUp

LEMMA PageUpStep == IInv /\ PageUp => IInv'
<1>. SUFFICES ASSUME IInv, PageUp PROVE IInv'
  OBVIOUS
<1>1. stMemory' \in {stMemory, Text} /\ history' = _historyMoveToLast(history)
  BY DEF PageUp
<1>. QED  BY <1>1, UpStep DEF PageUp

LEMMA PageUpNothingStep == IInv /\ PageUpNothing => IInv'
<1>. SUFFICES ASSUME IInv, PageUpNothing PROVE IInv'
  OBVIOUS
<1>. USE DEF PageUpNothing
<1>1. Plain /\ Kept(history, isViewingHistory, stMemory, lineCapacity)
  BY Parts
<1>2. Text \in Seq(Chars) /\ Len(Text) < lineCapacity
  BY ReadingLine DEF Escape, Turn
<1>3. LineShaped'
  <2>1. Shaped(Blank, lineCapacity, 0)
    BY <1>1 DEF Plain, Shaped, Blank
  <2>. QED  BY <2>1 DEF LineShaped
<1>4. Plain'
  <2>1. c' \in Chars \cup Controls /\ input' \in {"open", "hung"} /\ output' \in Seq(Chars) /\ status' \in Status
    BY <1>1 DEF Plain, Escape, Turn, Controls, Status
  <2>2. isViewingHistory' \in BOOLEAN
    OBVIOUS
  <2>. QED  BY <1>1, <2>1, <2>2 DEF Plain
<1>5. Kept(history, isViewingHistory, stMemory, lineCapacity)'
  <2>1. stMemory' \in Seq(Chars) /\ Len(stMemory') < lineCapacity
    BY <1>1, <1>2 DEF Kept
  <2>2. Kept(history, TRUE, stMemory', lineCapacity)
    BY <1>1, <2>1, KeptMemory
  <2>. QED  BY <2>2
<1>. QED  BY <1>3, <1>4, <1>5, Parts, PTL

LEMMA ArrowDownStep == IInv /\ ArrowDown => IInv'
<1>. SUFFICES ASSUME IInv, ArrowDown PROVE IInv'
  OBVIOUS
<1>1. Kept(history, isViewingHistory, stMemory, lineCapacity) /\ stMemory' = stMemory
      /\ Escape /\ status' = status /\ isViewingHistory
  BY Parts DEF ArrowDown
<1>2. stMemory \in Seq(Chars) /\ Len(stMemory) < lineCapacity
  BY <1>1 DEF Kept
<1>3. CASE history.index > 0
  <2>1. /\ history' = [history EXCEPT !.index = @ - 1]
        /\ _writeToCandidate(_historyGetAtIndex(history')) /\ isViewingHistory' = isViewingHistory
    BY <1>3 DEF ArrowDown
  <2>2. /\ Kept([history EXCEPT !.index = history.index - 1], TRUE, stMemory, lineCapacity)
        /\ [history EXCEPT !.index = history.index - 1].size > 0
    BY <1>1, <1>3 DEF Kept, History
  <2>3. Kept(history', TRUE, stMemory, lineCapacity) /\ history'.size > 0
    BY <2>1, <2>2
  <2>4. _historyGetAtIndex(history') \in Seq(Chars) /\ Len(_historyGetAtIndex(history')) < lineCapacity
    BY <2>3, HistoryPlace
  <2>5. isViewingHistory' = TRUE
    BY <1>1, <2>1 DEF IInv, TypeOK
  <2>6. Kept(history', isViewingHistory', stMemory', lineCapacity)
    BY <1>1, <2>3, <2>5
  <2>. QED  BY <1>1, <2>1, <2>4, <2>5, <2>6, KeyStep
<1>4. CASE ~ (history.index > 0)
  <2>1. history' = history /\ _writeToCandidate(stMemory) /\ isViewingHistory' = FALSE
    BY <1>4 DEF ArrowDown
  <2>2. Kept(history', isViewingHistory', stMemory', lineCapacity)
    BY <1>1, <1>4, <2>1 DEF Kept, History
  <2>. QED  BY <1>1, <1>2, <2>1, <2>2, KeyStep
<1>. QED  BY <1>3, <1>4

LEMMA PageDownStep == IInv /\ PageDown => IInv'
<1>. SUFFICES ASSUME IInv, PageDown PROVE IInv'
  OBVIOUS
<1>1. Kept(history, isViewingHistory, stMemory, lineCapacity)
  BY Parts
<1>2. stMemory \in Seq(Chars) /\ Len(stMemory) < lineCapacity
  BY <1>1 DEF Kept
<1>3. Kept(_historyMoveToFirst(history), FALSE, stMemory, lineCapacity)
  BY <1>1, <1>2, HistoryMoves
<1>4. Kept(history', isViewingHistory', stMemory', lineCapacity)
  BY <1>3 DEF PageDown
<1>. QED  BY <1>2, <1>4, KeyStep DEF PageDown

LEMMA EnterStep == IInv /\ Enter => IInv'
<1>. SUFFICES ASSUME IInv, Enter PROVE IInv'
  OBVIOUS
<1>. USE DEF Enter
<1>1. Plain /\ Kept(history, isViewingHistory, stMemory, lineCapacity)
  BY Parts
<1>2. Text \in Seq(Chars) /\ Len(Text) < lineCapacity
  BY ReadingLine
<1>3. << >> \in Seq(Chars) /\ Len(<< >>) < lineCapacity
  BY <1>1 DEF Plain
<1>4. LineShaped' /\ lineCapacity' \in Nat \ {0} /\ cursorIndex' \in Nat
  BY <1>3, ShowStep
<1>5. Plain'
  <2>1. c' \in Chars \cup Controls /\ input' \in {"open", "hung"} /\ output' \in Seq(Chars) /\ status' \in Status
    BY <1>1, <1>2 DEF Plain, Controls, Status
  <2>2. isViewingHistory' \in BOOLEAN
    OBVIOUS
  <2>. QED  BY <1>4, <2>1, <2>2 DEF Plain
<1>6. Kept(history, isViewingHistory, stMemory, lineCapacity)'
  <2>1. Kept(_historyRecordLine(history, Text), isViewingHistory, stMemory, lineCapacity)
    BY <1>1, <1>2, HistoryRecords
  <2>2. Kept(_historyRecordLine(history, Text), isViewingHistory, << >>, lineCapacity)
    BY <2>1, <1>3, KeptMemory
  <2>3. Kept(_historyMoveToFirst(_historyRecordLine(history, Text)), FALSE, << >>, lineCapacity)
    BY <2>2, <1>3, HistoryMoves
  <2>4. /\ history' = _historyMoveToFirst(_historyRecordLine(history, Text))
        /\ isViewingHistory' = FALSE /\ stMemory' = << >> /\ lineCapacity' = lineCapacity
    BY DEF _writeToCandidate
  <2>. QED  BY <2>3, <2>4
<1>. QED  BY <1>4, <1>5, <1>6, Parts, PTL

LEMMA NextInvariant == IInv /\ [Next]_vars => IInv'
<1>. SUFFICES ASSUME IInv, [Next]_vars PROVE IInv'
  OBVIOUS
<1>1. CASE \E ch \in Chars : Visible(ch)
  BY <1>1, VisibleStep
<1>2. CASE \E ch \in Chars : OutOfMemory(ch)
  BY <1>2, FinalStep
<1>3. CASE Backspace \/ Delete
  BY <1>3, BackspaceStep, DeleteStep
<1>4. CASE ArrowRight \/ ArrowLeft \/ Home \/ End \/ OtherKey
  BY <1>4, MoveStep
<1>5. CASE ArrowUp \/ ArrowDown \/ PageUp \/ PageUpNothing \/ PageDown
  BY <1>5, ArrowUpStep, ArrowDownStep, PageUpStep, PageUpNothingStep, PageDownStep
<1>6. CASE Enter
  BY <1>6, EnterStep
<1>7. CASE Unterminated \/ Again \/ Hangup \/ Rest \/ UNCHANGED vars
  <2>1. Nul \in Chars \cup Controls
    BY DEF Controls
  <2>. QED  BY <1>7, <2>1, FinalStep
<1>. QED  BY <1>1, <1>2, <1>3, <1>4, <1>5, <1>6, <1>7 DEF Next, Editor

-----------------------------------------------------------------------------
(* What the line editor keeps, for every key in every order *)

THEOREM Invariant == Spec => []IInv
<1>. QED  BY InitInvariant, NextInvariant, PTL DEF Spec

\* Every variable of the line editor has its type, and the candidate as many characters
\* as the capacity says.
THEOREM EditorTypes == Spec => []TypeOK
<1>1. IInv => TypeOK
  BY DEF IInv
<1>. QED  BY <1>1, Invariant, PTL

\* Behind a line that has an end there are only zeros, and the cursor is not behind them.
THEOREM LinesEndInZeros == Spec => []LineEndsInZeros
<1>1. IInv => LineEndsInZeros
  <2>. SUFFICES ASSUME IInv, IsString(candidate) PROVE LineEndsInZeros
    BY DEF LineEndsInZeros
  <2>1. PICK n \in Nat : /\ Shaped(candidate, lineCapacity, n)
                         /\ cursorIndex <= n \/ status = "wild"
    BY DEF IInv, LineShaped
  <2>2. lineCapacity \in Nat \ {0}
    BY DEF IInv, TypeOK
  <2>3. n < lineCapacity /\ strlen(candidate) = n
    BY <2>1, <2>2, ShapedString
  <2>4. \A k \in n .. lineCapacity - 1 : candidate[k] = Nul
    BY <2>1, <2>2 DEF Shaped
  <2>. QED  BY <2>1, <2>3, <2>4 DEF LineEndsInZeros
<1>. QED  BY <1>1, Invariant, PTL

\* No strcpy() between the candidate, the memory and the history is short of room.
THEOREM CopiesFit == Spec => []StringsFit
<1>1. IInv => StringsFit
  BY DEF IInv
<1>. QED  BY <1>1, Invariant, PTL

\* The history keeps its order, and its place, for any number of lines it may hold.
THEOREM HistoryStaysInOrder == Spec => []HistoryInOrder
<1>1. IInv => HistoryInOrder
  BY DEF IInv
<1>. QED  BY <1>1, Invariant, PTL

-----------------------------------------------------------------------------
(* The line that is typed *)

\* Whatever keys are pressed, as long as history is shown before and after the line in
\* the memory is the one that was being typed when it was first shown.
THEOREM TypedLineSurvivesHistory == Spec => TypedLineIsKept
<1>1. [Next]_vars => (isViewingHistory /\ isViewingHistory' => stMemory' = stMemory)
  <2>. SUFFICES ASSUME [Next]_vars, isViewingHistory, isViewingHistory' PROVE stMemory' = stMemory
    OBVIOUS
  <2>1. CASE ArrowUp \/ PageUp \/ PageUpNothing
    BY <2>1 DEF ArrowUp, PageUp, PageUpNothing
  <2>2. CASE ArrowDown \/ PageDown \/ Enter
    BY <2>2 DEF ArrowDown, PageDown, Enter
  <2>3. CASE \E ch \in Chars : Visible(ch) \/ OutOfMemory(ch)
    BY <2>3 DEF Visible, OutOfMemory
  <2>4. CASE Backspace \/ Delete \/ ArrowRight \/ ArrowLeft \/ Home \/ End \/ OtherKey
    BY <2>4 DEF Backspace, Delete, ArrowRight, ArrowLeft, Home, End, OtherKey, Edit
  <2>5. CASE Unterminated \/ Again \/ Hangup \/ Rest \/ UNCHANGED vars
    BY <2>5 DEF Unterminated, Again, Hangup, Rest, vars
  <2>. QED  BY <2>1, <2>2, <2>3, <2>4, <2>5 DEF Next, Editor
<1>. QED  BY <1>1, PTL DEF Spec, TypedLineIsKept

\* Two buffers that agree in their first k characters spell the same as far as these.
LEMMA SamePrefix ==
  ASSUME NEW cap \in Nat \ {0}, NEW b, NEW n, Shaped(b, cap, n), IsString(b),
         NEW wide \in Nat \ {0}, NEW d, NEW m, Shaped(d, wide, m), IsString(d),
         NEW k \in 0 .. n, k <= m, \A j \in 0 .. k - 1 : d[j] = b[j]
  PROVE  SubSeq(Spelling(d), 1, k) = SubSeq(Spelling(b), 1, k)
<1>1. n \in Nat /\ m \in Nat
  BY DEF Shaped
<1>2. /\ strlen(b) = n /\ Spelling(b) \in Seq(Chars) /\ Len(Spelling(b)) = n
      /\ strlen(d) = m /\ Spelling(d) \in Seq(Chars) /\ Len(Spelling(d)) = m
  BY ShapedString
<1>3. ASSUME NEW j \in 1 .. k PROVE Spelling(d)[j] = Spelling(b)[j]
  <2>1. j \in 1 .. n /\ j \in 1 .. m /\ j - 1 \in 0 .. k - 1
    BY <1>1
  <2>. QED  BY <1>2, <2>1 DEF Spelling
<1>. DEFINE s == Spelling(b)
            t == Spelling(d)
<1>. HIDE DEF s, t
<1>4. s \in Seq(Chars) /\ t \in Seq(Chars) /\ \A j \in 1 .. k : t[j] = s[j]
  BY <1>2, <1>3 DEF s, t
<1>5. SubSeq(s, 1, k) = [j \in 1 .. k |-> s[j]] /\ SubSeq(t, 1, k) = [j \in 1 .. k |-> t[j]]
  BY <1>1, <1>4
<1>. QED  BY <1>4, <1>5 DEF s, t

KeptLength == IF cursorIndex < cursorIndex' THEN cursorIndex ELSE cursorIndex'

\* A step to a buffer that agrees with the line as far as the cursor before and after it.
LEMMA ChangeStep ==
  ASSUME IInv, status = "reading", IsString(candidate), IsString(candidate'),
         NEW n, Shaped(candidate, lineCapacity, n),
         NEW m \in n - 1 .. n + 1, lineCapacity' \in Nat \ {0}, Shaped(candidate', lineCapacity', m),
         KeptLength \in 0 .. n, KeptLength <= m,
         \A j \in 0 .. KeptLength - 1 : candidate'[j] = candidate[j]
  PROVE  /\ Len(Text') \in Len(Text) - 1 .. Len(Text) + 1
         /\ SubSeq(Text', 1, KeptLength) = SubSeq(Text, 1, KeptLength)
<1>1. lineCapacity \in Nat \ {0}
  BY DEF IInv, TypeOK
<1>2. Text = Spelling(candidate) /\ Text' = Spelling(candidate')
  BY DEF Text
<1>3. Len(Spelling(candidate)) = n
  BY <1>1, ShapedString
<1>4. Len(Spelling(candidate')) = m
  BY ShapedString
<1>5. SubSeq(Spelling(candidate'), 1, KeptLength) = SubSeq(Spelling(candidate), 1, KeptLength)
  <2>. DEFINE k == KeptLength
  <2>1. k \in 0 .. n /\ k <= m /\ \A j \in 0 .. k - 1 : candidate'[j] = candidate[j]
    OBVIOUS
  <2>. HIDE DEF k
  <2>2. SubSeq(Spelling(candidate'), 1, k) = SubSeq(Spelling(candidate), 1, k)
    BY <1>1, <2>1, SamePrefix
  <2>. QED  BY <2>2 DEF k
<1>. QED  BY <1>2, <1>3, <1>4, <1>5

LEMMA VisibleStays ==
  ASSUME IInv, NEW ch \in Chars, Visible(ch), IsString(candidate')
  PROVE  /\ Len(Text') \in Len(Text) - 1 .. Len(Text) + 1
         /\ SubSeq(Text', 1, KeptLength) = SubSeq(Text, 1, KeptLength)
<1>1. PICK n \in Nat : Shaped(candidate, lineCapacity, n) /\ cursorIndex \in 0 .. n
  BY ReadingLine DEF Visible, Turn
<1>2. lineCapacity \in Nat \ {0} /\ status = "reading" /\ IsString(candidate)
  BY DEF IInv, TypeOK, Visible, Turn
<1>3. /\ lineCapacity' = NewCapacity /\ candidate' = Inserted(ch) /\ cursorIndex' = cursorIndex + 1
  BY DEF Visible
<1>4. PICK m \in n .. n + 1 : Shaped(Inserted(ch), NewCapacity, m) /\ cursorIndex + 1 <= m
  BY <1>1, <1>2, InsertedShaped
<1>5. /\ NewCapacity \in Nat \ {0}
      /\ \A k \in 0 .. cursorIndex - 1 : Inserted(ch)[k] = candidate[k]
  BY <1>1, <1>2, InsertedShaped
<1>6. KeptLength = cursorIndex
  BY <1>1, <1>3 DEF KeptLength
<1>7. m \in n - 1 .. n + 1 /\ KeptLength \in 0 .. n /\ KeptLength <= m
  BY <1>1, <1>4, <1>6
<1>8. \A j \in 0 .. KeptLength - 1 : candidate'[j] = candidate[j]
  BY <1>3, <1>5, <1>6
<1>. QED  BY <1>1, <1>2, <1>3, <1>4, <1>5, <1>7, <1>8, ChangeStep

\* What is taken out leaves what stands before it.
LEMMA RemovedStays ==
  ASSUME IInv, status = "reading", IsString(candidate), IsString(candidate'),
         NEW n \in Nat, Shaped(candidate, lineCapacity, n),
         NEW cursor \in 1 .. n + 1, candidate' = Removed(cursor), cursorIndex \in {cursor - 1, cursor},
         cursorIndex' = cursor - 1, lineCapacity' = lineCapacity
  PROVE  /\ Len(Text') \in Len(Text) - 1 .. Len(Text) + 1
         /\ SubSeq(Text', 1, KeptLength) = SubSeq(Text, 1, KeptLength)
<1>1. lineCapacity \in Nat \ {0}
  BY DEF IInv, TypeOK
<1>2. n < lineCapacity
  BY <1>1, ShapedString
<1>. DEFINE m == IF cursor <= n THEN n - 1 ELSE n
<1>3. Shaped(Removed(cursor), lineCapacity, m)
  BY <1>1, <1>2, RemovedShaped
<1>4. KeptLength = cursor - 1
  BY DEF KeptLength
<1>5. m \in n - 1 .. n + 1 /\ KeptLength \in 0 .. n /\ KeptLength <= m
  BY <1>4
<1>6. \A j \in 0 .. KeptLength - 1 : candidate'[j] = candidate[j]
  <2>1. DOMAIN candidate = 0 .. lineCapacity - 1
    BY DEF Shaped
  <2>2. \A j \in 0 .. KeptLength - 1 : j \in 0 .. lineCapacity - 1 /\ j \notin cursor - 1 .. lineCapacity - 2
    BY <1>1, <1>2, <1>4
  <2>. QED  BY <2>1, <2>2 DEF Removed
<1>. HIDE DEF m
<1>. QED  BY <1>1, <1>3, <1>5, <1>6, ChangeStep

LEMMA BackspaceStays ==
  ASSUME IInv, Backspace, candidate' # candidate, IsString(candidate')
  PROVE  /\ Len(Text') \in Len(Text) - 1 .. Len(Text) + 1
         /\ SubSeq(Text', 1, KeptLength) = SubSeq(Text, 1, KeptLength)
<1>1. PICK n \in Nat : /\ Shaped(candidate, lineCapacity, n) /\ cursorIndex \in 0 .. n
                       /\ n < lineCapacity /\ strlen(candidate) = n
  BY ReadingLine DEF Backspace, Turn
<1>2. lineCapacity \in Nat \ {0} /\ status = "reading" /\ IsString(candidate)
  BY DEF IInv, TypeOK, Backspace, Turn
<1>3. cursorIndex # 0
  BY DEF Backspace, Edit
<1>4. /\ cursorIndex' = cursorIndex - 1 /\ lineCapacity' = lineCapacity
      /\ candidate' = IF cursorIndex = n THEN [candidate EXCEPT ![cursorIndex - 1] = Nul]
                      ELSE Removed(cursorIndex)
  BY <1>1, <1>3 DEF Backspace, Edit
<1>5. CASE cursorIndex = n
  <2>1. Shaped(candidate', lineCapacity', n - 1)
    BY <1>1, <1>2, <1>3, <1>4, <1>5 DEF Shaped
  <2>2. KeptLength = n - 1
    BY <1>1, <1>4, <1>5 DEF KeptLength
  <2>3. n - 1 \in n - 1 .. n + 1 /\ KeptLength \in 0 .. n /\ KeptLength <= n - 1
    BY <1>1, <1>3, <1>5, <2>2
  <2>4. \A j \in 0 .. KeptLength - 1 : candidate'[j] = candidate[j]
    BY <1>1, <1>4, <1>5, <2>2 DEF Shaped
  <2>5. lineCapacity' \in Nat \ {0}
    BY <1>2, <1>4
  <2>. QED  BY <1>1, <1>2, <2>1, <2>3, <2>4, <2>5, ChangeStep
<1>6. CASE cursorIndex # n
  <2>1. candidate' = Removed(cursorIndex) /\ cursorIndex \in 1 .. n + 1 /\ cursorIndex' = cursorIndex - 1
    BY <1>1, <1>3, <1>4, <1>6
  <2>. QED  BY <1>1, <1>2, <1>4, <2>1, RemovedStays
<1>. QED  BY <1>5, <1>6

LEMMA DeleteStays ==
  ASSUME IInv, Delete, IsString(candidate')
  PROVE  /\ Len(Text') \in Len(Text) - 1 .. Len(Text) + 1
         /\ SubSeq(Text', 1, KeptLength) = SubSeq(Text, 1, KeptLength)
<1>1. PICK n \in Nat : Shaped(candidate, lineCapacity, n) /\ cursorIndex \in 0 .. n
  BY ReadingLine DEF Delete, Escape, Turn
<1>2. status = "reading" /\ IsString(candidate)
  BY DEF Delete, Escape, Turn
<1>3. candidate' = Removed(cursorIndex + 1) /\ cursorIndex' = cursorIndex /\ lineCapacity' = lineCapacity
  BY DEF Delete, Edit
<1>. DEFINE cursor == cursorIndex + 1
<1>4. cursor \in 1 .. n + 1 /\ cursorIndex \in {cursor - 1, cursor} /\ cursorIndex' = cursor - 1
  BY <1>1, <1>3
<1>5. candidate' = Removed(cursor)
  BY <1>3
<1>. HIDE DEF cursor
<1>. QED  BY <1>1, <1>2, <1>3, <1>4, <1>5, RemovedStays

\* Whatever keys are pressed, as long as no history is shown the line changes by one
\* character at the cursor and what stands before it stays, page down excepted.
THEOREM TypedLineStaysBeforeCursor == Spec => TypedLineStays
<1>1. ASSUME IInv, [Next]_vars, ~ isViewingHistory, ~ isViewingHistory', status = "reading",
             status' = "reading", candidate # candidate', IsString(candidate'), ~ PageDown
      PROVE  /\ Len(Text') \in Len(Text) - 1 .. Len(Text) + 1
             /\ SubSeq(Text', 1, KeptLength) = SubSeq(Text, 1, KeptLength)
  <2>1. ~ (ArrowUp \/ PageUp \/ PageUpNothing \/ ArrowDown \/ Enter)
    BY <1>1 DEF ArrowUp, PageUp, PageUpNothing, ArrowDown, Enter
  <2>2. ~ (ArrowRight \/ ArrowLeft \/ Home \/ End \/ OtherKey)
    BY <1>1 DEF ArrowRight, ArrowLeft, Home, End, OtherKey, Edit
  <2>3. ~ (Unterminated \/ Again \/ Hangup \/ Rest \/ UNCHANGED vars)
    BY <1>1 DEF Unterminated, Again, Hangup, Rest, vars
  <2>4. ~ (\E ch \in Chars : OutOfMemory(ch))
    BY <1>1 DEF OutOfMemory
  <2>5. (\E ch \in Chars : Visible(ch)) \/ Backspace \/ Delete
    BY <1>1, <2>1, <2>2, <2>3, <2>4 DEF Next, Editor
  <2>. QED  BY <1>1, <2>5, VisibleStays, BackspaceStays, DeleteStays
<1>2. IInv /\ [Next]_vars =>
        ((/\ ~ isViewingHistory /\ ~ isViewingHistory'
          /\ status = "reading" /\ status' = "reading"
          /\ candidate # candidate' /\ IsString(candidate') /\ ~ PageDown) =>
           LET kept == IF cursorIndex < cursorIndex' THEN cursorIndex ELSE cursorIndex'
           IN  /\ Len(Text') \in Len(Text) - 1 .. Len(Text) + 1
               /\ SubSeq(Text', 1, kept) = SubSeq(Text, 1, kept))
  BY <1>1 DEF KeptLength
<1>. QED  BY <1>2, Invariant, PTL DEF Spec, TypedLineStays
=============================================================================
