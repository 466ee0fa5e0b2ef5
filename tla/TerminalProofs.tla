---------------------------- MODULE TerminalProofs --------------------------
(***************************************************************************)
(* The line that is being typed is where the cursor is, on the screen and  *)
(* in the buffer, whatever the size of the screen and of the buffer, and   *)
(* wherever the other tasks and the timer write.                           *)
(*                                                                         *)
(* The cursor follows i only as long as it has not come to the edge of the *)
(* screen: put_char_at does not go back over an edge, shell_read_line      *)
(* does.  So the invariant has two cases for where the cursor is (Placed), *)
(* and the second is what bounds the cursor when the two have parted.      *)
(*                                                                         *)
(* With the keyboard buffer before the shell (ShellInput), the command is  *)
(* what was typed.  The steps of the joined system are those of Terminal   *)
(* and of BlockingQueue, whose theorems carry over.  What is new is that   *)
(* nothing is lost or doubled on the way from one to the other: what has   *)
(* been typed is what the shell has read, the character that bq_dequeue is *)
(* about to return and what the buffer holds, in this order (InOrder), and *)
(* the line is what the first of these make (MadeOfTyped).                 *)
(***************************************************************************)
EXTENDS ShellInput, SequenceTheorems, WellFoundedInduction, TLAPS

-----------------------------------------------------------------------------
(* Rows and columns                                                        *)

(* Division with a remainder,                                              *)
LEMMA Divided ==
  ASSUME NEW n \in Nat, NEW m \in Nat \ {0}
  PROVE  /\ n \div m \in Nat /\ n % m \in 0 .. m - 1
         /\ n = (n \div m) * m + (n % m)
OBVIOUS

(* of which there is only one.                                             *)
LEMMA Unique ==
  ASSUME NEW m \in Nat \ {0}, NEW q \in Nat, NEW r \in 0 .. m - 1
  PROVE  (q * m + r) % m = r
OBVIOUS

(* A whole number of rows that is less than another is less by a row.      *)
LEMMA RowsApart ==
  ASSUME NEW m \in Nat \ {0}, NEW p \in Nat, NEW q \in Nat, p * m < q * m
  PROVE  p * m + m <= q * m
<1>1. p < q
  <2> SUFFICES ASSUME p >= q PROVE FALSE
    OBVIOUS
  <2>1. PICK d \in Nat : p = q + d
    <3>1. p - q \in Nat /\ p = q + (p - q)
      OBVIOUS
    <3> QED BY <3>1
  <2>2. p * m = q * m + d * m /\ d * m >= 0
    BY <2>1
  <2> QED BY <2>2
<1>2. PICK d \in Nat : q = p + 1 + d
  <2>1. q - p - 1 \in Nat /\ q = p + 1 + (q - p - 1)
    BY <1>1
  <2> QED BY <2>1
<1>3. q * m = p * m + m + d * m /\ d * m >= 0
  BY <1>2
<1>4. p * m \in Nat /\ q * m \in Nat /\ d * m \in Nat
  OBVIOUS
<1> QED
  BY <1>3, <1>4

(* The row of an offset, without its column.                               *)
RowStart(offset) == (offset \div Cols) * Cols

(* An offset is its row's and its column.                                  *)
LEMMA ColFacts ==
  ASSUME NEW n \in Nat
  PROVE  /\ COL(n) \in 0 .. Cols - 1
         /\ RowStart(n) \in Nat
         /\ n = RowStart(n) + COL(n)
<1>1. Cols \in Nat \ {0}
  BY SizeAssumption
<1>2. n \div Cols \in Nat /\ n % Cols \in 0 .. Cols - 1
      /\ n = (n \div Cols) * Cols + (n % Cols)
  BY <1>1, Divided
<1> QED
  BY <1>1, <1>2 DEF COL, RowStart

(* Within a row the column is counted on, and the next row begins when it  *)
(* is full.                                                                *)
LEMMA ColOnward ==
  ASSUME NEW n \in Nat, NEW j \in Int, COL(n) + j \in 0 .. Cols
  PROVE  /\ n + j \in Nat
         /\ COL(n) + j < Cols => COL(n + j) = COL(n) + j
         /\ COL(n) + j = Cols => COL(n + j) = 0
<1>1. Cols \in Nat \ {0}
  BY SizeAssumption
<1>2. PICK q \in Nat : n = q * Cols + COL(n) /\ q * Cols \in Nat
  BY <1>1, ColFacts, Divided DEF RowStart
<1>3. n + j \in Nat /\ COL(n) \in 0 .. Cols - 1
  BY <1>1, <1>2, ColFacts
<1>4. ASSUME COL(n) + j < Cols
      PROVE  COL(n + j) = COL(n) + j
  <2>1. PICK r \in 0 .. Cols - 1 : r = COL(n) + j
    BY <1>1, <1>3, <1>4
  <2>2. n + j = q * Cols + r
    <3>1. PICK c \in Nat : c = COL(n)
      BY <1>3
    <3>2. n = q * Cols + c /\ r = c + j /\ q * Cols \in Nat
      BY <1>2, <2>1, <3>1
    <3> QED BY <3>2
  <2>3. (q * Cols + r) % Cols = r
    BY <1>1, Unique
  <2> QED BY <2>1, <2>2, <2>3 DEF COL
<1>5. ASSUME COL(n) + j = Cols
      PROVE  COL(n + j) = 0
  <2>1. PICK p \in Nat : p = q + 1
    OBVIOUS
  <2>2. p * Cols = q * Cols + Cols
    BY <1>1, <2>1
  <2>3. n + j = p * Cols + 0
    BY <1>1, <1>2, <1>3, <1>5, <2>2
  <2>4. (p * Cols + 0) % Cols = 0
    BY <1>1, Unique
  <2> QED BY <2>3, <2>4 DEF COL
<1> QED
  BY <1>3, <1>4, <1>5

(* From an offset on the screen the next row begins on it or right after.  *)
LEMMA NextRowFacts ==
  ASSUME NEW n \in Nat
  PROVE  /\ NextRow(n) \in Nat
         /\ n < NextRow(n)
         /\ n < Rows * Cols => NextRow(n) <= Rows * Cols
         /\ COL(n) = 0 => NextRow(n) = n + Cols
<1>1. Cols \in Nat \ {0} /\ Rows \in Nat
  BY SizeAssumption
<1>2. PICK q \in Nat : n = q * Cols + COL(n) /\ q * Cols \in Nat
  BY <1>1, ColFacts, Divided DEF RowStart
<1>3. COL(n) \in 0 .. Cols - 1
  BY ColFacts
<1>4. NextRow(n) = q * Cols + Cols
  BY <1>1, <1>2, <1>3 DEF NextRow
<1>5. Rows * Cols \in Nat
  BY <1>1
<1>6. n < Rows * Cols => q * Cols < Rows * Cols
  BY <1>1, <1>2, <1>3, <1>5
<1>7. q * Cols < Rows * Cols => q * Cols + Cols <= Rows * Cols
  BY <1>1, RowsApart
<1> QED
  BY <1>1, <1>2, <1>3, <1>4, <1>6, <1>7

-----------------------------------------------------------------------------
(* What a C string holds                                                   *)

(* A set of numbers has a least one.                                       *)
LEMMA Smallest ==
  ASSUME NEW T \in SUBSET Nat, T # {}
  PROVE  \E x \in T : \A y \in T : x <= y
<1>1. PICK x \in T : \A y \in T : ~ (<<y, x>> \in OpToRel(<, Nat))
  BY NatLessThanWellFounded, WFMin
<1>2. \A y \in T : ~ (y < x)
  BY <1>1 DEF OpToRel
<1> QED
  BY <1>2

(* UpToZero stops before the first zero,                                   *)
LEMMA UpToZeroIs ==
  ASSUME NEW s \in Seq(Letters \cup {Zero}), NEW n \in 1 .. Len(s), s[n] = Zero,
         \A j \in 1 .. n - 1 : s[j] # Zero
  PROVE  UpToZero(s) = SubSeq(s, 1, n - 1)
<1> DEFINE I == {j \in 1 .. Len(s) : s[j] = Zero}
<1>1. Len(s) \in Nat
  BY LenProperties
<1>2. n \in I /\ \A j \in I : n <= j
  BY <1>1
<1>3. Min(I) = n
  <2>1. \A x \in I : (\A j \in I : x <= j) => x = n
    BY <1>1, <1>2
  <2> HIDE DEF I
  <2> QED BY <1>2, <2>1 DEF Min
<1>4. UpToZero(s) = LET m == IF I # {} THEN Min(I) ELSE 0
                    IN IF m = 0 THEN s ELSE SubSeq(s, 1, m - 1)
  BY DEF UpToZero, SelectInSeq
<1>5. I # {} /\ n # 0
  BY <1>1, <1>2
<1> HIDE DEF I
<1> QED
  BY <1>3, <1>4, <1>5

(* and keeps what has none.                                                *)
LEMMA UpToZeroIsAll ==
  ASSUME NEW s \in Seq(Letters \cup {Zero}), \A j \in 1 .. Len(s) : s[j] # Zero
  PROVE  UpToZero(s) = s
<1> DEFINE I == {j \in 1 .. Len(s) : s[j] = Zero}
<1>1. I = {}
  OBVIOUS
<1>2. UpToZero(s) = LET m == IF I # {} THEN Min(I) ELSE 0
                    IN IF m = 0 THEN s ELSE SubSeq(s, 1, m - 1)
  BY DEF UpToZero, SelectInSeq
<1> HIDE DEF I
<1> QED
  BY <1>1, <1>2

(* What follows a terminator does not count: a string is as good as any    *)
(* that has it for a beginning.                                            *)
LEMMA UpToTerminator ==
  ASSUME NEW s \in Seq(Letters \cup {Zero}), NEW t \in Seq(Letters \cup {Zero}),
         Len(t) < Len(s), s[Len(t) + 1] = Zero, \A j \in 1 .. Len(t) : s[j] = t[j]
  PROVE  UpToZero(s) = UpToZero(t)
<1> DEFINE I == {j \in 1 .. Len(t) : t[j] = Zero}
<1>1. Len(s) \in Nat /\ Len(t) \in Nat
  BY LenProperties
<1>2. CASE I = {}
  <2>1. \A j \in 1 .. Len(t) : t[j] # Zero
    BY <1>2
  <2>2. UpToZero(t) = t
    BY <2>1, UpToZeroIsAll
  <2>3. UpToZero(s) = SubSeq(s, 1, Len(t))
    <3>1. PICK n \in 1 .. Len(s) : n = Len(t) + 1
      BY <1>1
    <3>2. UpToZero(s) = SubSeq(s, 1, n - 1)
      BY <1>1, <2>1, <3>1, UpToZeroIs
    <3> QED BY <1>1, <3>1, <3>2
  <2>4. \A j \in 1 .. Len(t) : s[j] \in Letters \cup {Zero}
    BY <1>1, ElementOfSeq
  <2>5. /\ SubSeq(s, 1, Len(t)) \in Seq(Letters \cup {Zero})
        /\ Len(SubSeq(s, 1, Len(t))) = Len(t)
        /\ \A j \in 1 .. Len(t) : SubSeq(s, 1, Len(t))[j] = s[j]
    BY <1>1, <2>4, SubSeqProperties
  <2>6. SubSeq(s, 1, Len(t)) = t
    BY <2>5, SeqEqual
  <2> QED BY <2>2, <2>3, <2>6
<1>3. CASE I # {}
  <2>1. PICK n \in I : \A j \in I : n <= j
    <3>1. I \in SUBSET Nat
      BY <1>1
    <3> HIDE DEF I
    <3> QED BY <1>3, <3>1, Smallest
  <2>2. /\ n \in 1 .. Len(t) /\ t[n] = Zero
        /\ \A j \in 1 .. n - 1 : t[j] # Zero
    BY <1>1, <2>1
  <2>3. UpToZero(t) = SubSeq(t, 1, n - 1)
    BY <2>2, UpToZeroIs
  <2>4. /\ n \in 1 .. Len(s) /\ s[n] = Zero
        /\ \A j \in 1 .. n - 1 : s[j] # Zero
    BY <1>1, <2>2
  <2>5. UpToZero(s) = SubSeq(s, 1, n - 1)
    BY <2>4, UpToZeroIs
  <2>6. \A j \in 1 .. n - 1 : s[j] = t[j] /\ s[j] \in Letters \cup {Zero}
    BY <1>1, <2>2, ElementOfSeq
  <2>7. /\ SubSeq(s, 1, n - 1) \in Seq(Letters \cup {Zero})
        /\ Len(SubSeq(s, 1, n - 1)) = n - 1
        /\ \A j \in 1 .. n - 1 : SubSeq(s, 1, n - 1)[j] = s[j]
        /\ SubSeq(t, 1, n - 1) \in Seq(Letters \cup {Zero})
        /\ Len(SubSeq(t, 1, n - 1)) = n - 1
        /\ \A j \in 1 .. n - 1 : SubSeq(t, 1, n - 1)[j] = t[j]
    BY <1>1, <2>2, <2>6, SubSeqProperties
  <2>8. SubSeq(s, 1, n - 1) = SubSeq(t, 1, n - 1)
    BY <2>6, <2>7, SeqEqual
  <2> QED BY <2>3, <2>5, <2>8
<1> QED
  BY <1>2, <1>3

(* The buffer as a sequence.                                               *)
BufferText(b) == [n \in 1 .. Size |-> b[n - 1]]

(* It is one, and as long as the buffer.                                   *)
LEMMA BufferIsText ==
  ASSUME NEW b \in [Index -> Letters \cup {Zero}]
  PROVE  /\ BufferText(b) \in Seq(Letters \cup {Zero})
         /\ Len(BufferText(b)) = Size
         /\ \A n \in 1 .. Size : BufferText(b)[n] = b[n - 1]
  BY SizeAssumption DEF BufferText, Index

-----------------------------------------------------------------------------
(* The inductive invariant                                                 *)

(* The cursor has not come to the edge of the screen on this line,         *)
BeforeEdge ==
  /\ current_offset = start + i
  /\ COL(start) + i \in 0 .. Cols - 1

(* or it has, and does not go back over it although i does.                *)
PastEdge ==
  \E edge \in start .. start + Size - 1 :
    /\ COL(edge) = 0
    /\ edge <= current_offset
    /\ current_offset <= edge + i \/ (i = -1 /\ current_offset = edge)

Placed == phase = "read" => BeforeEdge \/ PastEdge

(* There is room for the line below its prompt.                            *)
RoomForLine == start + Size <= Rows * Cols

(* The buffer begins with the line; before its first character the last    *)
(* one read is the newline of the line before.                             *)
LineHeld ==
  phase = "read" =>
    /\ Len(line) = IF i = -1 THEN 0 ELSE i
    /\ \A k \in 0 .. i - 1 : buf[k] = line[k + 1]
    /\ last = Newline => i = 0

(* The inductive invariant.                                                *)
IInv ==
  /\ TypeOK
  /\ RoomForLine
  /\ Placed
  /\ LineHeld
  /\ CommandIsLine
  /\ LineOnScreen

(* The comparison of i with size - 1 is one of unsigned values: it fails   *)
(* for -1.                                                                 *)
LEMMA MoreFitsFacts ==
  ASSUME i \in -1 .. Size - 1
  PROVE  MoreFits <=> i \in 0 .. Size - 2
<1>1. /\ Size \in Nat \ {0, 1} /\ UintModulus \in Nat \ {0}
      /\ UintModulus > 2 * Size
  BY SizeAssumption
<1>2. CASE i = -1
  <2>1. (-1) % UintModulus = UintModulus - 1
    BY <1>1
  <2> QED BY <1>1, <1>2, <2>1 DEF MoreFits, Unsigned
<1>3. CASE i \in 0 .. Size - 1
  <2>1. i \in 0 .. UintModulus - 1
    BY <1>1, <1>3
  <2>2. (0 * UintModulus + i) % UintModulus = i
    BY <1>1, <2>1, Unique
  <2>3. 0 * UintModulus + i = i
    BY <1>1, <2>1
  <2>4. Unsigned(i) = i
    BY <2>2, <2>3 DEF Unsigned
  <2> QED BY <1>1, <1>3, <2>4 DEF MoreFits
<1> QED
  BY <1>1, <1>2, <1>3

(* What is echoed: a newline writes nothing,                               *)
LEMMA EchoNewline ==
  ASSUME NEW offset
  PROVE  put_char_at(Newline, offset) = Moves(NextRow(offset))
  BY DEF put_char_at, Newline, Backspace

(* a backspace writes nothing at the start of a row,                       *)
LEMMA EchoBackspace ==
  ASSUME NEW offset
  PROVE  /\ COL(offset) = 0 => put_char_at(Backspace, offset) = Moves(offset)
         /\ COL(offset) # 0 =>
              put_char_at(Backspace, offset) = Writes(offset - 1, Blank, offset - 1)
  BY DEF put_char_at, Newline, Backspace

(* and any other character is written.                                     *)
LEMMA EchoOther ==
  ASSUME NEW ch, ch # Newline, ch # Backspace, NEW offset
  PROVE  put_char_at(ch, offset) = Writes(offset, ch, offset + 1)
  BY DEF put_char_at

(* While a line is read the cursor is on the screen.                       *)
LEMMA CursorOnScreen ==
  ASSUME TypeOK, RoomForLine, Placed, phase = "read"
  PROVE  /\ current_offset \in Nat
         /\ current_offset < Rows * Cols
         /\ current_offset + 1 <= Rows * Cols
<1>1. /\ Size \in Nat \ {0, 1} /\ Cols \in Nat /\ Cols > Size + 2
      /\ Rows \in Nat /\ Rows * Cols \in Nat
  BY SizeAssumption
<1>2. PICK cells \in Nat : cells = Rows * Cols
  BY <1>1
<1>3. /\ start \in Nat /\ i \in -1 .. Size - 1 /\ start + Size <= cells
      /\ current_offset \in 0 .. cells
  BY <1>1, <1>2 DEF TypeOK, RoomForLine
<1>4. CASE BeforeEdge
  BY <1>1, <1>2, <1>3, <1>4 DEF BeforeEdge
<1>5. CASE PastEdge
  <2>1. PICK edge \in start .. start + Size - 1 :
          /\ COL(edge) = 0
          /\ edge <= current_offset
          /\ current_offset <= edge + i \/ (i = -1 /\ current_offset = edge)
    BY <1>5 DEF PastEdge
  <2>2. edge \in Nat /\ edge < cells
    BY <1>1, <1>3, <2>1
  <2>3. edge + Cols <= cells
    BY <1>2, <2>1, <2>2, NextRowFacts
  <2> QED BY <1>1, <1>2, <1>3, <2>1, <2>2, <2>3
<1> QED
  BY <1>4, <1>5 DEF Placed

(* Within one row the cursor is where the line ends.                       *)
LEMMA PlacedFollows ==
  ASSUME TypeOK, Placed
  PROVE  CursorFollowsLine
<1> SUFFICES ASSUME phase = "read", LineInRow PROVE current_offset = start + i
  BY DEF CursorFollowsLine
<1>1. Size \in Nat \ {0, 1} /\ Cols \in Nat \ {0} /\ start \in Nat
  BY SizeAssumption DEF TypeOK
<1>2. COL(start) \in 1 .. Cols - 1 /\ COL(start) + Size <= Cols
  BY <1>1, ColFacts DEF LineInRow
<1>3. ~PastEdge
  <2> SUFFICES ASSUME NEW edge \in start .. start + Size - 1, COL(edge) = 0
               PROVE  FALSE
    BY DEF PastEdge
  <2>1. PICK j \in 0 .. Size - 1 : edge = start + j
    <3>1. edge - start \in 0 .. Size - 1 /\ edge = start + (edge - start)
      BY <1>1
    <3> QED BY <3>1
  <2>2. COL(start) + j \in 1 .. Cols - 1
    BY <1>1, <1>2, <2>1
  <2>3. COL(start + j) = COL(start) + j
    BY <1>1, <1>2, <2>1, <2>2, ColOnward
  <2> QED BY <2>1, <2>2, <2>3
<1> QED
  BY <1>3 DEF Placed, BeforeEdge

-----------------------------------------------------------------------------
(* Its proof                                                               *)

(* The first prompt is below the greeting.                                 *)
LEMMA InitIInv == Init => IInv
<1> SUFFICES ASSUME Init PROVE IInv
  OBVIOUS
<1>1. /\ Size \in Nat \ {0, 1} /\ Cols \in Nat \ {0} /\ Cols > Size + 2
      /\ Rows \in Nat /\ Rows > 3 /\ Rows * Cols \in Nat
  BY SizeAssumption
<1>2. Greeting = 3 * Cols
  <2>1. COL(0) = 0
    <3>1. (0 * Cols + 0) % Cols = 0
      BY <1>1, Unique
    <3>2. 0 * Cols + 0 = 0
      BY <1>1
    <3> QED BY <3>1, <3>2 DEF COL
  <2>2. NextRow(0) = Cols /\ COL(Cols) = 0
    BY <1>1, <2>1, NextRowFacts, ColOnward
  <2>3. NextRow(Cols) = 2 * Cols /\ COL(2 * Cols) = 0
    <3>1. NextRow(Cols) = Cols + Cols /\ COL(Cols + Cols) = 0
      BY <1>1, <2>2, NextRowFacts, ColOnward
    <3> QED BY <1>1, <3>1
  <2>4. 2 * Cols \in Nat
    BY <1>1
  <2>5. NextRow(2 * Cols) = 3 * Cols
    <3>1. NextRow(2 * Cols) = 2 * Cols + Cols
      BY <2>3, <2>4, NextRowFacts
    <3> QED BY <1>1, <3>1
  <2> QED BY <2>2, <2>3, <2>5 DEF Greeting
<1>3. 3 * Cols + Size + 2 <= Rows * Cols
  <2>1. PICK more \in Nat : Rows = 4 + more
    <3>1. Rows - 4 \in Nat /\ Rows = 4 + (Rows - 4)
      BY <1>1
    <3> QED BY <3>1
  <2>2. Rows * Cols = 4 * Cols + more * Cols /\ more * Cols \in Nat
    BY <1>1, <2>1
  <2> QED BY <1>1, <2>2
<1>4. /\ current_offset = start /\ start \in Nat /\ start + Size <= Rows * Cols
      /\ i = 0 /\ line = <<>> /\ phase = "read" /\ last = Newline
      /\ shown = [k \in Index |-> Blank]
  BY <1>1, <1>2, <1>3, SMTT(60) DEF Init
<1>5. TypeOK
  <2>1. line \in Seq(Letters \cup {Zero}) /\ Len(line) = 0
    BY <1>4, EmptySeq
  <2>2. /\ buf \in [Index -> Letters \cup {Zero}]
        /\ shown \in [Index -> Letters \cup {Blank, Other}]
    BY <1>4 DEF Init, Blank
  <2> QED BY <1>1, <1>4, <2>1, <2>2 DEF TypeOK, Chars
<1>6. BeforeEdge
  BY <1>1, <1>4, ColFacts DEF BeforeEdge
<1>7. LineHeld
  BY <1>4, EmptySeq DEF LineHeld
<1>8. LineOnScreen
  BY <1>4 DEF LineOnScreen
<1>9. CommandIsLine
  BY <1>4 DEF CommandIsLine
<1> QED
  BY <1>4, <1>5, <1>6, <1>7, <1>8, <1>9 DEF IInv, RoomForLine, Placed

(* A step that leaves the shell alone and writes on other writers' cells.  *)
LEMMA OtherWriterIInv ==
  ASSUME IInv, UNCHANGED <<current_offset, buf, i, phase, start, line, last>>,
         shown' \in [Index -> Letters \cup {Blank, Other}],
         \A k \in Index : \/ shown'[k] = shown[k]
                          \/ shown'[k] = Other /\ start + k \in OtherCells
  PROVE  IInv'
<1>1. TypeOK'
  BY DEF IInv, TypeOK
<1>2. RoomForLine' /\ Placed' /\ LineHeld'
  BY DEF IInv, RoomForLine, Placed, BeforeEdge, PastEdge, LineHeld
<1>3. CommandIsLine'
  BY DEF IInv, CommandIsLine, Command
<1>4. LineOnScreen'
  <2>1. LineInRow' <=> LineInRow
    BY DEF LineInRow
  <2> QED BY <2>1 DEF IInv, LineOnScreen
<1> QED
  BY <1>1, <1>2, <1>3, <1>4 DEF IInv

(* Another task's dot.                                                     *)
LEMMA ThreadIInv ==
  ASSUME IInv, NEW row \in DotRows, NEW col \in 0 .. Cols - 1, thread(row, col)
  PROVE  IInv'
<1>1. put_char_at(Other, OFFSET(row, col))
        = Writes(OFFSET(row, col), Other, OFFSET(row, col) + 1)
  BY EchoOther DEF Other, Newline, Backspace
<1>2. shown' = [k \in Index |-> IF start + k = OFFSET(row, col) THEN Other ELSE shown[k]]
  BY <1>1 DEF thread, put_char, Show, Writes
<1>3. OFFSET(row, col) \in OtherCells
  BY DEF OtherCells
<1>4. shown \in [Index -> Letters \cup {Blank, Other}]
  BY DEF IInv, TypeOK
<1>5. UNCHANGED <<current_offset, buf, i, phase, start, line, last>>
  BY DEF thread, put_char
<1> QED
  BY <1>2, <1>3, <1>4, <1>5, OtherWriterIInv

(* The timer's handler.                                                    *)
LEMMA TickIInv ==
  ASSUME IInv, tick
  PROVE  IInv'
<1>1. PICK cols \in SUBSET TimerCols :
        shown' = [k \in Index |->
                    IF start + k \in {OFFSET(Rows - 1, col) : col \in cols}
                    THEN Other ELSE shown[k]]
  BY DEF tick
<1>2. {OFFSET(Rows - 1, col) : col \in cols} \subseteq OtherCells
  BY DEF OtherCells
<1>3. shown \in [Index -> Letters \cup {Blank, Other}]
  BY DEF IInv, TypeOK
<1>4. UNCHANGED <<current_offset, buf, i, phase, start, line, last>>
  BY DEF tick
<1> QED
  BY <1>1, <1>2, <1>3, <1>4, OtherWriterIInv

(* Reading a newline ends the line.                                        *)
LEMMA NewlineIInv ==
  ASSUME IInv, ReadChar(Newline)
  PROVE  IInv'
<1>1. /\ Size \in Nat \ {0, 1} /\ phase = "read" /\ i \in 0 .. Size - 2
      /\ i \in Index
  BY SizeAssumption, MoreFitsFacts DEF IInv, TypeOK, ReadChar, Index
<1>2. current_offset \in Nat /\ current_offset < Rows * Cols
  BY <1>1, CursorOnScreen DEF IInv
<1>3. current_offset' = NextRow(current_offset)
  BY EchoNewline DEF ReadChar, print_char, Moves
<1>4. current_offset' \in 0 .. Rows * Cols
  <2>1. Rows * Cols \in Nat
    BY SizeAssumption
  <2> QED BY <1>2, <1>3, <2>1, NextRowFacts
<1>5. /\ buf' = [buf EXCEPT ![i] = Zero] /\ phase' = "dispatch"
      /\ UNCHANGED <<i, line, start>> /\ last' = Newline
  BY <1>1 DEF ReadChar, Terminate, Newline, Backspace
<1>6. shown' = shown
  <2>1. shown' = [k \in Index |-> IF start + k = -1 THEN Blank ELSE shown[k]]
    BY EchoNewline DEF ReadChar, print_char, Show, Moves
  <2>2. start \in Nat /\ \A k \in Index : start + k # -1
    BY SizeAssumption DEF IInv, TypeOK, Index
  <2>3. shown = [k \in Index |-> shown[k]]
    BY DEF IInv, TypeOK
  <2> QED BY <2>1, <2>2, <2>3
<1>7. TypeOK'
  <2>1. buf' \in [Index -> Letters \cup {Zero}]
    BY <1>5 DEF IInv, TypeOK
  <2>2. last' \in Chars
    BY <1>5 DEF Chars
  <2> QED BY <1>4, <1>5, <1>6, <2>1, <2>2 DEF IInv, TypeOK
<1>8. CommandIsLine'
  <2>1. buf \in [Index -> Letters \cup {Zero}] /\ buf' \in [Index -> Letters \cup {Zero}]
        /\ line \in Seq(Letters \cup {Zero})
    BY <1>5 DEF IInv, TypeOK
  <2>2. Len(line) = i /\ \A k \in 0 .. i - 1 : buf[k] = line[k + 1]
    BY <1>1 DEF IInv, LineHeld
  <2>3. /\ BufferText(buf') \in Seq(Letters \cup {Zero})
        /\ Len(BufferText(buf')) = Size
        /\ \A n \in 1 .. Size : BufferText(buf')[n] = buf'[n - 1]
    BY <2>1, BufferIsText
  <2>4. BufferText(buf')[i + 1] = Zero
    <3>1. PICK n \in 1 .. Size : n = i + 1 /\ n - 1 = i
      BY <1>1
    <3>2. buf'[i] = Zero
      BY <1>1, <1>5, <2>1
    <3> QED BY <2>3, <3>1, <3>2
  <2>5. ASSUME NEW j \in 1 .. i
        PROVE  BufferText(buf')[j] = line[j]
    <3>1. PICK k \in 0 .. i - 1 : j = k + 1
      <4>1. j - 1 \in 0 .. i - 1 /\ j = (j - 1) + 1
        BY <1>1
      <4> QED BY <4>1
    <3>2. k \in Index /\ k # i /\ j \in 1 .. Size /\ j - 1 = k
      BY <1>1, <3>1 DEF Index
    <3> QED BY <1>5, <2>1, <2>2, <2>3, <3>1, <3>2, ZenonT(60)
  <2>6. UpToZero(BufferText(buf')) = UpToZero(line)
    <3>1. PICK s : s = BufferText(buf')
      OBVIOUS
    <3>2. PICK t : t = line
      OBVIOUS
    <3>3. /\ s \in Seq(Letters \cup {Zero}) /\ t \in Seq(Letters \cup {Zero})
          /\ Len(t) < Len(s) /\ s[Len(t) + 1] = Zero
          /\ \A j \in 1 .. Len(t) : s[j] = t[j]
      BY <1>1, <2>1, <2>2, <2>3, <2>4, <2>5, <3>1, <3>2
    <3>4. UpToZero(s) = UpToZero(t)
      BY <3>3, UpToTerminator
    <3> QED BY <3>1, <3>2, <3>4
  <2> QED BY <1>5, <2>6 DEF CommandIsLine, Command, BufferText
<1> QED
  BY <1>5, <1>7, <1>8
  DEF IInv, RoomForLine, Placed, LineHeld, LineOnScreen

(* Reading a backspace.                                                    *)
LEMMA BackspaceIInv ==
  ASSUME IInv, ReadChar(Backspace)
  PROVE  IInv'
<1>1. /\ Size \in Nat \ {0, 1} /\ Cols \in Nat \ {0} /\ Cols > Size + 2
      /\ phase = "read" /\ i \in 0 .. Size - 2
  BY SizeAssumption, MoreFitsFacts DEF IInv, TypeOK, ReadChar
<1>2. PICK cells \in Nat : cells = Rows * Cols
  BY SizeAssumption
<1>3. /\ current_offset \in Nat /\ current_offset < cells
      /\ start \in Nat /\ start + Size <= cells
  BY <1>1, <1>2, CursorOnScreen DEF IInv, TypeOK, RoomForLine
<1>4. /\ i' = i - 1 /\ line' = (IF line = <<>> THEN line ELSE Front(line))
      /\ UNCHANGED <<buf, phase, start>> /\ last' = Backspace
  BY DEF ReadChar, Newline, Backspace
<1>5. /\ COL(current_offset) = 0 =>
           /\ current_offset' = current_offset
           /\ shown' = [k \in Index |-> IF start + k = -1 THEN Blank ELSE shown[k]]
      /\ COL(current_offset) # 0 =>
           /\ current_offset' = current_offset - 1
           /\ shown' = [k \in Index |->
                IF start + k = current_offset - 1 THEN Blank ELSE shown[k]]
  BY EchoBackspace DEF ReadChar, print_char, Show, Moves, Writes
<1>6. COL(current_offset) \in 0 .. Cols - 1 /\ COL(current_offset) <= current_offset
  BY <1>1, <1>3, ColFacts
<1>7. current_offset' \in 0 .. cells
  BY <1>1, <1>3, <1>5, <1>6
<1>8. /\ line' \in Seq(Letters \cup {Zero})
      /\ Len(line') = (IF i' = -1 THEN 0 ELSE i')
      /\ \A k \in 0 .. i' - 1 : line'[k + 1] = line[k + 1]
  <2>1. line \in Seq(Letters \cup {Zero}) /\ Len(line) = i
    BY <1>1 DEF IInv, TypeOK, LineHeld
  <2>2. CASE line = <<>>
    BY <1>1, <1>4, <2>1, <2>2, EmptySeq
  <2>3. CASE line # <<>>
    <3>1. i \in 1 .. Size - 2
      BY <1>1, <2>1, <2>3, EmptySeq
    <3>2. PICK n \in 0 .. Size - 3 : i = n + 1
      <4>1. i - 1 \in 0 .. Size - 3 /\ i = (i - 1) + 1
        BY <1>1, <3>1
      <4> QED BY <4>1
    <3>3. line' = SubSeq(line, 1, n)
      BY <1>4, <2>1, <2>3, <3>2 DEF Front
    <3>4. \A j \in 1 .. n : line[j] \in Letters \cup {Zero}
      BY <1>1, <2>1, <3>2, ElementOfSeq
    <3>5. /\ line' \in Seq(Letters \cup {Zero}) /\ Len(line') = n
          /\ \A j \in 1 .. n : line'[j] = line[j]
      BY <3>3, <3>4, SubSeqProperties
    <3> QED BY <1>4, <3>2, <3>5
  <2> QED BY <2>2, <2>3
<1>9. TypeOK'
  <2>1. shown' \in [Index -> Letters \cup {Blank, Other}]
    <3>1. shown \in [Index -> Letters \cup {Blank, Other}]
      BY DEF IInv, TypeOK
    <3> QED BY <1>5, <3>1
  <2>2. i' \in -1 .. Size - 1 /\ Len(line') < Size
    BY <1>1, <1>4, <1>8
  <2>3. last' \in Chars
    BY <1>4 DEF Chars
  <2> QED BY <1>2, <1>4, <1>7, <1>8, <2>1, <2>2, <2>3 DEF IInv, TypeOK
<1>10. BeforeEdge' \/ PastEdge'
  <2>1. CASE BeforeEdge /\ COL(current_offset) # 0
    <3>1. COL(start) \in 0 .. Cols - 1 /\ COL(start) + i \in 0 .. Cols - 1
          /\ current_offset = start + i
      BY <1>3, <2>1, ColFacts DEF BeforeEdge
    <3>2. COL(current_offset) = COL(start) + i
      BY <1>1, <1>3, <3>1, ColOnward
    <3> QED BY <1>1, <1>3, <1>4, <1>5, <2>1, <3>1, <3>2 DEF BeforeEdge
  <2>2. CASE BeforeEdge /\ COL(current_offset) = 0
    <3>1. COL(start) \in 0 .. Cols - 1 /\ COL(start) + i \in 0 .. Cols - 1
          /\ current_offset = start + i
      BY <1>3, <2>2, ColFacts DEF BeforeEdge
    <3>2. COL(current_offset) = COL(start) + i
      BY <1>1, <1>3, <3>1, ColOnward
    <3>3. i = 0 /\ current_offset = start
      BY <1>1, <1>3, <2>2, <3>1, <3>2
    <3>4. start \in start .. start + Size - 1
      BY <1>1, <1>3
    <3> QED BY <1>4, <1>5, <2>2, <3>3, <3>4 DEF PastEdge
  <2>3. CASE PastEdge
    <3>1. PICK edge \in start .. start + Size - 1 :
            /\ COL(edge) = 0
            /\ edge <= current_offset
            /\ current_offset <= edge + i \/ (i = -1 /\ current_offset = edge)
      BY <2>3 DEF PastEdge
    <3>2. edge \in Nat /\ current_offset <= edge + i
      BY <1>1, <1>3, <3>1
    <3>3. COL(current_offset) = 0 => current_offset = edge
      <4>1. CASE current_offset < edge + Cols
        <5>1. PICK j \in 0 .. Cols - 1 : current_offset = edge + j
          <6>1. current_offset - edge \in 0 .. Cols - 1
                /\ current_offset = edge + (current_offset - edge)
            BY <1>1, <1>3, <3>1, <3>2, <4>1
          <6> QED BY <6>1
        <5>2. COL(edge + j) = j
          BY <1>1, <3>1, <3>2, ColOnward
        <5> QED BY <3>2, <5>1, <5>2
      <4> QED BY <1>1, <1>3, <3>2, <4>1
    <3>4. /\ edge <= current_offset'
          /\ current_offset' <= edge + i' \/ (i' = -1 /\ current_offset' = edge)
      <4>1. CASE COL(current_offset) = 0
        BY <1>1, <1>3, <1>4, <1>5, <3>1, <3>2, <3>3, <4>1
      <4>2. CASE COL(current_offset) # 0
        BY <1>1, <1>3, <1>4, <1>5, <3>1, <3>2, <4>2
      <4> QED BY <4>1, <4>2
    <3> QED BY <1>4, <3>1, <3>4 DEF PastEdge
  <2> QED BY <1>1, <2>1, <2>2, <2>3 DEF IInv, Placed
<1>11. LineHeld'
  <2>1. \A k \in 0 .. i' - 1 : buf'[k] = line'[k + 1]
    BY <1>1, <1>4, <1>8 DEF IInv, LineHeld
  <2>2. last' # Newline
    BY <1>4 DEF Newline, Backspace
  <2> QED BY <1>8, <2>1, <2>2 DEF LineHeld
<1>12. LineOnScreen'
  <2> SUFFICES ASSUME LineInRow', NEW k \in Index
               PROVE  \/ shown'[k] = IF k < i' THEN buf'[k] ELSE Blank
                      \/ shown'[k] = Other /\ start' + k \in OtherCells
    BY DEF LineOnScreen, OtherCells
  <2>1. LineInRow
    BY <1>4 DEF LineInRow
  <2>2. \/ shown[k] = IF k < i THEN buf[k] ELSE Blank
        \/ shown[k] = Other /\ start + k \in OtherCells
    BY <1>1, <2>1 DEF IInv, LineOnScreen
  <2>3. current_offset = start + i /\ COL(current_offset) # 0
    <3>1. CursorFollowsLine
      BY PlacedFollows DEF IInv
    <3>2. current_offset = start + i
      BY <1>1, <2>1, <3>1 DEF CursorFollowsLine
    <3>3. COL(start) + i \in 1 .. Cols - 1 /\ COL(start) \in Nat
      BY <1>1, <1>3, <2>1, ColFacts, SMTT(60) DEF LineInRow
    <3> QED BY <1>1, <1>3, <3>2, <3>3, ColOnward
  <2>4. shown'[k] = IF start + k = current_offset - 1 THEN Blank ELSE shown[k]
    BY <1>5, <2>3
  <2>5. start + k = current_offset - 1 <=> k = i - 1
    BY <1>1, <1>3, <2>3 DEF Index
  <2>6. k \in 0 .. Size - 1
    BY DEF Index
  <2> QED BY <1>1, <1>4, <2>2, <2>4, <2>5, <2>6
<1> QED
  BY <1>3, <1>2, <1>4, <1>9, <1>10, <1>11, <1>12, <1>1
  DEF IInv, RoomForLine, Placed, CommandIsLine

(* Reading a character.                                                    *)
LEMMA LetterIInv ==
  ASSUME IInv, NEW ch \in Letters \cup {Zero}, ReadChar(ch)
  PROVE  IInv'
<1>1. /\ Size \in Nat \ {0, 1} /\ Cols \in Nat \ {0} /\ Cols > Size + 2
      /\ phase = "read" /\ i \in 0 .. Size - 2 /\ i \in Index
  BY SizeAssumption, MoreFitsFacts DEF IInv, TypeOK, ReadChar, Index
<1>2. PICK cells \in Nat : cells = Rows * Cols
  BY SizeAssumption
<1>3. /\ current_offset \in Nat /\ current_offset < cells
      /\ start \in Nat /\ start + Size <= cells
  BY <1>1, <1>2, CursorOnScreen DEF IInv, TypeOK, RoomForLine
<1>4. ch # Newline /\ ch # Backspace
  BY CharsAssumption
<1>5. /\ i' = i + 1 /\ line' = Append(line, ch)
      /\ buf' = [buf EXCEPT ![i] = ch]
      /\ UNCHANGED <<phase, start>> /\ last' = ch
  BY <1>4 DEF ReadChar
<1>6. /\ current_offset' = current_offset + 1
      /\ shown' = [k \in Index |-> IF start + k = current_offset THEN ch ELSE shown[k]]
  BY <1>4, EchoOther DEF ReadChar, print_char, Show, Writes
<1>7. /\ line \in Seq(Letters \cup {Zero}) /\ Len(line) = i
      /\ line' \in Seq(Letters \cup {Zero}) /\ Len(line') = i + 1
      /\ \A k \in 1 .. i : line'[k] = line[k]
      /\ line'[i + 1] = ch
  <2>1. line \in Seq(Letters \cup {Zero}) /\ Len(line) = i
    BY <1>1 DEF IInv, TypeOK, LineHeld
  <2> QED BY <1>5, <2>1, AppendProperties
<1>8. TypeOK'
  <2>1. shown' \in [Index -> Letters \cup {Blank, Other}]
        /\ buf' \in [Index -> Letters \cup {Zero}]
    <3>1. /\ shown \in [Index -> Letters \cup {Blank, Other}]
          /\ buf \in [Index -> Letters \cup {Zero}]
      BY DEF IInv, TypeOK
    <3> QED BY <1>1, <1>5, <1>6, <3>1 DEF Blank
  <2>2. i' \in -1 .. Size - 1 /\ Len(line') < Size /\ current_offset' \in 0 .. cells
    BY <1>1, <1>3, <1>5, <1>6, <1>7, SMTT(60)
  <2>3. last' \in Chars
    BY <1>5 DEF Chars
  <2> QED BY <1>2, <1>5, <1>7, <2>1, <2>2, <2>3 DEF IInv, TypeOK
<1>9. BeforeEdge' \/ PastEdge'
  <2>1. CASE BeforeEdge
    <3>1. COL(start) \in 0 .. Cols - 1 /\ COL(start) + i \in 0 .. Cols - 1
          /\ current_offset = start + i
      BY <1>3, <2>1, ColFacts DEF BeforeEdge
    <3>2. PICK n \in 1 .. Size - 1 : n = i + 1
      BY <1>1
    <3>3. CASE COL(start) + n < Cols
      BY <1>1, <1>3, <1>5, <1>6, <3>1, <3>2, <3>3 DEF BeforeEdge
    <3>4. CASE COL(start) + n = Cols
      <4>1. COL(start + n) = 0
        BY <1>1, <1>3, <3>1, <3>4, ColOnward
      <4>2. PICK edge \in start .. start + Size - 1 : edge = start + n
        BY <1>1, <1>3, <3>2
      <4>3. /\ COL(edge) = 0 /\ edge <= current_offset'
            /\ current_offset' <= edge + i'
        BY <1>1, <1>3, <1>5, <1>6, <3>1, <3>2, <4>1, <4>2
      <4> QED BY <1>5, <4>2, <4>3 DEF PastEdge
    <3> QED BY <1>1, <3>1, <3>2, <3>3, <3>4
  <2>2. CASE PastEdge
    <3>1. PICK edge \in start .. start + Size - 1 :
            /\ COL(edge) = 0
            /\ edge <= current_offset
            /\ current_offset <= edge + i \/ (i = -1 /\ current_offset = edge)
      BY <2>2 DEF PastEdge
    <3>2. edge <= current_offset' /\ current_offset' <= edge + i'
      BY <1>1, <1>3, <1>5, <1>6, <3>1
    <3> QED BY <1>5, <3>1, <3>2 DEF PastEdge
  <2> QED BY <1>1, <2>1, <2>2 DEF IInv, Placed
<1>10. LineHeld'
  <2>1. ASSUME NEW k \in 0 .. i' - 1
        PROVE  buf'[k] = line'[k + 1]
    <3>1. buf \in [Index -> Letters \cup {Zero}] /\ k \in Index
      BY <1>1, <1>5 DEF IInv, TypeOK, Index
    <3>2. CASE k = i
      <4>1. buf'[k] = ch
        BY <1>5, <3>1, <3>2
      <4>2. line'[k + 1] = ch
        BY <1>7, <3>2
      <4> QED BY <4>1, <4>2
    <3>3. CASE k \in 0 .. i - 1
      <4>1. buf'[k] = buf[k] /\ buf[k] = line[k + 1]
        BY <1>1, <1>5, <3>1, <3>3 DEF IInv, LineHeld
      <4>2. line'[k + 1] = line[k + 1]
        BY <1>1, <1>7, <3>3
      <4> QED BY <4>1, <4>2
    <3>4. k = i \/ k \in 0 .. i - 1
      BY <1>1, <1>5
    <3> QED BY <3>2, <3>3, <3>4
  <2> QED BY <1>1, <1>4, <1>5, <1>7, <2>1 DEF LineHeld
<1>11. LineOnScreen'
  <2> SUFFICES ASSUME LineInRow', NEW k \in Index
               PROVE  \/ shown'[k] = IF k < i' THEN buf'[k] ELSE Blank
                      \/ shown'[k] = Other /\ start' + k \in OtherCells
    BY DEF LineOnScreen, OtherCells
  <2>1. LineInRow
    BY <1>5 DEF LineInRow
  <2>2. \/ shown[k] = IF k < i THEN buf[k] ELSE Blank
        \/ shown[k] = Other /\ start + k \in OtherCells
    BY <1>1, <2>1 DEF IInv, LineOnScreen
  <2>3. current_offset = start + i
    <3>1. CursorFollowsLine
      BY PlacedFollows DEF IInv
    <3> QED BY <1>1, <2>1, <3>1 DEF CursorFollowsLine
  <2>4. shown'[k] = IF k = i THEN ch ELSE shown[k]
    BY <1>1, <1>3, <1>6, <2>3 DEF Index
  <2>5. buf'[k] = IF k = i THEN ch ELSE buf[k]
    BY <1>5 DEF IInv, TypeOK
  <2>6. k \in 0 .. Size - 1
    BY DEF Index
  <2>7. CASE k = i
    BY <1>1, <1>5, <2>4, <2>5, <2>7
  <2>8. CASE k # i
    BY <1>1, <1>5, <2>2, <2>4, <2>5, <2>6, <2>8
  <2> QED BY <2>7, <2>8
<1> QED
  BY <1>1, <1>2, <1>3, <1>5, <1>8, <1>9, <1>10, <1>11
  DEF IInv, RoomForLine, Placed, CommandIsLine

(* The buffer is full, or i is -1: the line ends without a newline.        *)
LEMMA LoopEndsIInv ==
  ASSUME IInv, LoopEnds
  PROVE  IInv'
<1>1. Size \in Nat \ {0, 1} /\ phase = "read" /\ i \in -1 .. Size - 1
  BY SizeAssumption DEF IInv, TypeOK, LoopEnds
<1>2. i # 0
  BY <1>1, MoreFitsFacts DEF LoopEnds
<1>3. last # Newline
  BY <1>1, <1>2 DEF IInv, LineHeld
<1>4. /\ phase' = "dispatch" /\ UNCHANGED <<current_offset, i, start, shown, line, last>>
      /\ buf' = IF i \in Index THEN [buf EXCEPT ![i] = Zero] ELSE buf
  BY DEF LoopEnds, Terminate
<1>5. TypeOK'
  BY <1>4 DEF IInv, TypeOK
<1> QED
  BY <1>3, <1>4, <1>5
  DEF IInv, RoomForLine, Placed, LineHeld, CommandIsLine, LineOnScreen

(* The shell ends.                                                         *)
LEMMA EndShellIInv ==
  ASSUME IInv, EndShell
  PROVE  IInv'
  BY DEF EndShell, IInv, TypeOK, RoomForLine, Placed, LineHeld, CommandIsLine,
         LineOnScreen

(* The prompt of the next line, after a command or without one.            *)
LEMMA NextLineIInv ==
  ASSUME IInv, NextLine
  PROVE  IInv'
<1>1. /\ Size \in Nat \ {0, 1} /\ Cols \in Nat \ {0}
      /\ OutputRows \subseteq Nat /\ TaskAText \in Nat
  BY SizeAssumption
<1>2. PICK cells \in Nat : cells = Rows * Cols
  BY SizeAssumption
<1>3. PICK offset \in Nat : Prompt(offset)
  <2>1. current_offset \in Nat
    BY <1>2 DEF IInv, TypeOK
  <2>2. CASE Command = <<>>
    BY <2>1, <2>2 DEF NextLine
  <2>3. CASE Command # <<>>
    <3>1. PICK after \in dispatch_cmd(current_offset) : Prompt(NextRow(after))
      BY <2>3 DEF NextLine
    <3>2. after \in Nat
      <4>1. NextRow(current_offset) \in Nat
        BY <2>1, NextRowFacts
      <4>2. ASSUME NEW n \in OutputRows
            PROVE  (IF n = 0 THEN current_offset
                    ELSE NextRow(current_offset) + (n - 1) * Cols) \in Nat
        <5>1. CASE n = 0
          BY <2>1, <5>1
        <5>2. CASE n # 0
          <6>1. n - 1 \in Nat
            BY <1>1, <5>2
          <6>2. (n - 1) * Cols \in Nat
            BY <1>1, <6>1
          <6> QED BY <4>1, <5>2, <6>2
        <5> QED BY <5>1, <5>2
      <4>3. current_offset + TaskAText \in Nat
        BY <1>1, <2>1
      <4> QED BY <3>1, <4>2, <4>3 DEF dispatch_cmd
    <3> QED BY <3>1, <3>2, NextRowFacts
  <2> QED BY <2>2, <2>3
<1>4. /\ current_offset' = offset + 2 /\ start' = offset + 2
      /\ i' = 0 /\ line' = <<>> /\ phase' = "read" /\ UNCHANGED <<buf, last>>
      /\ shown' \in [Index -> {Blank, Other}]
      /\ \A k \in Index : shown'[k] = Other => start' + k \in OtherCells
      /\ offset + Size + 2 <= cells
  BY <1>2, <1>3 DEF Prompt, NextLine
<1>5. TypeOK'
  <2>1. line' \in Seq(Letters \cup {Zero}) /\ Len(line') = 0
    BY <1>4, EmptySeq
  <2>2. shown' \in [Index -> Letters \cup {Blank, Other}]
    BY <1>4
  <2> QED BY <1>1, <1>2, <1>4, <2>1, <2>2 DEF IInv, TypeOK
<1>6. BeforeEdge'
  <2>1. PICK n \in Nat : n = offset + 2
    OBVIOUS
  <2>2. COL(n) \in 0 .. Cols - 1
    BY ColFacts
  <2>3. n = n + 0 /\ COL(n) = COL(n) + 0
    BY <2>2
  <2> QED BY <1>4, <2>1, <2>2, <2>3 DEF BeforeEdge
<1>7. LineHeld'
  BY <1>4, EmptySeq DEF LineHeld
<1>8. LineOnScreen'
  <2> SUFFICES ASSUME NEW k \in Index
               PROVE  \/ shown'[k] = IF k < i' THEN buf'[k] ELSE Blank
                      \/ shown'[k] = Other /\ start' + k \in OtherCells
    BY DEF LineOnScreen, OtherCells
  <2>1. ~(k < i')
    BY <1>1, <1>4 DEF Index
  <2>2. shown'[k] \in {Blank, Other}
    BY <1>4
  <2> QED BY <1>4, <2>1, <2>2
<1> QED
  BY <1>1, <1>2, <1>4, <1>5, <1>6, <1>7, <1>8
  DEF IInv, RoomForLine, Placed, CommandIsLine

(* Every step keeps the invariant,                                         *)
LEMMA NextIInv == IInv /\ [Next]_vars => IInv'
<1> SUFFICES ASSUME IInv, [Next]_vars PROVE IInv'
  OBVIOUS
<1>1. CASE UNCHANGED vars
  <2>1. LineInRow' <=> LineInRow
    BY <1>1 DEF vars, LineInRow
  <2>2. CommandIsLine'
    BY <1>1 DEF IInv, vars, CommandIsLine, Command
  <2> QED BY <1>1, <2>1, <2>2 DEF vars, IInv, TypeOK, RoomForLine, Placed, BeforeEdge,
             PastEdge, LineHeld, LineOnScreen
<1>2. ASSUME NEW ch \in Chars, ReadChar(ch) PROVE IInv'
  BY <1>2, NewlineIInv, BackspaceIInv, LetterIInv DEF Chars
<1> QED
  BY <1>1, <1>2, LoopEndsIInv, EndShellIInv, NextLineIInv, ThreadIInv, TickIInv DEF Next

(* so it holds in every state.                                             *)
LEMMA Invariance == Spec => []IInv
  BY InitIInv, NextIInv, PTL DEF Spec

-----------------------------------------------------------------------------
(* What it shows                                                           *)

(* The variables of shell_read_line and of the console keep their types;   *)
(* above all current_offset stays on the screen while a line is read, and  *)
(* no index of cmd but -1 is outside it.                                   *)
THEOREM TypeCorrect == Spec => []TypeOK
<1>1. IInv => TypeOK
  BY DEF IInv
<1> QED
  BY <1>1, Invariance, PTL

(* print_char moves the cursor as shell_read_line moves i, whatever the    *)
(* timer and the other tasks write in between.                             *)
THEOREM CursorAtEndOfLine == Spec => []CursorFollowsLine
<1>1. IInv => CursorFollowsLine
  BY PlacedFollows DEF IInv
<1> QED
  BY <1>1, Invariance, PTL

(* What the screen shows of the line is what cmd holds.                    *)
THEOREM SeenIsHeld == Spec => []LineOnScreen
<1>1. IInv => LineOnScreen
  BY DEF IInv
<1> QED
  BY <1>1, Invariance, PTL

(* dispatch_cmd is given the line as it was corrected.                     *)
THEOREM CommandAsTyped == Spec => []CommandIsLine
<1>1. IInv => CommandIsLine
  BY DEF IInv
<1> QED
  BY <1>1, Invariance, PTL

-----------------------------------------------------------------------------
(* The shell's lines out of the keyboard's buffer                          *)

(* The theorems about BlockingQueue, for the buffer that the shell reads.  *)
QP == INSTANCE BlockingQueueProofs WITH buf <- slots, ch <- got, pc <- at

(* Its assumptions are made here.                                          *)
LEMMA QueueAssumptions ==
  QP!QueueMaxItemsAssumption /\ QP!CharsAssumption /\ QP!ReaderAssumption
BY InputAssumption DEF Chars, QP!QueueMaxItemsAssumption, QP!CharsAssumption,
                       QP!ReaderAssumption

(* What the next character makes of a line.                                *)
Edit(l, c) ==
  IF c # Backspace THEN Append(l, c) ELSE IF l = <<>> THEN <<>> ELSE Front(l)

(* The lines up to the n-th.                                               *)
LinesUpTo(lines, s, n) ==
  /\ lines = [k \in 0 .. n |-> lines[k]]
  /\ lines[0] = <<>>
  /\ \A k \in 1 .. n : lines[k] = Edit(lines[k - 1], s[k])

(* There are such lines, each made of the one before.                      *)
LEMMA AllLines ==
  ASSUME NEW s, NEW n \in Nat
  PROVE  \E lines : LinesUpTo(lines, s, n)
<1> DEFINE Without == {k \in Nat : ~ \E lines : LinesUpTo(lines, s, k)}
<1> SUFFICES Without = {}
  OBVIOUS
<1> SUFFICES ASSUME Without # {} PROVE FALSE
  OBVIOUS
<1>1. PICK k \in Without : \A j \in Without : k <= j
  BY Smallest
<1>2. k \in Nat /\ ~ \E lines : LinesUpTo(lines, s, k)
  BY <1>1
<1>3. k # 0
  <2> SUFFICES ASSUME k = 0 PROVE FALSE
    OBVIOUS
  <2> DEFINE none == [j \in 0 .. 0 |-> <<>>]
  <2>1. LinesUpTo(none, s, 0)
    BY DEF LinesUpTo
  <2> QED BY <1>2, <2>1
<1>4. k - 1 \in Nat /\ k - 1 \notin Without
  <2>1. k - 1 \in Nat /\ ~ (k <= k - 1)
    BY <1>2, <1>3
  <2> HIDE DEF Without
  <2> QED BY <1>1, <2>1
<1>5. PICK lines : LinesUpTo(lines, s, k - 1)
  BY <1>4
<1> DEFINE more == [j \in 0 .. k |-> IF j = k THEN Edit(lines[k - 1], s[k]) ELSE lines[j]]
<1>6. LinesUpTo(more, s, k)
  <2>1. more = [j \in 0 .. k |-> more[j]]
    OBVIOUS
  <2>2. more[0] = <<>>
    BY <1>2, <1>3, <1>5 DEF LinesUpTo
  <2>3. ASSUME NEW j \in 1 .. k PROVE more[j] = Edit(more[j - 1], s[j])
    <3>1. more[j - 1] = lines[j - 1]
      BY <1>2, <2>3
    <3>2. CASE j = k
      BY <1>2, <3>1, <3>2
    <3>3. CASE j # k
      <4>1. j \in 1 .. k - 1
        BY <1>2, <3>3
      <4>2. lines[j] = Edit(lines[j - 1], s[j])
        BY <1>5, <4>1 DEF LinesUpTo
      <4> QED BY <3>1, <3>3, <4>2
    <3> QED BY <3>2, <3>3
  <2> HIDE DEF more
  <2> QED BY <2>1, <2>2, <2>3 DEF LinesUpTo
<1> QED
  BY <1>2, <1>6

(* Edited is these lines.                                                  *)
LEMMA EditedIs ==
  ASSUME NEW s, Len(s) \in Nat
  PROVE  LinesUpTo(Edited(s), s, Len(s))
<1> DEFINE Loop(f) ==
      f = [n \in 0 .. Len(s) |-> IF n = 0 THEN <<>> ELSE Edit(f[n - 1], s[n])]
<1>1. PICK lines : LinesUpTo(lines, s, Len(s))
  BY AllLines
<1>2. Loop(lines)
  <2>1. \A n \in 0 .. Len(s) : lines[n] = IF n = 0 THEN <<>> ELSE Edit(lines[n - 1], s[n])
    BY <1>1 DEF LinesUpTo
  <2>2. lines = [n \in 0 .. Len(s) |-> lines[n]]
    BY <1>1 DEF LinesUpTo
  <2> QED BY <2>1, <2>2
<1>3. Edited(s) = CHOOSE f : Loop(f)
  BY DEF Edited, Edit
<1> HIDE DEF Loop
<1>4. Loop(CHOOSE f : Loop(f))
  BY <1>2, Zenon
<1>5. Loop(Edited(s))
  BY <1>3, <1>4
<1>6. Edited(s) = [n \in 0 .. Len(s) |->
                     IF n = 0 THEN <<>> ELSE Edit(Edited(s)[n - 1], s[n])]
  BY <1>5 DEF Loop
<1>7. PICK e : e = Edited(s)
  OBVIOUS
<1>8. e = [n \in 0 .. Len(s) |-> IF n = 0 THEN <<>> ELSE Edit(e[n - 1], s[n])]
  BY <1>6, <1>7
<1>9. LinesUpTo(e, s, Len(s))
  BY <1>8 DEF LinesUpTo
<1> QED
  BY <1>7, <1>9

(* The same functions up to m.                                             *)
SameUpTo(s, t, m) == \A k \in 1 .. m : s[k] = t[k]

(* Characters typed later do not change a line.                            *)
LEMMA SameLines ==
  ASSUME NEW s, NEW t, NEW m \in Nat, NEW e, NEW f, NEW p \in Nat, m <= p,
         LinesUpTo(e, s, m), LinesUpTo(f, t, p), SameUpTo(s, t, m)
  PROVE  \A n \in 0 .. m : e[n] = f[n]
<1> DEFINE Apart == {k \in 0 .. m : e[k] # f[k]}
<1> SUFFICES ASSUME Apart # {} PROVE FALSE
  OBVIOUS
<1>1. Apart \in SUBSET Nat
  OBVIOUS
<1>2. PICK k \in Apart : \A j \in Apart : k <= j
  BY <1>1, Smallest
<1>3. k \in 0 .. m /\ e[k] # f[k]
  BY <1>2
<1>4. k # 0
  BY <1>3 DEF LinesUpTo
<1>5. k - 1 \in 0 .. m /\ ~ (k <= k - 1) /\ k \in 1 .. m /\ k \in 1 .. p
  BY <1>3, <1>4
<1>6. k - 1 \notin Apart
  <2> HIDE DEF Apart
  <2> QED BY <1>2, <1>5
<1>7. e[k - 1] = f[k - 1]
  BY <1>5, <1>6
<1>8. e[k] = Edit(e[k - 1], s[k]) /\ f[k] = Edit(f[k - 1], t[k]) /\ s[k] = t[k]
  BY <1>5 DEF LinesUpTo, SameUpTo
<1> QED
  BY <1>3, <1>7, <1>8

(* How many characters bq_dequeue has taken out of the buffer and not yet  *)
(* returned, and how many are in it.                                       *)
Taken == IF at \in QP!AfterAdvance THEN 1 ELSE 0
Waiting == QP!Count(front, rear)

(* What has been typed is what the shell has read, what it is about to be  *)
(* given and what is in the buffer.                                        *)
InOrder ==
  /\ typed \in Seq(Chars) /\ Len(typed) <= MaxTyped
  /\ n_read \in Nat
  /\ Len(typed) = n_read + Taken + Waiting
  /\ at \in QP!AfterAdvance => got = typed[n_read + 1]
  /\ \A k \in 1 .. Waiting : typed[n_read + Taken + k] = slots[QP!SlotOf(front, k)]

(* The shell is in bq_dequeue only for a line that it wants to go on with. *)
InLoop == at # "wait" => phase = "read" /\ MoreFits

(* The line is made of what has been read.                                 *)
MadeOfTyped ==
  /\ phase = "read" => line = Edited(typed)[n_read] /\ (last = Newline => i = 0)
  /\ phase = "dispatch" /\ last = Newline =>
       n_read > 0 /\ typed[n_read] = Newline /\ line = Edited(typed)[n_read - 1]

(* The invariant.                                                          *)
InputIInv == IInv /\ QP!BqIInv /\ InOrder /\ InLoop /\ MadeOfTyped

(* What bq_dequeue returns is a character.                                 *)
LEMMA ReturnsCharacter ==
  ASSUME QP!BqIInv, shell_read_char
  PROVE  got \in Chars /\ ReadChar(got) /\ at = "return" /\ at' = "wait"
  BY DEF QP!BqIInv, QP!ReaderHolds, QP!AfterAdvance, shell_read_char, Q!Return

(* For the terminal every step is one of its own or none.                  *)
LEMMA StepOfTerminal == QP!BqIInv /\ [InputNext]_inputVars => [Next]_vars
<1> SUFFICES ASSUME QP!BqIInv, [InputNext]_inputVars PROVE [Next]_vars
  OBVIOUS
<1>1. CASE shell_read_char
  BY <1>1, ReturnsCharacter DEF Next
<1>2. CASE bq_dequeue \/ shell_read_line_ends \/ shell_next_line \/ shell_ends
  BY <1>2 DEF bq_dequeue, shell_read_line_ends, shell_next_line, shell_ends, Next
<1>3. CASE \E c \in Chars : keyboard_interrupt(c)
  BY <1>3 DEF keyboard_interrupt
<1>4. CASE timer_interrupt \/ user_task
  BY <1>4 DEF timer_interrupt, user_task, Next
<1>5. CASE UNCHANGED inputVars
  BY <1>5 DEF inputVars
<1> QED
  BY <1>1, <1>2, <1>3, <1>4, <1>5 DEF InputNext, shell

(* The buffer that the shell reads is the one BlockingQueueProofs is       *)
(* about.                                                                  *)
LEMMA SameQueue ==
  /\ Q!BqInit => QP!BqInit
  /\ Q!wait_event => QP!wait_event
  /\ Q!DequeueRead => QP!DequeueRead
  /\ Q!DequeueAdvance => QP!DequeueAdvance
  /\ Q!TestEmpty => QP!TestEmpty
  /\ Q!reset_event => QP!reset_event
  /\ Q!Return => QP!Return
  /\ \A c : Q!bq_enqueue(c) => QP!bq_enqueue(c)
  /\ Q!AfterInterrupt = QP!AfterInterrupt
  /\ Q!IsFull <=> QP!IsFull
<1> USE DEF Q!queue, QP!queue, Q!IsEmpty, QP!IsEmpty, Q!Following, QP!Following,
            Q!IsFull, QP!IsFull, Q!AfterInterrupt, QP!AfterInterrupt
<1>1. Q!BqInit => QP!BqInit
  BY DEF Q!BqInit, QP!BqInit, Q!CreateQueue, QP!CreateQueue, Q!Slot, QP!Slot,
         Q!NoTask, QP!NoTask
<1>2. Q!wait_event => QP!wait_event
  BY DEF Q!wait_event, QP!wait_event, Q!WaitTest, QP!WaitTest, Q!WaitRegister,
         QP!WaitRegister, Q!WaitBlock, QP!WaitBlock, Q!WaitHalt, QP!WaitHalt
<1>3. /\ Q!DequeueRead => QP!DequeueRead
      /\ Q!DequeueAdvance => QP!DequeueAdvance
      /\ Q!TestEmpty => QP!TestEmpty
  BY DEF Q!DequeueRead, QP!DequeueRead, Q!Front, QP!Front, Q!DequeueAdvance,
         QP!DequeueAdvance, Q!Advance, QP!Advance, Q!TestEmpty, QP!TestEmpty
<1>4. /\ Q!reset_event => QP!reset_event
      /\ Q!Return => QP!Return
  BY DEF Q!reset_event, QP!reset_event, Q!ResetState, QP!ResetState, Q!ResetTid,
         QP!ResetTid, Q!NoTask, QP!NoTask, Q!Return, QP!Return
<1>5. ASSUME NEW c, Q!bq_enqueue(c) PROVE QP!bq_enqueue(c)
  BY <1>5 DEF Q!bq_enqueue, QP!bq_enqueue, Q!Enqueue, QP!Enqueue, Q!set_event, QP!set_event
<1> QED
  BY <1>1, <1>2, <1>3, <1>4, <1>5

(* For the buffer, too, every step is one of its own or none.              *)
LEMMA StepOfQueue == [InputNext]_inputVars => [QP!BqNext]_QP!bqVars
<1> SUFFICES ASSUME [InputNext]_inputVars PROVE [QP!BqNext]_QP!bqVars
  OBVIOUS
<1>1. UNCHANGED keybuf => UNCHANGED QP!bqVars
  BY DEF keybuf, QP!bqVars, QP!queue
<1>2. CASE bq_dequeue \/ shell_read_char
  BY <1>2, SameQueue DEF bq_dequeue, shell_read_char, Q!dequeue, QP!dequeue, QP!bq_dequeue,
                         QP!BqNext
<1>3. CASE shell_read_line_ends \/ shell_next_line \/ shell_ends \/ user_task
  BY <1>1, <1>3 DEF shell_read_line_ends, shell_next_line, shell_ends, user_task
<1>4. ASSUME NEW c \in Chars, keyboard_interrupt(c) PROVE QP!BqNext
  <2>1. QP!bq_enqueue(c)
    BY <1>4, SameQueue DEF keyboard_interrupt
  <2> QED BY <2>1 DEF QP!BqNext
<1>5. CASE timer_interrupt
  <2>1. at' = QP!AfterInterrupt /\ UNCHANGED <<slots, front, rear, evt, got>>
    BY <1>5, SameQueue DEF timer_interrupt
  <2> QED BY <2>1 DEF QP!AfterInterrupt, QP!HaltEnds, QP!BqNext, QP!bqVars, QP!queue
<1>6. CASE UNCHANGED inputVars
  BY <1>1, <1>6 DEF inputVars, keybuf
<1> QED
  BY <1>2, <1>3, <1>4, <1>5, <1>6 DEF InputNext, shell

(* At first nothing has been typed.                                        *)
LEMMA InputInitIInv == InputInit => InputIInv
<1> SUFFICES ASSUME InputInit PROVE InputIInv
  OBVIOUS
<1>1. Init /\ QP!BqInit /\ typed = <<>> /\ n_read = 0
  BY SameQueue DEF InputInit
<1>2. IInv /\ QP!BqIInv
  BY <1>1, InitIInv, QueueAssumptions, QP!BqInitIInv
<1>3. at = "wait" /\ front = 0 /\ rear = 0
  BY <1>1 DEF QP!BqInit, QP!CreateQueue
<1>4. Waiting = 0 /\ Taken = 0
  BY <1>3, InputAssumption DEF Waiting, Taken, QP!Count, QP!AfterAdvance
<1>5. <<>> \in Seq(Chars) /\ Len(<<>>) = 0
  BY EmptySeq
<1>6. InOrder /\ InLoop
  BY <1>1, <1>3, <1>4, <1>5, InputAssumption DEF InOrder, InLoop, QP!AfterAdvance
<1>7. MadeOfTyped
  <2>1. Edited(typed)[0] = <<>>
    BY <1>1, <1>5, EditedIs DEF LinesUpTo
  <2>2. phase = "read" /\ line = <<>> /\ i = 0
    BY <1>1 DEF Init
  <2> QED BY <1>1, <2>1, <2>2 DEF MadeOfTyped
<1> QED
  BY <1>2, <1>6, <1>7 DEF InputIInv

(* The order is kept by a step that types and reads nothing and leaves the *)
(* buffer.                                                                 *)
LEMMA OrderKeeps ==
  ASSUME InOrder, UNCHANGED <<slots, front, rear, got, typed, n_read>>,
         at' \in QP!AfterAdvance <=> at \in QP!AfterAdvance
  PROVE  InOrder'
<1>1. Waiting' = Waiting /\ Taken' = Taken
  BY DEF Waiting, Taken, QP!Count
<1> QED
  BY <1>1 DEF InOrder, QP!SlotOf, QP!AfterAdvance

(* bq_dequeue takes the character that was typed next.                     *)
LEMMA DequeueInOrder ==
  ASSUME QP!BqIInv, InOrder, bq_dequeue
  PROVE  InOrder'
<1>1. CASE Q!wait_event \/ Q!DequeueRead \/ Q!TestEmpty \/ Q!reset_event
  <2>1. UNCHANGED <<slots, front, rear, typed, n_read>>
    BY <1>1 DEF bq_dequeue, Q!wait_event, Q!WaitTest, Q!WaitRegister, Q!WaitBlock, Q!WaitHalt,
                Q!DequeueRead, Q!TestEmpty, Q!reset_event, Q!ResetState, Q!ResetTid, Q!queue
  <2>2. CASE Q!DequeueRead
    <3>1. at = "dequeue" /\ ~ QP!IsEmpty
      BY <2>2 DEF Q!DequeueRead, QP!BqIInv, QP!EventTellsNotEmpty, QP!BqTypeOK, QP!IsEmpty
    <3>2. at' = "advance"
      BY <2>2, <3>1 DEF Q!DequeueRead, Q!IsEmpty, QP!IsEmpty
    <3>3. Waiting' = Waiting /\ Taken' = Taken
      BY <2>1, <3>1, <3>2 DEF Waiting, Taken, QP!Count, QP!AfterAdvance
    <3> QED BY <2>1, <3>2, <3>3 DEF InOrder, QP!SlotOf, QP!AfterAdvance
  <2>3. CASE Q!wait_event \/ Q!TestEmpty \/ Q!reset_event
    <3>1. UNCHANGED got /\ (at' \in QP!AfterAdvance <=> at \in QP!AfterAdvance)
      BY <2>3 DEF Q!wait_event, Q!WaitTest, Q!WaitRegister, Q!WaitBlock, Q!WaitHalt,
                  Q!TestEmpty, Q!reset_event, Q!ResetState, Q!ResetTid, QP!AfterAdvance
    <3> QED BY <2>1, <3>1, OrderKeeps
  <2> QED BY <1>1, <2>2, <2>3
<1>2. CASE Q!DequeueAdvance
  <2>1. /\ at = "advance" /\ at' = "test" /\ UNCHANGED <<slots, rear, got, typed, n_read>>
        /\ front' = QP!Following(front)
    BY <1>2 DEF Q!DequeueAdvance, Q!Advance, Q!Following, QP!Following, bq_dequeue
  <2>2. front \in QP!Slot /\ rear \in QP!Slot /\ rear # front /\ got = slots[front]
    BY <2>1 DEF QP!BqIInv, QP!BqTypeOK, QP!EventTellsNotEmpty, QP!ReaderHolds, QP!IsEmpty,
                QP!Front
  <2>3. /\ Waiting \in 1 .. QueueMaxItems - 1 /\ Waiting' = Waiting - 1
        /\ Taken = 0 /\ Taken' = 1
    <3>1. Waiting' = Waiting - 1
      BY <2>1, <2>2, QueueAssumptions, QP!MoveFacts DEF Waiting, QP!Count
    <3>2. Waiting \in 0 .. QueueMaxItems - 1 /\ Waiting # 0
      BY <2>2, QueueAssumptions, QP!CountFacts DEF Waiting
    <3>3. Taken = 0 /\ Taken' = 1
      BY <2>1 DEF Taken, QP!AfterAdvance
    <3> QED BY <3>1, <3>2, <3>3, InputAssumption
  <2>4. got = typed[n_read + 1]
    <3>1. QP!SlotOf(front, 1) = front
      BY <2>2, QueueAssumptions, QP!SlotOfFacts, InputAssumption DEF QP!Slot
    <3>2. typed[n_read + 0 + 1] = slots[QP!SlotOf(front, 1)]
      BY <2>3 DEF InOrder
    <3>3. n_read + 0 + 1 = n_read + 1
      BY DEF InOrder
    <3> QED BY <2>2, <3>1, <3>2, <3>3
  <2>5. ASSUME NEW k \in 1 .. Waiting'
        PROVE  typed[n_read + 1 + k] = slots[QP!SlotOf(front', k)]
    <3>1. k + 1 \in 1 .. Waiting /\ k \in 1 .. QueueMaxItems - 1 /\ n_read \in Nat
      BY <2>3, InputAssumption DEF InOrder
    <3>2. QP!SlotOf(front', k) = QP!SlotOf(front, k + 1)
      BY <2>1, <2>2, <3>1, QueueAssumptions, QP!ShiftFacts
    <3>3. typed[n_read + 0 + (k + 1)] = slots[QP!SlotOf(front, k + 1)]
      BY <2>3, <3>1 DEF InOrder
    <3>4. n_read + 0 + (k + 1) = n_read + 1 + k
      BY <3>1
    <3> QED BY <3>2, <3>3, <3>4
  <2>6. Len(typed') = n_read' + Taken' + Waiting'
    BY <2>1, <2>3 DEF InOrder
  <2> QED BY <2>1, <2>3, <2>4, <2>5, <2>6 DEF InOrder, QP!SlotOf
<1> QED
  BY <1>1, <1>2 DEF bq_dequeue, Q!dequeue

(* What has been read has been typed, and what is on its way as well.      *)
LEMMA ReadIsTyped ==
  ASSUME QP!BqIInv, InOrder
  PROVE  /\ Len(typed) \in Nat /\ n_read \in 0 .. Len(typed)
         /\ at \in QP!AfterAdvance => n_read + 1 \in 1 .. Len(typed)
         /\ Waiting \in Nat /\ Taken \in {0, 1}
<1>1. Waiting \in Nat
  BY QueueAssumptions, QP!CountFacts, InputAssumption DEF Waiting, QP!BqIInv, QP!BqTypeOK
<1>2. Taken \in {0, 1} /\ (at \in QP!AfterAdvance => Taken = 1)
  BY DEF Taken
<1>3. Len(typed) \in Nat
  BY LenProperties DEF InOrder
<1> QED
  BY <1>1, <1>2, <1>3 DEF InOrder

(* The line is not changed by what is typed now.                           *)
LEMMA LineKeeps ==
  ASSUME QP!BqIInv, MadeOfTyped, InOrder, UNCHANGED <<phase, line, last, i, n_read>>,
         typed' \in Seq(Chars), Len(typed) <= Len(typed'),
         \A k \in 1 .. Len(typed) : typed'[k] = typed[k]
  PROVE  MadeOfTyped'
<1>1. PICK m \in Nat, p \in Nat : m = Len(typed) /\ p = Len(typed') /\ m <= p
  <2>1. Len(typed) \in Nat /\ Len(typed') \in Nat
    BY LenProperties DEF InOrder
  <2> QED BY <2>1
<1>2. PICK r, e : r = typed /\ e = Edited(r)
  OBVIOUS
<1>3. PICK s, f : s = typed' /\ f = Edited(s)
  OBVIOUS
<1>4. LinesUpTo(e, r, m) /\ LinesUpTo(f, s, p)
  BY <1>1, <1>2, <1>3, EditedIs
<1>5. Edited(typed)' = f /\ Edited(typed) = e
  BY <1>2, <1>3 DEF Edited
<1>6. SameUpTo(r, s, m)
  BY <1>1, <1>2, <1>3 DEF SameUpTo
<1>7. \A n \in 0 .. m : e[n] = f[n]
  BY <1>1, <1>4, <1>6, SameLines
<1>8. n_read \in 0 .. m /\ (n_read > 0 => n_read - 1 \in 0 .. m /\ n_read \in 1 .. m)
  BY <1>1, ReadIsTyped
<1> QED
  BY <1>1, <1>5, <1>7, <1>8 DEF MadeOfTyped

(* bq_dequeue changes neither the line nor what has been typed.            *)
LEMMA DequeueKeeps ==
  ASSUME InputIInv, bq_dequeue
  PROVE  InOrder' /\ InLoop' /\ MadeOfTyped'
<1>1. UNCHANGED <<typed, n_read, phase, line, last, i>> /\ phase = "read" /\ MoreFits
  BY DEF bq_dequeue, vars
<1>2. InOrder'
  BY DequeueInOrder DEF InputIInv
<1>3. InLoop'
  BY <1>1 DEF InLoop, MoreFits, Unsigned
<1>4. MadeOfTyped'
  BY <1>1, LineKeeps, LenProperties DEF InputIInv, InOrder
<1> QED
  BY <1>2, <1>3, <1>4

(* The keyboard types one character more, unless the buffer is full.       *)
LEMMA KeyboardKeeps ==
  ASSUME InputIInv, NEW c \in Chars, keyboard_interrupt(c)
  PROVE  InOrder' /\ InLoop' /\ MadeOfTyped'
<1>1. /\ QP!bq_enqueue(c) /\ UNCHANGED <<n_read, phase, line, last, i, got>>
      /\ Len(typed) < MaxTyped /\ typed' = IF QP!IsFull THEN typed ELSE Append(typed, c)
  BY SameQueue DEF keyboard_interrupt, vars, QP!bq_enqueue
<1>2. /\ QP!BqIInv /\ InOrder /\ typed \in Seq(Chars)
      /\ front \in QP!Slot /\ rear \in QP!Slot /\ slots \in [QP!Slot -> Chars]
  BY DEF InputIInv, InOrder, QP!BqIInv, QP!BqTypeOK
<1>3. front' = front /\ (at' \in QP!AfterAdvance <=> at \in QP!AfterAdvance)
  BY <1>1 DEF QP!bq_enqueue, QP!Enqueue, QP!AfterInterrupt, QP!AfterAdvance
<1>4. at' # "wait" => at # "wait"
  BY <1>1 DEF QP!bq_enqueue, QP!AfterInterrupt
<1>5. InLoop'
  BY <1>1, <1>4 DEF InputIInv, InLoop, MoreFits, Unsigned
<1>6. CASE QP!IsFull
  <2>1. UNCHANGED <<slots, rear, typed>>
    BY <1>1, <1>6 DEF QP!bq_enqueue, QP!Enqueue
  <2>2. InOrder'
    BY <1>1, <1>2, <1>3, <2>1, OrderKeeps
  <2>3. MadeOfTyped'
    BY <1>1, <1>2, <2>1, LineKeeps, LenProperties DEF InputIInv
  <2> QED BY <1>5, <2>2, <2>3
<1>7. CASE ~ QP!IsFull
  <2>1. /\ typed' = Append(typed, c) /\ rear' = QP!Following(rear)
        /\ slots' = [slots EXCEPT ![rear] = c] /\ QP!Following(rear) # front
    BY <1>1, <1>7 DEF QP!bq_enqueue, QP!Enqueue, QP!IsFull
  <2>2. PICK m \in Nat : m = Len(typed)
    BY <1>2, LenProperties
  <2>3. /\ typed' \in Seq(Chars) /\ Len(typed') = m + 1
        /\ \A k \in 1 .. m : typed'[k] = typed[k]
        /\ typed'[m + 1] = c
    BY <1>2, <2>1, <2>2, AppendProperties
  <2>4. MadeOfTyped'
    <3>1. Len(typed) <= Len(typed')
      BY <2>2, <2>3
    <3> QED BY <1>1, <1>2, <2>2, <2>3, <3>1, LineKeeps DEF InputIInv
  <2>5. PICK w \in Nat, t \in {0, 1} : w = Waiting /\ t = Taken /\ m = n_read + t + w
    BY <1>2, <2>2, ReadIsTyped DEF InOrder
  <2>6. Waiting' = w + 1 /\ Taken' = t
    <3>1. QP!Count(front, QP!Following(rear)) = QP!Count(front, rear) + 1
      BY <1>2, <2>1, QueueAssumptions, QP!MoveFacts
    <3> QED BY <1>3, <2>1, <2>5, <3>1 DEF Waiting, Taken, QP!Count
  <2>7. ASSUME NEW k \in 1 .. w + 1
        PROVE  typed'[n_read + t + k] = slots'[QP!SlotOf(front, k)]
    <3>1. CASE k \in 1 .. w
      <4>1. n_read + t + k \in 1 .. m
        BY <2>5, <3>1 DEF InOrder, InputIInv
      <4>2. typed[n_read + t + k] = slots[QP!SlotOf(front, k)]
        BY <1>2, <2>5, <3>1 DEF InOrder
      <4>3. QP!SlotOf(front, k) # rear
        BY <1>2, <2>5, <3>1, QueueAssumptions, QP!RearFacts DEF Waiting
      <4> QED BY <1>2, <2>1, <2>3, <4>1, <4>2, <4>3
    <3>2. CASE k = w + 1
      <4>1. n_read + t + k = m + 1
        BY <2>5, <3>2 DEF InOrder, InputIInv
      <4>2. QP!SlotOf(front, k) = rear
        BY <1>2, <2>5, <3>2, QueueAssumptions, QP!RearFacts DEF Waiting
      <4> QED BY <1>2, <2>1, <2>3, <4>1, <4>2
    <3> QED BY <2>5, <3>1, <3>2
  <2>8. at \in QP!AfterAdvance => typed'[n_read + 1] = typed[n_read + 1]
    BY <1>2, <2>2, <2>3, ReadIsTyped
  <2>9. InOrder'
    <3>1. Len(typed') <= MaxTyped /\ Len(typed') = n_read' + Taken' + Waiting'
      BY <1>1, <1>2, <2>2, <2>3, <2>5, <2>6, InputAssumption DEF InOrder
    <3> QED BY <1>1, <1>2, <1>3, <2>3, <2>6, <2>7, <2>8, <3>1
            DEF InOrder, QP!SlotOf, QP!AfterAdvance
  <2> QED BY <1>5, <2>4, <2>9
<1> QED
  BY <1>6, <1>7

(* The next character makes of the line what Edited says.                  *)
LEMMA ReadCharKeeps ==
  ASSUME InputIInv, shell_read_char
  PROVE  InOrder' /\ InLoop' /\ MadeOfTyped'
<1>1. /\ got \in Chars /\ ReadChar(got) /\ at = "return" /\ at' = "wait"
      /\ UNCHANGED <<slots, front, rear, typed>> /\ n_read' = n_read + 1
      /\ QP!BqIInv /\ InOrder
  BY ReturnsCharacter DEF InputIInv, shell_read_char, Q!Return, Q!queue
<1>2. PICK m \in Nat : m = Len(typed)
  BY <1>1, ReadIsTyped
<1>3. at \in QP!AfterAdvance /\ at' \notin QP!AfterAdvance /\ Taken = 1 /\ Taken' = 0
  BY <1>1 DEF Taken, QP!AfterAdvance
<1>4. /\ n_read \in 0 .. m /\ n_read + 1 \in 1 .. m /\ n_read \in Nat
      /\ got = typed[n_read + 1]
  BY <1>1, <1>2, <1>3, ReadIsTyped DEF InOrder
<1>5. Waiting' = Waiting /\ Waiting \in Nat
  BY <1>1, ReadIsTyped DEF Waiting, QP!Count
<1>6. InOrder'
  <2>1. Len(typed') = n_read' + Taken' + Waiting'
    BY <1>1, <1>3, <1>4, <1>5 DEF InOrder
  <2>2. ASSUME NEW k \in 1 .. Waiting'
        PROVE  typed'[n_read' + Taken' + k] = slots'[QP!SlotOf(front', k)]
    <3>1. n_read' + Taken' + k = n_read + Taken + k
      BY <1>1, <1>3, <1>4, <1>5
    <3> QED BY <1>1, <1>5, <3>1 DEF InOrder
  <2> QED BY <1>1, <1>3, <1>4, <2>1, <2>2 DEF InOrder, QP!SlotOf
<1>7. InLoop'
  BY <1>1 DEF InLoop
<1>8. PICK s, e : s = typed /\ e = Edited(s)
  OBVIOUS
<1>9. Edited(typed)' = e /\ Edited(typed) = e
  BY <1>1, <1>8 DEF Edited
<1>10. e[n_read + 1] = Edit(e[n_read], got)
  <2>1. LinesUpTo(e, s, m)
    BY <1>2, <1>8, EditedIs
  <2>2. (n_read + 1) - 1 = n_read
    BY <1>4
  <2> QED BY <1>4, <1>8, <2>1, <2>2 DEF LinesUpTo
<1>11. phase = "read" /\ line = e[n_read]
  BY <1>1, <1>9 DEF ReadChar, InputIInv, MadeOfTyped
<1>12. MadeOfTyped'
  <2>1. CASE got = Newline
    <3>1. last' = Newline /\ line' = line /\ phase' = "dispatch"
      BY <1>1, <2>1 DEF ReadChar, Terminate, Newline, Backspace
    <3>2. n_read' > 0 /\ typed'[n_read'] = Newline /\ n_read' - 1 = n_read
      BY <1>1, <1>4, <2>1
    <3> QED BY <1>9, <1>11, <3>1, <3>2 DEF MadeOfTyped
  <2>2. CASE got # Newline
    <3>1. last' = got /\ phase' = "read"
      BY <1>1, <1>11, <2>2 DEF ReadChar
    <3>2. line' = Edit(line, got)
      BY <1>1, <2>2 DEF ReadChar, Edit
    <3>3. line' = e[n_read']
      BY <1>1, <1>10, <1>11, <3>2
    <3> QED BY <1>9, <2>2, <3>1, <3>3 DEF MadeOfTyped
  <2> QED BY <2>1, <2>2
<1> QED
  BY <1>6, <1>7, <1>12

(* The loop does not end for want of room with nothing read.               *)
LEMMA LineEndsKeeps ==
  ASSUME InputIInv, shell_read_line_ends
  PROVE  InOrder' /\ InLoop' /\ MadeOfTyped'
<1>1. /\ phase = "read" /\ ~ MoreFits /\ phase' = "dispatch" /\ UNCHANGED <<i, last, line>>
      /\ UNCHANGED <<slots, front, rear, got, at, typed, n_read>>
  BY DEF shell_read_line_ends, LoopEnds, Terminate, keybuf
<1>2. InOrder'
  BY <1>1, OrderKeeps DEF InputIInv
<1>3. at = "wait"
  BY <1>1 DEF InputIInv, InLoop
<1>4. InLoop'
  BY <1>1, <1>3 DEF InLoop
<1>5. last # Newline
  <2> SUFFICES ASSUME last = Newline PROVE FALSE
    OBVIOUS
  <2>1. i = 0
    BY <1>1 DEF InputIInv, MadeOfTyped
  <2>2. i \in 0 .. Size - 2 /\ i \in -1 .. Size - 1
    BY <2>1, SizeAssumption
  <2> QED BY <1>1, <2>2, MoreFitsFacts
<1>6. MadeOfTyped'
  BY <1>1, <1>5 DEF MadeOfTyped
<1> QED
  BY <1>2, <1>4, <1>6

(* The next line begins with what has been typed ahead.                    *)
LEMMA NextLineKeeps ==
  ASSUME InputIInv, shell_next_line
  PROVE  InOrder' /\ InLoop' /\ MadeOfTyped'
<1>1. /\ phase = "dispatch" /\ phase' = "read" /\ line' = <<>> /\ i' = 0
      /\ UNCHANGED <<slots, front, rear, got, at>>
      /\ typed' = SubSeq(typed, n_read + 1, Len(typed)) /\ n_read' = 0
      /\ QP!BqIInv /\ InOrder
  BY DEF InputIInv, shell_next_line, NextLine, Prompt, keybuf
<1>2. at = "wait"
  BY <1>1 DEF InputIInv, InLoop
<1>3. Taken = 0 /\ Taken' = 0 /\ at' \notin QP!AfterAdvance
  BY <1>1, <1>2 DEF Taken, QP!AfterAdvance
<1>4. PICK m \in Nat, w \in Nat, r \in Nat :
        m = Len(typed) /\ w = Waiting /\ w = Waiting' /\ r = n_read /\ m = r + w
  <2>1. Waiting' = Waiting
    BY <1>1 DEF Waiting, QP!Count
  <2> QED BY <1>1, <1>3, <2>1, ReadIsTyped DEF InOrder
<1>5. m = r + w
  BY <1>4
<1>6. /\ typed' \in Seq(Chars) /\ Len(typed') = w
      /\ \A k \in 1 .. w : typed'[k] = typed[r + k]
  <2>1. \A k \in r + 1 .. m : typed[k] \in Chars
    <3>1. typed \in Seq(Chars) /\ \A k \in r + 1 .. m : k \in 1 .. m
      BY <1>1 DEF InOrder
    <3> QED BY <1>4, <3>1, ElementOfSeq
  <2>2. /\ typed' \in Seq(Chars)
        /\ Len(typed') = IF r + 1 <= m THEN m - (r + 1) + 1 ELSE 0
        /\ \A k \in 1 .. m - (r + 1) + 1 : typed'[k] = typed[(r + 1) + k - 1]
    <3>1. r + 1 \in Int /\ m \in Int /\ typed' = SubSeq(typed, r + 1, m)
      BY <1>1, <1>4
    <3> QED BY <2>1, <3>1, SubSeqProperties
  <2>3. m - (r + 1) + 1 = w /\ (r + 1 <= m \/ w = 0)
    BY <1>5
  <2>4. \A k \in 1 .. w : (r + 1) + k - 1 = r + k
    OBVIOUS
  <2> QED BY <2>2, <2>3, <2>4
<1>7. InOrder'
  <2>1. Len(typed') = n_read' + Taken' + Waiting' /\ Len(typed') <= MaxTyped /\ n_read' \in Nat
    <3>1. m <= MaxTyped
      BY <1>1, <1>4 DEF InOrder
    <3>2. w <= m
      BY <1>5
    <3>3. w <= MaxTyped
      BY <3>1, <3>2, InputAssumption
    <3>4. w = n_read' + Taken' + Waiting'
      <4>1. n_read' = 0 /\ Taken' = 0 /\ Waiting' = w
        BY <1>1, <1>3, <1>4, Zenon
      <4>2. w = 0 + 0 + w
        OBVIOUS
      <4> QED BY <4>1, <4>2
    <3> QED BY <1>1, <1>6, <3>3, <3>4
  <2>2. ASSUME NEW k \in 1 .. Waiting'
        PROVE  typed'[n_read' + Taken' + k] = slots'[QP!SlotOf(front', k)]
    <3>1. k \in 1 .. w /\ n_read' + Taken' + k = k /\ n_read + Taken + k = r + k
      BY <1>1, <1>3, <1>4
    <3>2. typed[n_read + Taken + k] = slots[QP!SlotOf(front, k)]
      BY <1>1, <1>4, <3>1 DEF InOrder
    <3> QED BY <1>1, <1>6, <3>1, <3>2
  <2> QED BY <1>3, <1>6, <2>1, <2>2 DEF InOrder, QP!SlotOf
<1>8. InLoop'
  BY <1>1, <1>2 DEF InLoop
<1>9. MadeOfTyped'
  <2>1. PICK s : s = typed'
    OBVIOUS
  <2>2. LinesUpTo(Edited(s), s, Len(s))
    BY <1>6, <2>1, EditedIs
  <2>3. Edited(typed)' = Edited(s)
    BY <2>1 DEF Edited
  <2>4. Edited(s)[0] = <<>>
    BY <2>2 DEF LinesUpTo
  <2> QED BY <1>1, <2>3, <2>4 DEF MadeOfTyped
<1> QED
  BY <1>7, <1>8, <1>9

(* The other writers, the end of the shell, and no step at all.            *)
LEMMA OthersKeep ==
  ASSUME InputIInv, timer_interrupt \/ user_task \/ shell_ends \/ UNCHANGED inputVars
  PROVE  InOrder' /\ InLoop' /\ MadeOfTyped'
<1>1. /\ UNCHANGED <<slots, front, rear, got, typed, n_read, i, line, last>>
      /\ at' = at \/ at' = QP!AfterInterrupt
  <2>1. CASE timer_interrupt
    BY <2>1, SameQueue DEF timer_interrupt, tick
  <2>2. CASE user_task
    BY <2>2 DEF user_task, thread, keybuf
  <2>3. CASE shell_ends
    BY <2>3 DEF shell_ends, EndShell, keybuf
  <2>4. CASE UNCHANGED inputVars
    BY <2>4 DEF inputVars, vars, keybuf
  <2> QED BY <2>1, <2>2, <2>3, <2>4
<1>2. at' \in QP!AfterAdvance <=> at \in QP!AfterAdvance
  BY <1>1 DEF QP!AfterAdvance, QP!AfterInterrupt
<1>3. InOrder'
  BY <1>1, <1>2, OrderKeeps DEF InputIInv
<1>4. at' # "wait" => at # "wait"
  BY <1>1 DEF QP!AfterInterrupt
<1>5. CASE shell_ends
  <2>1. phase = "dispatch" /\ phase' = "ended"
    BY <1>5 DEF shell_ends, EndShell
  <2> QED BY <1>3, <1>4, <2>1 DEF InputIInv, InLoop, MadeOfTyped
<1>6. CASE timer_interrupt \/ user_task \/ UNCHANGED inputVars
  <2>1. phase' = phase
    BY <1>6 DEF timer_interrupt, user_task, tick, thread, inputVars, vars
  <2>2. InLoop'
    BY <1>1, <1>4, <2>1 DEF InputIInv, InLoop, MoreFits, Unsigned
  <2>3. MadeOfTyped'
    BY <1>1, <2>1, LineKeeps, LenProperties DEF InputIInv, InOrder
  <2> QED BY <1>3, <2>2, <2>3
<1> QED
  BY <1>5, <1>6

(* Every step keeps the invariant: the terminal's and the buffer's parts   *)
(* by their own proofs.                                                    *)
LEMMA InputNextIInv == InputIInv /\ [InputNext]_inputVars => InputIInv'
<1> SUFFICES ASSUME InputIInv, [InputNext]_inputVars PROVE InputIInv'
  OBVIOUS
<1>1. IInv'
  BY StepOfTerminal, NextIInv DEF InputIInv
<1>2. QP!BqIInv'
  BY StepOfQueue, QueueAssumptions, QP!BqNextIInv DEF InputIInv
<1>3. InOrder' /\ InLoop' /\ MadeOfTyped'
  BY DequeueKeeps, KeyboardKeeps, ReadCharKeeps, LineEndsKeeps, NextLineKeeps, OthersKeep
     DEF InputNext, shell
<1> QED
  BY <1>1, <1>2, <1>3 DEF InputIInv

(* So it always holds.                                                     *)
LEMMA InputInvariance == InputSpec => []InputIInv
  BY InputInitIInv, InputNextIInv, PTL DEF InputSpec

-----------------------------------------------------------------------------
(* What it shows of the way from the keyboard to the command               *)

(* The shell reads its lines as module Terminal says, whatever is in the   *)
(* buffer, so that module's theorems hold of it.                           *)
THEOREM InputUsesTerminal == InputSpec => Spec
<1>1. InputInit => Init
  BY DEF InputInit
<1>2. InputIInv /\ [InputNext]_inputVars => [Next]_vars
  BY StepOfTerminal DEF InputIInv
<1> QED
  BY <1>1, <1>2, InputInvariance, PTL DEF InputSpec, Spec

(* It uses the buffer as module BlockingQueue says, although it does other *)
(* things between two calls of bq_dequeue.                                 *)
THEOREM InputUsesQueue == InputSpec => QP!BqSpec
<1>1. InputInit => QP!BqInit
  BY SameQueue DEF InputInit
<1> QED
  BY <1>1, StepOfQueue, PTL DEF InputSpec, QP!BqSpec

(* The variables keep their types, and the shell never reads more than has *)
(* been typed.                                                             *)
THEOREM InputTypeCorrect == InputSpec => []InputTypeOK
<1>1. InputIInv => InputTypeOK
  <2> SUFFICES ASSUME InputIInv PROVE InputTypeOK
    OBVIOUS
  <2>1. Q!BqTypeOK
    BY DEF InputIInv, QP!BqIInv, QP!BqTypeOK, Q!BqTypeOK, QP!Slot, Q!Slot, QP!NoTask, Q!NoTask,
           QP!Pc, Q!Pc
  <2> QED BY <2>1, ReadIsTyped DEF InputIInv, InputTypeOK, IInv, InOrder
<1> QED
  BY <1>1, InputInvariance, PTL

(* From the keyboard to dispatch_cmd no character of the buffer is lost,   *)
(* repeated or moved to another line.                                      *)
THEOREM CommandFromKeyboard == InputSpec => []CommandIsTyped
<1>1. InputIInv => CommandIsTyped
  BY DEF InputIInv, IInv, CommandIsLine, MadeOfTyped, CommandIsTyped
<1> QED
  BY <1>1, InputInvariance, PTL
=============================================================================
