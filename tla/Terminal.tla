------------------------------- MODULE Terminal -----------------------------
(***************************************************************************)
(* The shell's line input and main loop (src/src/shell/shell.c) on the     *)
(* console (src/src/device/console.c).  Every character read is echoed;    *)
(* the console keeps where the next one goes in current_offset, counted    *)
(* from the top left corner of the screen.                                 *)
(*                                                                         *)
(* The timer and the user tasks write on the same screen, at places of     *)
(* their own and at any moment.  Of the screen the model keeps the cells   *)
(* of the line that is being typed; of what commands print, only where it  *)
(* ends.                                                                   *)
(***************************************************************************)
EXTENDS Integers, Sequences, SequencesExt

CONSTANTS
  Letters,       \* the characters that are neither of the next three
  Zero,          \* the character 0, from a key that has none
  Size,          \* the size of the shell's buffer, 32
  Rows, Cols,    \* of the screen, 25 and 80
  UintModulus,   \* 2^32
  Quit,          \* the command "quit"
  OutputRows,    \* the rows that commands print: help 7, about 2, tasks one for
                 \* each task, an unknown command 1, a program none
  TaskAText,     \* the length of what task_a prints
  DotRows,       \* the rows that the user tasks fill, 3 to 11
  TimerCols      \* where the timer writes in the last row

Newline == "newline"
Backspace == "backspace"
Chars == Letters \cup {Zero, Newline, Backspace}

ASSUME CharsAssumption ==
  /\ Letters \cap {Zero, Newline, Backspace} = {}
  /\ Zero \notin {Newline, Backspace}
  /\ Quit \in Seq(Letters) \ {<<>>}

ASSUME SizeAssumption ==
  /\ Size \in Nat \ {0, 1}
  /\ Rows \in Nat \ 0 .. 3    \* the greeting's three and one for the first line
  /\ Cols \in Nat /\ Cols > Size + 2
  /\ UintModulus \in Nat /\ UintModulus > 2 * Size
  /\ OutputRows \subseteq Nat /\ TaskAText \in Nat
  /\ DotRows \subseteq 0 .. Rows - 1
  /\ TimerCols \subseteq 0 .. Cols - 1

Index == 0 .. Size - 1

VARIABLES
  current_offset,
  buf,      \* the shell's cmd
  i,        \* the local variable of shell_read_line
  phase,    \* "read" in shell_read_line, "dispatch" after it, "ended"
  start,    \* where the line being read begins on the screen
  shown,    \* what its cells show
  line,     \* the line as its typist means it
  last      \* the last character read

vars == <<current_offset, buf, i, phase, start, shown, line, last>>

-----------------------------------------------------------------------------
(* The console                                                             *)

OFFSET(row, col) == row * Cols + col
COL(offset) == offset % Cols
NextRow(offset) == offset + Cols - COL(offset)

(* A cell that shows the character 0 is blank.  Another writer's character *)
(* is none of those that are typed.                                        *)
Blank == Zero
Other == "other"

(* What put_char_at does at an offset: the cell it writes, what it writes, *)
(* and the offset it returns.                                              *)
Moves(offset) == [cell |-> -1, shows |-> Blank, next |-> offset]
Writes(cell, ch, offset) == [cell |-> cell, shows |-> ch, next |-> offset]

(* Variant: a backspace writes its blank and advances.                     *)
put_char_at_advancing(ch, offset) ==
  CASE ch = Newline -> Moves(NextRow(offset))
    [] ch = Backspace /\ COL(offset) = 0 -> Moves(offset)
    [] ch = Backspace /\ COL(offset) # 0 -> Writes(offset - 1, Blank, offset)
    [] OTHER -> Writes(offset, ch, offset + 1)

put_char_at(ch, offset) ==
  CASE ch = Newline -> Moves(NextRow(offset))
    [] ch = Backspace /\ COL(offset) = 0 -> Moves(offset)
    [] ch = Backspace /\ COL(offset) # 0 -> Writes(offset - 1, Blank, offset - 1)
    [] OTHER -> Writes(offset, ch, offset + 1)

Show(put) ==
  shown' = [k \in Index |-> IF start + k = put.cell THEN put.shows ELSE shown[k]]

print_char(ch) ==
  LET put == put_char_at(ch, current_offset)
  IN current_offset' = put.next /\ Show(put)

(* Variant: shares the shell's offset.                                     *)
put_char_moving(ch, row, col) ==
  LET put == put_char_at(ch, OFFSET(row, col))
  IN current_offset' = put.next /\ Show(put)

put_char(ch, row, col) ==
  Show(put_char_at(ch, OFFSET(row, col))) /\ UNCHANGED current_offset

-----------------------------------------------------------------------------
(* The other writers                                                       *)

(* A user task is interrupted between any two of its dots.                 *)
thread(row, col) ==
  /\ put_char(Other, row, col)
  /\ UNCHANGED <<buf, i, phase, start, line, last>>

(* The spinner in column 0 every 16th time, the ticks and the task always. *)
tick ==
  \E cols \in {TimerCols, TimerCols \ {0}} :
    /\ shown' = [k \in Index |->
                   IF start + k \in {OFFSET(Rows - 1, col) : col \in cols}
                   THEN Other ELSE shown[k]]
    /\ UNCHANGED <<current_offset, buf, i, phase, start, line, last>>

OtherCells ==
  {OFFSET(row, col) : row \in DotRows, col \in 0 .. Cols - 1}
  \cup {OFFSET(Rows - 1, col) : col \in TimerCols}

-----------------------------------------------------------------------------
(* The shell                                                               *)

(* print("> ") and the start of shell_read_line, with the cursor at offset. *)
(* Ahead of it nothing but other writers has written.  Below the last row  *)
(* nothing is visible, and the model stops.                                *)
Prompt(offset) ==
  /\ offset + Size + 2 <= Rows * Cols
  /\ current_offset' = offset + 2
  /\ start' = offset + 2
  /\ shown' \in [Index -> {Blank, Other}]
  /\ \A k \in Index : shown'[k] = Other => start' + k \in OtherCells
  /\ i' = 0
  /\ line' = <<>>
  /\ phase' = "read"

(* clear_screen, the two lines of print_about and a newline.               *)
Greeting == NextRow(NextRow(NextRow(0)))

(* The array is on the stack and holds what was there.                     *)
Init ==
  /\ buf \in {[n \in Index |-> c] : c \in Letters \cup {Zero}}
  /\ current_offset = Greeting + 2
  /\ start = Greeting + 2
  /\ shown = [k \in Index |-> Blank]
  /\ i = 0
  /\ line = <<>>
  /\ phase = "read"
  /\ last = Newline

(* i is an int and size - 1 a size_t: the comparison is of unsigned values. *)
Unsigned(n) == n % UintModulus

MoreFits == Unsigned(i) < Size - 1

(* buf[i] = 0; with i = -1 it is the byte below the array that is cleared. *)
Terminate ==
  /\ buf' = IF i \in Index THEN [buf EXCEPT ![i] = Zero] ELSE buf
  /\ phase' = "dispatch"

ReadChar(ch) ==
  /\ phase = "read"
  /\ MoreFits
  /\ print_char(ch)
  /\ last' = ch
  /\ \/ /\ ch = Newline
        /\ Terminate
        /\ UNCHANGED <<i, line>>
     \/ /\ ch = Backspace
        /\ i' = i - 1
        /\ line' = IF line = <<>> THEN line ELSE Front(line)
        /\ UNCHANGED <<buf, phase>>
     \/ /\ ch \notin {Newline, Backspace}
        /\ buf' = [buf EXCEPT ![i] = ch]
        /\ i' = i + 1
        /\ line' = Append(line, ch)
        /\ UNCHANGED phase
  /\ UNCHANGED start

LoopEnds ==
  /\ phase = "read"
  /\ ~MoreFits
  /\ Terminate
  /\ UNCHANGED <<current_offset, i, start, shown, line, last>>

(* A C string: what comes before the first 0.                              *)
UpToZero(s) ==
  LET n == SelectInSeq(s, LAMBDA c : c = Zero)
  IN IF n = 0 THEN s ELSE SubSeq(s, 1, n - 1)

Command == UpToZero([n \in 1 .. Size |-> buf[n - 1]])

(* Where the cursor may be after dispatch_cmd: some rows further down, or  *)
(* after what task_a prints.  The other program writes with put_str.       *)
dispatch_cmd(offset) ==
  {IF n = 0 THEN offset ELSE NextRow(offset) + (n - 1) * Cols : n \in OutputRows}
  \cup {offset + TaskAText}

EndShell ==
  /\ phase = "dispatch"
  /\ Command = Quit
  /\ phase' = "ended"
  /\ UNCHANGED <<current_offset, buf, i, start, shown, line, last>>

NextLine ==
  /\ phase = "dispatch"
  /\ Command # Quit
  /\ IF Command = <<>>
     THEN Prompt(current_offset)
     ELSE \E after \in dispatch_cmd(current_offset) : Prompt(NextRow(after))
  /\ UNCHANGED <<buf, last>>

Next ==
  \/ \E ch \in Chars : ReadChar(ch)
  \/ LoopEnds
  \/ EndShell
  \/ NextLine
  \/ \E row \in DotRows, col \in 0 .. Cols - 1 : thread(row, col)
  \/ tick

Spec == Init /\ [][Next]_vars

-----------------------------------------------------------------------------
(* Properties                                                              *)

TypeOK ==
  /\ current_offset \in 0 .. Rows * Cols
  /\ buf \in [Index -> Letters \cup {Zero}]
  /\ i \in -1 .. Size - 1
  /\ phase \in {"read", "dispatch", "ended"}
  /\ start \in 0 .. Rows * Cols
  /\ shown \in [Index -> Letters \cup {Blank, Other}]
  /\ line \in Seq(Letters \cup {Zero}) /\ Len(line) < Size
  /\ last \in Chars

(* The line is within its row and does not start it: at the start of a row *)
(* put_char_at does not go back.                                           *)
LineInRow == COL(start) > 0 /\ COL(start) + Size <= Cols

(* Each character echoed and each one rubbed out moves the cursor as it    *)
(* moves i, and nothing else does: not the output of the timer nor that of *)
(* other tasks between any two characters.                                 *)
CursorFollowsLine == phase = "read" /\ LineInRow => current_offset = start + i

(* What is seen is what is in the buffer: each cell of the line shows its  *)
(* character, a cell ahead of the cursor shows nothing, not even what has  *)
(* been there before it was rubbed out, and what else is seen is another   *)
(* writer's, where that writer writes.                                     *)
LineOnScreen ==
  phase = "read" /\ LineInRow =>
    \A k \in Index :
      \/ shown[k] = IF k < i THEN buf[k] ELSE Blank
      \/ shown[k] = Other /\ start + k \in OtherCells

(* The command that a newline ends is the line as typed and corrected, up  *)
(* to the first key without a character, and has nothing left in it of the *)
(* commands before.                                                        *)
CommandIsLine ==
  phase = "dispatch" /\ last = Newline => Command = UpToZero(line)

(* tutorial/20_reading_keyboard_input.md:141, "one for reading a single    *)
(* character, and another for reading an entire line": whatever ends the   *)
(* reading, the command is what was typed on this line.                    *)
CommandWasTyped == phase = "dispatch" => Command = UpToZero(line)
=============================================================================
