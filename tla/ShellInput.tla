------------------------------ MODULE ShellInput ----------------------------
(***************************************************************************)
(* The way of a character from the keyboard interrupt to dispatch_cmd: the *)
(* interrupt puts it into the buffer of module BlockingQueue, the shell of *)
(* module Terminal takes it out, and what is typed while a command runs or *)
(* a line is still being read waits there for the next one.                *)
(*                                                                         *)
(* The shell executes the statements of bq_dequeue only inside the loop of *)
(* shell_read_line; an interrupt comes between any two of its statements.  *)
(***************************************************************************)
EXTENDS Terminal

CONSTANTS
  QueueMaxItems, None, Reader,   \* see BlockingQueue
  MaxTyped                       \* how much is typed before a line is done

ASSUME InputAssumption ==
  /\ QueueMaxItems \in Nat \ {0, 1}
  /\ None \notin Chars
  /\ Reader \in Nat
  /\ MaxTyped \in Nat

VARIABLES
  slots, front, rear, evt,   \* task_t.keybuf
  got, at,                   \* bq_dequeue's variable and next statement
  typed,     \* the characters put into the buffer from this line's first on
  n_read     \* how many of them the shell has read

Q == INSTANCE BlockingQueue WITH buf <- slots, ch <- got, pc <- at

keybuf == <<slots, front, rear, evt, got, at>>
inputVars == <<vars, keybuf, typed, n_read>>

InputInit == Init /\ Q!BqInit /\ typed = <<>> /\ n_read = 0

-----------------------------------------------------------------------------
(* The shell                                                               *)

(* The statements of bq_dequeue but its return.                            *)
bq_dequeue ==
  /\ phase = "read"
  /\ MoreFits
  /\ Q!wait_event \/ Q!dequeue \/ Q!TestEmpty \/ Q!reset_event
  /\ UNCHANGED <<vars, typed, n_read>>

shell_read_char ==
  /\ Q!Return
  /\ ReadChar(got)
  /\ n_read' = n_read + 1
  /\ UNCHANGED typed

shell_read_line_ends == LoopEnds /\ UNCHANGED <<keybuf, typed, n_read>>

(* What has been typed ahead belongs to the next line.                     *)
shell_next_line ==
  /\ NextLine
  /\ typed' = SubSeq(typed, n_read + 1, Len(typed))
  /\ n_read' = 0
  /\ UNCHANGED keybuf

shell_ends == EndShell /\ UNCHANGED <<keybuf, typed, n_read>>

shell ==
  \/ bq_dequeue
  \/ shell_read_char
  \/ shell_read_line_ends
  \/ shell_next_line
  \/ shell_ends

-----------------------------------------------------------------------------
(* Interrupts and the other tasks                                          *)

keyboard_interrupt(c) ==
  /\ Len(typed) < MaxTyped
  /\ Q!bq_enqueue(c)
  /\ typed' = IF Q!IsFull THEN typed ELSE Append(typed, c)
  /\ UNCHANGED <<vars, n_read>>

timer_interrupt ==
  /\ tick
  /\ at' = Q!AfterInterrupt
  /\ UNCHANGED <<slots, front, rear, evt, got, typed, n_read>>

user_task ==
  /\ \E row \in DotRows, col \in 0 .. Cols - 1 : thread(row, col)
  /\ UNCHANGED <<keybuf, typed, n_read>>

InputNext ==
  \/ shell
  \/ \E c \in Chars : keyboard_interrupt(c)
  \/ timer_interrupt
  \/ user_task

InputSpec == InputInit /\ [][InputNext]_inputVars

-----------------------------------------------------------------------------
(* Properties                                                              *)

(* The parts that shell and buffer are made of stay well typed together,   *)
(* and the shell never reads more characters than have been typed.         *)
InputTypeOK ==
  /\ TypeOK
  /\ Q!BqTypeOK
  /\ typed \in Seq(Chars) /\ Len(typed) <= MaxTyped
  /\ n_read \in 0 .. Len(typed)

(* The lines that the characters of s make, one after the other.           *)
Edited(s) ==
  LET Line[n \in 0 .. Len(s)] ==
        IF n = 0 THEN <<>>
        ELSE IF s[n] # Backspace THEN Append(Line[n - 1], s[n])
        ELSE IF Line[n - 1] = <<>> THEN <<>>
        ELSE Front(Line[n - 1])
  IN Line

(* The command that a newline ends is what was typed for this line, by the *)
(* order of the interrupts and not by when the shell came to read it: the  *)
(* characters that found the buffer full are missing, and nothing else.    *)
(* What was typed ahead of it and what has been typed since is in another  *)
(* line's command.                                                         *)
CommandIsTyped ==
  phase = "dispatch" /\ last = Newline =>
    /\ typed[n_read] = Newline
    /\ Command = UpToZero(Edited(typed)[n_read - 1])
=============================================================================
