------------------------------- MODULE Command ------------------------------
(***************************************************************************)
(* What exec of src/src/kernel/loader.c promises the shell: a command runs *)
(* the program of its name or is refused, once, and then the shell reads   *)
(* the next one.                                                           *)
(***************************************************************************)

CONSTANTS
  Names,          \* what may be typed
  ProgramNames,   \* those of them that are programs
  Nothing         \* not a name

VARIABLES
  command,   \* the last name given to exec
  stage,     \* "none", "asked", "running" or "refused"
  program    \* what runs

vars == <<command, stage, program>>

Init ==
  /\ command \in Names
  /\ stage = "none"
  /\ program = Nothing

Ask(n) ==
  /\ stage = "none"
  /\ command' = n
  /\ stage' = "asked"
  /\ UNCHANGED program

Run ==
  /\ stage = "asked"
  /\ command \in ProgramNames
  /\ stage' = "running"
  /\ program' = command
  /\ UNCHANGED command

(* The disk may fail, so a program may be refused too.                     *)
Refuse ==
  /\ stage = "asked"
  /\ stage' = "refused"
  /\ UNCHANGED <<command, program>>

Return ==
  /\ stage \in {"running", "refused"}
  /\ stage' = "none"
  /\ program' = Nothing
  /\ UNCHANGED command

Next ==
  \/ \E n \in Names : Ask(n)
  \/ Run
  \/ Refuse
  \/ Return

Spec ==
  /\ Init
  /\ [][Next]_vars
  /\ WF_vars(Run \/ Refuse)
  /\ WF_vars(Return)
=============================================================================
