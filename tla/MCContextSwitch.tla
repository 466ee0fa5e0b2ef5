--------------------------- MODULE MCContextSwitch --------------------------
(***************************************************************************)
(* ContextSwitch with two kernel tasks and a user task, and every          *)
(* exception that isr.asm has a stub for.                                  *)
(***************************************************************************)
EXTENDS ContextSwitch

AllExceptions == 0 .. 14 \cup 16 .. 20
=============================================================================
