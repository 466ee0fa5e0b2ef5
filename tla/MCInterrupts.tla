---------------------------- MODULE MCInterrupts ----------------------------
(***************************************************************************)
(* Interrupts with the timer, the keyboard, a device without a handler on  *)
(* each controller: the floppy drive's line 6 and the disk's line 14.      *)
(***************************************************************************)
EXTENDS Interrupts
=============================================================================
