------------------------------ MODULE MCKernel ------------------------------
(***************************************************************************)
(* The kernel as kmain starts it, with its five tasks or fewer and a       *)
(* buffer of three characters, which the keyboard fills and wraps around.  *)
(* One of the two characters is the 0 that dequeue returns for an empty    *)
(* queue, the other ends the shell.                                        *)
(***************************************************************************)
EXTENDS Kernel
=============================================================================
