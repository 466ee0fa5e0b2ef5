----------------------------- MODULE MCTerminal -----------------------------
(***************************************************************************)
(* Terminal with lines of three characters on a screen of a few rows.  Two *)
(* letters, one of them the command that ends the shell.                   *)
(***************************************************************************)
EXTENDS Terminal

QuitCommand == <<"q">>
=============================================================================
