---------------------------- MODULE MCShellInput ----------------------------
(***************************************************************************)
(* ShellInput with lines of two characters, a buffer that holds two more,  *)
(* and up to four typed before a line is done: a line's newline may come   *)
(* while the line before is still executed, and find the buffer full.  On  *)
(* a screen of six rows the user task and the timer write over the lines.  *)
(***************************************************************************)
EXTENDS ShellInput

QuitCommand == <<"q">>
=============================================================================
