----------------------------- MODULE MCKeyboard -----------------------------
(***************************************************************************)
(* Keyboard with six keys, extended ones among them, and up to four bytes  *)
(* unread.                                                                 *)
(***************************************************************************)
EXTENDS Keyboard
=============================================================================
