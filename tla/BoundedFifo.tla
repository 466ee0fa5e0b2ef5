----------------------------- MODULE BoundedFifo ----------------------------
(***************************************************************************)
(* What a keyboard buffer promises its reader: the characters that it      *)
(* accepts come out once each, in the order in which they were typed; it   *)
(* holds Capacity of them.  out is the character that the reader's current *)
(* call has taken, None when it has taken none.                            *)
(***************************************************************************)
EXTENDS Integers, Sequences

CONSTANTS Chars, Capacity, None

VARIABLES items, out

Init == items = <<>> /\ out = None

Put(c) ==
  /\ Len(items) < Capacity
  /\ items' = Append(items, c)
  /\ UNCHANGED out

Take ==
  /\ items # <<>>
  /\ out = None
  /\ out' = Head(items)
  /\ items' = Tail(items)

Return ==
  /\ out # None
  /\ out' = None
  /\ UNCHANGED items

Next == Take \/ Return \/ \E c \in Chars : Put(c)

Spec == Init /\ [][Next]_<<items, out>>
=============================================================================
