----------------------------- MODULE RoundRobin -----------------------------
(***************************************************************************)
(* What the kernel's README promises of its scheduler: preemptive          *)
(* multitasking with round-robin scheduling.  The processor belongs to one *)
(* task at a time; the turn passes from each task to the next one created  *)
(* that still takes part, from the last one back to the first.  A task may *)
(* leave when it has the turn, and never gets it again.  Every task that   *)
(* takes part passes the turn on.                                          *)
(***************************************************************************)
EXTENDS Integers

CONSTANT NTasks

VARIABLES turn, gone

Task == 0 .. NTasks - 1

(* How many places u comes after t, a whole round if it is t itself.       *)
Distance(t, u) == IF u > t THEN u - t ELSE u - t + NTasks

(* kmain starts task 0, the idle task.                                     *)
Init == turn = 0 /\ gone = {}

Pass ==
  /\ turn' \in Task \ gone
  /\ \A t \in Task \ gone : Distance(turn, turn') <= Distance(turn, t)
  /\ UNCHANGED gone

Leave ==
  /\ gone' = gone \cup {turn}
  /\ UNCHANGED turn

Safety == Init /\ [][Pass \/ Leave]_<<turn, gone>>

Spec == Safety /\ WF_<<turn, gone>>(turn \notin gone /\ Pass)
=============================================================================
