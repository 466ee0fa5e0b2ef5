----------------------------- MODULE OwnProcessors --------------------------
(***************************************************************************)
(* What multitasking promises: the tasks run as if each had a processor of *)
(* its own.  A task's context changes by the task's own steps and by       *)
(* nothing else; interrupts, exceptions and the other tasks cannot be      *)
(* seen.                                                                   *)
(***************************************************************************)

CONSTANTS
  Task,
  Start(_),     \* the context a task starts in
  Step(_, _, _) \* whether a task gets from one context to another in a step

VARIABLE context

Init == context = [t \in Task |-> Start(t)]

Own(t, now, next) ==
  /\ Step(t, now[t], next[t])
  /\ next = [now EXCEPT ![t] = next[t]]

Next ==
  LET now == context
      next == context'
  IN \E t \in Task : Own(t, now, next)

Spec == Init /\ [][Next]_context
=============================================================================
