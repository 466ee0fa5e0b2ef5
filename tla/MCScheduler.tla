---------------------------- MODULE MCScheduler -----------------------------
(***************************************************************************)
(* Scheduler with as many tasks as there are kernel stacks.                *)
(***************************************************************************)
EXTENDS Scheduler
=============================================================================
