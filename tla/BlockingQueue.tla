---------------------------- MODULE BlockingQueue ---------------------------
(***************************************************************************)
(* The keyboard buffer of a task: src/src/lib/blocking_queue.c over        *)
(* queue.c and the event of src/src/kernel/event.c.                        *)
(*                                                                         *)
(* One task reads, in bq_dequeue; the keyboard interrupt writes, in        *)
(* bq_enqueue.  The writer runs to completion with interrupts disabled.    *)
(* The reader can be interrupted between any two of its statements; pc     *)
(* says which one is next.  Calls of set_task_state are not part of this   *)
(* module's state: module Kernel joins them to the actions here.           *)
(***************************************************************************)
EXTENDS Queue

CONSTANTS
  Chars,    \* the characters the keyboard handler can pass on
  Zero,     \* the character 0: a key without a character, an empty dequeue
  None,     \* no character
  Reader    \* the id of the reading task

NoTask == -1   \* evt->tid when no task waits

ASSUME CharsAssumption == Zero \in Chars /\ None \notin Chars
ASSUME ReaderAssumption == Reader \in Nat

VARIABLES
  evt,   \* not_empty_evt: its state, 0 or 1, and the waiting task's id
  ch,    \* the local variable of bq_dequeue
  pc     \* the reader's next statement

queue == <<buf, front, rear>>
bqVars == <<buf, front, rear, evt, ch, pc>>

Pc == {"wait", "register", "block", "hlt", "halted", "dequeue", "advance",
       "test", "reset", "unregister", "return"}

(* The reader is in the body of wait_event's loop.                         *)
Waiting == pc \in {"register", "block", "hlt", "halted"}

BqInit ==
  /\ CreateQueue(Zero)
  /\ evt = [state |-> 0, tid |-> NoTask]
  /\ ch = None
  /\ pc = "wait"

-----------------------------------------------------------------------------
(* wait_event                                                              *)

WaitTest ==
  /\ pc = "wait"
  /\ pc' = IF evt.state = 0 THEN "register" ELSE "dequeue"
  /\ UNCHANGED <<queue, evt, ch>>

WaitRegister ==
  /\ pc = "register"
  /\ evt' = [evt EXCEPT !.tid = Reader]
  /\ pc' = "block"
  /\ UNCHANGED <<queue, ch>>

(* set_task_state(evt->tid, BLOCKED) reads the task id back.               *)
WaitBlock ==
  /\ pc = "block"
  /\ pc' = "hlt"
  /\ UNCHANGED <<queue, evt, ch>>

WaitHalt ==
  /\ pc = "hlt"
  /\ pc' = "halted"
  /\ UNCHANGED <<queue, evt, ch>>

(* Any interrupt ends a hlt; the loop tests the event again.               *)
AfterInterrupt == IF pc = "halted" THEN "wait" ELSE pc

HaltEnds ==
  /\ pc = "halted"
  /\ pc' = AfterInterrupt
  /\ UNCHANGED <<queue, evt, ch>>

-----------------------------------------------------------------------------
(* The rest of bq_dequeue                                                  *)

DequeueRead ==
  /\ pc = "dequeue"
  /\ ch' = IF IsEmpty THEN Zero ELSE Front
  /\ pc' = IF IsEmpty THEN "test" ELSE "advance"
  /\ UNCHANGED <<queue, evt>>

DequeueAdvance ==
  /\ pc = "advance"
  /\ Advance
  /\ pc' = "test"
  /\ UNCHANGED <<evt, ch>>

(* Variant: the event is never reset.                                      *)
TestEmptyNeverResets ==
  /\ pc = "test"
  /\ pc' = "return"
  /\ UNCHANGED <<queue, evt, ch>>

TestEmpty ==
  /\ pc = "test"
  /\ pc' = IF IsEmpty THEN "reset" ELSE "return"
  /\ UNCHANGED <<queue, evt, ch>>

ResetState ==
  /\ pc = "reset"
  /\ evt' = [evt EXCEPT !.state = 0]
  /\ pc' = "unregister"
  /\ UNCHANGED <<queue, ch>>

(* Variant: 0, the id of the idle task, taken for "no task".               *)
ResetTidToZero ==
  /\ pc = "unregister"
  /\ evt' = [evt EXCEPT !.tid = 0]
  /\ pc' = "return"
  /\ UNCHANGED <<queue, ch>>

ResetTid ==
  /\ pc = "unregister"
  /\ evt' = [evt EXCEPT !.tid = NoTask]
  /\ pc' = "return"
  /\ UNCHANGED <<queue, ch>>

(* The shell uses the character and calls bq_dequeue again.                *)
Return ==
  /\ pc = "return"
  /\ ch' = None
  /\ pc' = "wait"
  /\ UNCHANGED <<queue, evt>>

-----------------------------------------------------------------------------
(* bq_enqueue, in the keyboard interrupt.  set_event does not clear tid.   *)

(* Variant: set_event forgets the waiter once it has woken it.             *)
set_event_forgets_tid == evt' = [state |-> 1, tid |-> NoTask]

set_event == evt' = [evt EXCEPT !.state = 1]

bq_enqueue(c) ==
  /\ Enqueue(c)
  /\ set_event
  /\ pc' = AfterInterrupt
  /\ UNCHANGED ch

-----------------------------------------------------------------------------

wait_event == WaitTest \/ WaitRegister \/ WaitBlock \/ WaitHalt

dequeue == DequeueRead \/ DequeueAdvance

reset_event == ResetState \/ ResetTid

bq_dequeue == wait_event \/ dequeue \/ TestEmpty \/ reset_event \/ Return

BqNext == bq_dequeue \/ HaltEnds \/ \E c \in Chars : bq_enqueue(c)

BqSpec == BqInit /\ [][BqNext]_bqVars

-----------------------------------------------------------------------------
(* Properties                                                              *)

BqTypeOK ==
  /\ buf \in [Slot -> Chars]
  /\ front \in Slot
  /\ rear \in Slot
  /\ evt \in [state : {0, 1}, tid : {NoTask, Reader}]
  /\ ch \in Chars \cup {None}
  /\ pc \in Pc

(* The reader is past wait_event only when there is a character for it, so *)
(* bq_dequeue never passes off the 0 that dequeue returns for an empty     *)
(* queue as a character typed.  It rests on the event being set only while *)
(* the queue holds something, across a test and a reset_event that the     *)
(* keyboard can interrupt halfway.                                         *)
DequeueFindsCharacter == pc \in {"dequeue", "advance"} => ~IsEmpty

(* The task a waiter blocks, and a set_event wakes, is the waiter itself:  *)
(* evt->tid holds its id from the moment it registered, whatever the       *)
(* keyboard did between its statements.                                    *)
RegisteredWhileWaiting ==
  pc \in {"block", "hlt", "halted"} => evt.tid = Reader

(* bq_enqueue and bq_dequeue, however the keyboard interrupts the reader,  *)
(* overwrite nothing that is still to be read, duplicate nothing and keep  *)
(* the order.  A character leaves the buffer when front advances.          *)
Fifo ==
  INSTANCE BoundedFifo
    WITH Capacity <- QueueMaxItems - 1,
         items <- Contents,
         out <- IF pc \in {"test", "reset", "unregister", "return"}
                THEN ch ELSE None

FifoSpec == Fifo!Spec
=============================================================================
