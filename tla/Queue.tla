-------------------------------- MODULE Queue -------------------------------
(***************************************************************************)
(* The ring buffer of src/src/lib/queue.c as actions on its three fields.  *)
(* One slot is always left unused: rear = front means empty, and a buffer  *)
(* of QueueMaxItems slots holds QueueMaxItems - 1 characters.              *)
(*                                                                         *)
(* enqueue runs in an interrupt handler and is one action.  dequeue runs   *)
(* in a task, which can be interrupted between its statements, so its      *)
(* statements are kept apart: IsEmpty, Front, Advance.                     *)
(***************************************************************************)
EXTENDS Integers, Sequences

CONSTANT QueueMaxItems   \* QUEUE_MAX_ITEMS, 128 in queue.h

ASSUME QueueMaxItemsAssumption == QueueMaxItems \in Nat \ {0, 1}

VARIABLES buf, front, rear

Slot == 0 .. QueueMaxItems - 1

(* The macro next of queue.c.                                              *)
Following(pos) == (pos + 1) % QueueMaxItems

IsEmpty == rear = front

(* Variant: enqueue does not look.                                         *)
IsFullNever == FALSE

IsFull == Following(rear) = front

(* A static queue: every byte of it is 0.                                  *)
CreateQueue(zero) ==
  /\ buf = [i \in Slot |-> zero]
  /\ front = 0
  /\ rear = 0

(* A full queue drops the character, and its writer is not told.           *)
Enqueue(c) ==
  /\ buf' = IF IsFull THEN buf ELSE [buf EXCEPT ![rear] = c]
  /\ rear' = IF IsFull THEN rear ELSE Following(rear)
  /\ UNCHANGED front

Front == buf[front]

Advance ==
  /\ front' = Following(front)
  /\ UNCHANGED <<buf, rear>>

(* The characters held, oldest first.                                      *)
Contents ==
  [i \in 1 .. (rear - front) % QueueMaxItems |->
     buf[(front + i - 1) % QueueMaxItems]]
=============================================================================
