------------------------- MODULE BlockingQueueProofs ------------------------
(***************************************************************************)
(* Theorems about module BlockingQueue, for every size of the buffer, every*)
(* set of characters and every reader.                                     *)
(***************************************************************************)
EXTENDS BlockingQueue, SequenceTheorems, TLAPS

(* The event is set only while the buffer holds a character, except that   *)
(* the reader may have taken the last one and not reset the event yet; and *)
(* a reader past wait_event has seen it set.                               *)
EventTellsNotEmpty ==
  /\ evt.state = 1 => ~IsEmpty \/ pc \in {"test", "reset"}
  /\ pc \in {"dequeue", "advance"} => evt.state = 1

(* The reader has the oldest character in ch before it moves front, and    *)
(* keeps it until it returns.                                              *)
AfterAdvance == {"test", "reset", "unregister", "return"}

ReaderHolds ==
  /\ pc = "advance" => ch = Front
  /\ pc \in AfterAdvance => ch \in Chars

(* The inductive invariant.                                                *)
BqIInv ==
  /\ BqTypeOK
  /\ EventTellsNotEmpty
  /\ RegisteredWhileWaiting
  /\ ReaderHolds

USE QueueMaxItemsAssumption, CharsAssumption, ReaderAssumption
    DEF Slot, NoTask

(* The macro next stays inside the buffer and always moves.                *)
LEMMA FollowingFacts ==
  ASSUME NEW pos \in Slot
  PROVE  /\ Following(pos) = IF pos = QueueMaxItems - 1 THEN 0 ELSE pos + 1
         /\ Following(pos) \in Slot
         /\ Following(pos) # pos
<1>1. CASE pos = QueueMaxItems - 1
  BY <1>1 DEF Following
<1>2. CASE pos # QueueMaxItems - 1
  <2>1. pos + 1 \in 0 .. QueueMaxItems - 1
    BY <1>2
  <2>2. (pos + 1) % QueueMaxItems = pos + 1
    BY <2>1
  <2> QED
    BY <1>2, <2>1, <2>2 DEF Following
<1> QED
  BY <1>1, <1>2

(* After enqueue the buffer holds a character, whether or not there was    *)
(* room for this one.                                                      *)
LEMMA EnqueueFacts ==
  ASSUME BqTypeOK, NEW c \in Chars, Enqueue(c)
  PROVE  /\ buf' \in [Slot -> Chars]
         /\ front' \in Slot
         /\ rear' \in Slot
         /\ ~IsEmpty'
BY FollowingFacts DEF BqTypeOK, Enqueue, IsFull, IsEmpty

LEMMA BqInitIInv == BqInit => BqIInv
<1> SUFFICES ASSUME BqInit
             PROVE  BqIInv
  OBVIOUS
<1>1. BqTypeOK
  BY DEF BqInit, CreateQueue, BqTypeOK, Pc
<1>2. EventTellsNotEmpty /\ RegisteredWhileWaiting /\ ReaderHolds
  BY DEF BqInit, EventTellsNotEmpty, RegisteredWhileWaiting, ReaderHolds, AfterAdvance
<1> QED
  BY <1>1, <1>2 DEF BqIInv

LEMMA WaitEventIInv ==
  ASSUME BqIInv, wait_event \/ HaltEnds
  PROVE  BqIInv'
<1> USE DEF BqIInv, queue, IsEmpty
<1>1. BqTypeOK'
  BY DEF wait_event, WaitTest, WaitRegister, WaitBlock, WaitHalt, HaltEnds,
         AfterInterrupt, BqTypeOK, Pc
<1>2. EventTellsNotEmpty'
  BY DEF wait_event, WaitTest, WaitRegister, WaitBlock, WaitHalt, HaltEnds,
         AfterInterrupt, BqTypeOK, EventTellsNotEmpty
<1>3. RegisteredWhileWaiting'
  BY DEF wait_event, WaitTest, WaitRegister, WaitBlock, WaitHalt, HaltEnds,
         AfterInterrupt, BqTypeOK, RegisteredWhileWaiting
<1>4. ReaderHolds'
  BY DEF wait_event, WaitTest, WaitRegister, WaitBlock, WaitHalt, HaltEnds,
         AfterInterrupt, BqTypeOK, ReaderHolds, AfterAdvance
<1> QED
  BY <1>1, <1>2, <1>3, <1>4

LEMMA DequeueIInv ==
  ASSUME BqIInv, dequeue \/ TestEmpty \/ reset_event \/ Return
  PROVE  BqIInv'
<1> USE DEF BqIInv, queue, dequeue, reset_event, DequeueRead, DequeueAdvance,
            TestEmpty, ResetState, ResetTid, Return, Advance, IsEmpty, Front
<1>1. BqTypeOK'
  BY FollowingFacts DEF BqTypeOK, Pc
<1>2. EventTellsNotEmpty'
  BY DEF BqTypeOK, EventTellsNotEmpty
<1>3. RegisteredWhileWaiting'
  BY DEF RegisteredWhileWaiting
<1>4. ReaderHolds'
  BY DEF BqTypeOK, EventTellsNotEmpty, ReaderHolds, AfterAdvance
<1> QED
  BY <1>1, <1>2, <1>3, <1>4

LEMMA EnqueueIInv ==
  ASSUME BqIInv, NEW c \in Chars, bq_enqueue(c)
  PROVE  BqIInv'
<1> USE DEF BqIInv, bq_enqueue, set_event, AfterInterrupt
<1>1. BqTypeOK'
  BY EnqueueFacts DEF BqTypeOK, Pc
<1>2. EventTellsNotEmpty'
  BY EnqueueFacts DEF BqTypeOK, EventTellsNotEmpty
<1>3. RegisteredWhileWaiting'
  BY DEF BqTypeOK, RegisteredWhileWaiting
<1>4. ReaderHolds'
  <2>1. pc = "advance" => buf'[front'] = buf[front]
    BY DEF BqTypeOK, EventTellsNotEmpty, IsEmpty, Enqueue
  <2> QED
    BY <2>1 DEF BqTypeOK, ReaderHolds, AfterAdvance, Front
<1> QED
  BY <1>1, <1>2, <1>3, <1>4

LEMMA BqNextIInv == BqIInv /\ [BqNext]_bqVars => BqIInv'
<1> SUFFICES ASSUME BqIInv, [BqNext]_bqVars
             PROVE  BqIInv'
  OBVIOUS
<1>1. CASE wait_event \/ HaltEnds
  BY <1>1, WaitEventIInv
<1>2. CASE dequeue \/ TestEmpty \/ reset_event \/ Return
  BY <1>2, DequeueIInv
<1>3. CASE \E c \in Chars : bq_enqueue(c)
  BY <1>3, EnqueueIInv
<1>4. CASE UNCHANGED bqVars
  BY <1>4 DEF bqVars, BqIInv, BqTypeOK, EventTellsNotEmpty, IsEmpty,
              RegisteredWhileWaiting, ReaderHolds, Front
<1> QED
  BY <1>1, <1>2, <1>3, <1>4 DEF BqNext, bq_dequeue

LEMMA BqInvariance == BqSpec => []BqIInv
BY BqInitIInv, BqNextIInv, PTL DEF BqSpec

-----------------------------------------------------------------------------

(* The buffer, the event and the reader stay well typed.                   *)
THEOREM BqTypeCorrect == BqSpec => []BqTypeOK
<1>1. BqIInv => BqTypeOK
  BY DEF BqIInv
<1> QED
  BY <1>1, BqInvariance, PTL

(* bq_dequeue never takes a character out of an empty buffer.              *)
THEOREM DequeueNeverEmpty == BqSpec => []DequeueFindsCharacter
<1>1. BqIInv => DequeueFindsCharacter
  BY DEF BqIInv, EventTellsNotEmpty, DequeueFindsCharacter
<1> QED
  BY <1>1, BqInvariance, PTL

(* A task that blocks itself is the one that set_event will wake.          *)
THEOREM WaiterIsRegistered == BqSpec => []RegisteredWhileWaiting
<1>1. BqIInv => RegisteredWhileWaiting
  BY DEF BqIInv
<1> QED
  BY <1>1, BqInvariance, PTL

-----------------------------------------------------------------------------
(* The buffer as a sequence                                                *)

(* How many characters there are between front and rear, where each is,    *)
(* and the sequence of them.                                               *)
Count(f, r) == (r - f) % QueueMaxItems

SlotOf(f, i) == (f + i - 1) % QueueMaxItems

Held(b, f, r) == [i \in 1 .. Count(f, r) |-> b[SlotOf(f, i)]]

(* Contents, with front and rear as parameters.                            *)
LEMMA ContentsIsHeld == Contents = Held(buf, front, rear)
  BY DEF Contents, Held, Count, SlotOf

(* The remainder, in the three ranges in which the code uses it.           *)
LEMMA RemainderFacts ==
  ASSUME NEW a \in Int
  PROVE  /\ a \in 0 .. QueueMaxItems - 1 => a % QueueMaxItems = a
         /\ a \in QueueMaxItems .. 2 * QueueMaxItems - 1 =>
              a % QueueMaxItems = a - QueueMaxItems
         /\ a \in -QueueMaxItems .. -1 => a % QueueMaxItems = a + QueueMaxItems
<1>1. a \in 0 .. QueueMaxItems - 1 => a % QueueMaxItems = a
  OBVIOUS
<1>2. a \in QueueMaxItems .. 2 * QueueMaxItems - 1 =>
        a % QueueMaxItems = a - QueueMaxItems
  OBVIOUS
<1>3. a \in -QueueMaxItems .. -1 => a % QueueMaxItems = a + QueueMaxItems
  OBVIOUS
<1> QED
  BY <1>1, <1>2, <1>3

(* A full buffer still has a slot that is not used.                        *)
LEMMA CountFacts ==
  ASSUME NEW f \in Slot, NEW r \in Slot
  PROVE  /\ Count(f, r) = IF r >= f THEN r - f ELSE r - f + QueueMaxItems
         /\ Count(f, r) \in 0 .. QueueMaxItems - 1
         /\ Count(f, r) = 0 <=> r = f
<1>1. r >= f => r - f \in 0 .. QueueMaxItems - 1
  OBVIOUS
<1>2. r < f => r - f \in -QueueMaxItems .. -1
  OBVIOUS
<1>3. Count(f, r) = IF r >= f THEN r - f ELSE r - f + QueueMaxItems
  BY <1>1, <1>2, RemainderFacts DEF Count
<1> QED
  BY <1>3

(* Where the i-th character is.                                            *)
LEMMA SlotOfFacts ==
  ASSUME NEW f \in Slot, NEW i \in 1 .. QueueMaxItems
  PROVE  /\ SlotOf(f, i) = IF f + i - 1 < QueueMaxItems THEN f + i - 1
                           ELSE f + i - 1 - QueueMaxItems
         /\ SlotOf(f, i) \in Slot
<1>1. /\ f + i - 1 < QueueMaxItems => f + i - 1 \in 0 .. QueueMaxItems - 1
      /\ f + i - 1 >= QueueMaxItems =>
           f + i - 1 \in QueueMaxItems .. 2 * QueueMaxItems - 1
  OBVIOUS
<1>2. SlotOf(f, i) = IF f + i - 1 < QueueMaxItems THEN f + i - 1
                     ELSE f + i - 1 - QueueMaxItems
  BY <1>1, RemainderFacts DEF SlotOf
<1> QED
  BY <1>2

(* The characters held end at rear and none of them is in rear's slot.     *)
LEMMA RearFacts ==
  ASSUME NEW f \in Slot, NEW r \in Slot
  PROVE  /\ \A i \in 1 .. Count(f, r) : i \in 1 .. QueueMaxItems /\ SlotOf(f, i) # r
         /\ SlotOf(f, Count(f, r) + 1) = r
<1>1. /\ Count(f, r) = IF r >= f THEN r - f ELSE r - f + QueueMaxItems
      /\ Count(f, r) \in 0 .. QueueMaxItems - 1
  BY CountFacts
<1>2. ASSUME NEW i \in 1 .. Count(f, r)
      PROVE  i \in 1 .. QueueMaxItems /\ SlotOf(f, i) # r
  <2>1. i \in 1 .. QueueMaxItems
    BY <1>1
  <2>2. SlotOf(f, i) = IF f + i - 1 < QueueMaxItems THEN f + i - 1
                       ELSE f + i - 1 - QueueMaxItems
    BY <2>1, SlotOfFacts
  <2> QED
    BY <1>1, <2>1, <2>2
<1>3. SlotOf(f, Count(f, r) + 1) = r
  <2>1. Count(f, r) + 1 \in 1 .. QueueMaxItems
    BY <1>1
  <2>2. PICK i \in 1 .. QueueMaxItems : i = Count(f, r) + 1
    BY <2>1
  <2>3. SlotOf(f, i) = IF f + i - 1 < QueueMaxItems THEN f + i - 1
                       ELSE f + i - 1 - QueueMaxItems
    BY SlotOfFacts
  <2> QED
    BY <1>1, <2>2, <2>3
<1> QED
  BY <1>2, <1>3

(* Moving rear, or front, by one.                                          *)
LEMMA MoveFacts ==
  ASSUME NEW f \in Slot, NEW r \in Slot
  PROVE  /\ Following(r) # f =>
              /\ Count(f, Following(r)) = Count(f, r) + 1
              /\ Count(f, r) < QueueMaxItems - 1
         /\ r # f => Count(Following(f), r) = Count(f, r) - 1
<1>1. /\ Following(r) \in Slot /\ Following(f) \in Slot
      /\ Following(r) = IF r = QueueMaxItems - 1 THEN 0 ELSE r + 1
      /\ Following(f) = IF f = QueueMaxItems - 1 THEN 0 ELSE f + 1
  BY FollowingFacts
<1>2. Count(f, r) = IF r >= f THEN r - f ELSE r - f + QueueMaxItems
  BY CountFacts
<1>3. Count(f, Following(r)) = IF Following(r) >= f THEN Following(r) - f
                               ELSE Following(r) - f + QueueMaxItems
  BY <1>1, CountFacts
<1>4. Count(Following(f), r) = IF r >= Following(f) THEN r - Following(f)
                               ELSE r - Following(f) + QueueMaxItems
  BY <1>1, CountFacts
<1>5. ASSUME Following(r) # f
      PROVE  /\ Count(f, Following(r)) = Count(f, r) + 1
             /\ Count(f, r) < QueueMaxItems - 1
  BY <1>1, <1>2, <1>3, <1>5
<1>6. ASSUME r # f PROVE Count(Following(f), r) = Count(f, r) - 1
  BY <1>1, <1>2, <1>4, <1>6
<1> QED
  BY <1>5, <1>6

(* What was second is first after front has moved.                         *)
LEMMA ShiftFacts ==
  ASSUME NEW f \in Slot, NEW i \in 1 .. QueueMaxItems - 1
  PROVE  SlotOf(Following(f), i) = SlotOf(f, i + 1)
<1>1. /\ Following(f) \in Slot
      /\ Following(f) = IF f = QueueMaxItems - 1 THEN 0 ELSE f + 1
  BY FollowingFacts
<1>2. PICK j \in 1 .. QueueMaxItems : j = i + 1
  OBVIOUS
<1>3. SlotOf(f, j) = IF f + j - 1 < QueueMaxItems THEN f + j - 1
                     ELSE f + j - 1 - QueueMaxItems
  BY SlotOfFacts
<1>4. i \in 1 .. QueueMaxItems
  OBVIOUS
<1>5. SlotOf(Following(f), i) = IF Following(f) + i - 1 < QueueMaxItems
                                THEN Following(f) + i - 1
                                ELSE Following(f) + i - 1 - QueueMaxItems
  BY <1>1, <1>4, SlotOfFacts
<1> QED
  BY <1>1, <1>2, <1>3, <1>5

(* The sequence of the characters held.                                    *)
LEMMA HeldFacts ==
  ASSUME NEW b \in [Slot -> Chars], NEW f \in Slot, NEW r \in Slot
  PROVE  /\ Held(b, f, r) \in Seq(Chars)
         /\ Len(Held(b, f, r)) = Count(f, r)
         /\ \A i \in 1 .. Count(f, r) : Held(b, f, r)[i] = b[SlotOf(f, i)]
<1>1. Count(f, r) \in Nat
  BY CountFacts
<1>2. \A i \in 1 .. Count(f, r) : b[SlotOf(f, i)] \in Chars
  BY RearFacts, SlotOfFacts
<1> QED
  BY <1>1, <1>2 DEF Held

(* Writing at rear and moving it appends.                                  *)
LEMMA HeldAppend ==
  ASSUME NEW b \in [Slot -> Chars], NEW f \in Slot, NEW r \in Slot, NEW c \in Chars,
         Following(r) # f
  PROVE  Held([b EXCEPT ![r] = c], f, Following(r)) = Append(Held(b, f, r), c)
<1> DEFINE d == [b EXCEPT ![r] = c]
           h == Held(b, f, r)
           k == Held(d, f, Following(r))
           n == Count(f, r)
<1>1. d \in [Slot -> Chars] /\ Following(r) \in Slot
  BY FollowingFacts
<1>2. n \in Nat /\ Count(f, Following(r)) = n + 1
  BY CountFacts, MoveFacts
<1>3. /\ h \in Seq(Chars) /\ Len(h) = n
      /\ \A i \in 1 .. n : h[i] = b[SlotOf(f, i)]
  BY HeldFacts
<1>4. /\ k \in Seq(Chars) /\ Len(k) = n + 1
      /\ \A i \in 1 .. n + 1 : k[i] = d[SlotOf(f, i)]
  <2> HIDE DEF d, Slot
  <2>1. PICK q \in Slot : q = Following(r)
    BY <1>1
  <2>2. /\ Held(d, f, q) \in Seq(Chars) /\ Len(Held(d, f, q)) = Count(f, q)
        /\ \A i \in 1 .. Count(f, q) : Held(d, f, q)[i] = d[SlotOf(f, i)]
    BY <1>1, HeldFacts, ZenonT(60)
  <2>3. Count(f, q) = n + 1
    BY <1>2, <2>1
  <2> QED BY <2>1, <2>2, <2>3
<1>5. \A i \in 1 .. n : SlotOf(f, i) # r /\ SlotOf(f, i) \in Slot
  BY RearFacts, SlotOfFacts
<1>6. SlotOf(f, n + 1) = r
  BY RearFacts
<1>7. \A i \in 1 .. n : d[SlotOf(f, i)] = b[SlotOf(f, i)]
  BY <1>5
<1>8. d[r] = c
  OBVIOUS
<1> HIDE DEF d, h, k, n
<1>9. /\ Append(h, c) \in Seq(Chars) /\ Len(Append(h, c)) = n + 1
      /\ \A i \in 1 .. n + 1 : Append(h, c)[i] = IF i <= n THEN h[i] ELSE c
  BY <1>2, <1>3, AppendProperties
<1>10. \A i \in 1 .. n + 1 : k[i] = Append(h, c)[i]
  <2> TAKE i \in 1 .. n + 1
  <2>1. CASE i \in 1 .. n
    <3>1. k[i] = b[SlotOf(f, i)]
      BY <2>1, <1>4, <1>7
    <3>2. Append(h, c)[i] = h[i]
      BY <2>1, <1>2, <1>9
    <3> QED BY <2>1, <3>1, <3>2, <1>3
  <2>2. CASE i = n + 1
    <3>1. k[i] = c
      BY <2>2, <1>4, <1>6, <1>8
    <3> QED BY <2>2, <3>1, <1>2, <1>9
  <2>3. i \in 1 .. n \/ i = n + 1
    BY <1>2
  <2> QED BY <2>1, <2>2, <2>3
<1>11. k = Append(h, c)
  BY <1>2, <1>4, <1>9, <1>10, SeqEqual
<1> QED
  BY <1>11 DEF d, h, k

(* Moving front takes the head.                                            *)
LEMMA HeldTail ==
  ASSUME NEW b \in [Slot -> Chars], NEW f \in Slot, NEW r \in Slot, r # f
  PROVE  /\ Held(b, f, r) # <<>>
         /\ Head(Held(b, f, r)) = b[f]
         /\ Held(b, Following(f), r) = Tail(Held(b, f, r))
<1> DEFINE h == Held(b, f, r)
           k == Held(b, Following(f), r)
           n == Count(f, r)
<1>1. Following(f) \in Slot
  BY FollowingFacts
<1>2. n \in 1 .. QueueMaxItems - 1 /\ Count(Following(f), r) = n - 1
  <2>1. n \in 0 .. QueueMaxItems - 1 /\ n # 0
    BY CountFacts
  <2>2. Count(Following(f), r) = n - 1
    BY MoveFacts
  <2> QED BY <2>1, <2>2
<1>3. /\ h \in Seq(Chars) /\ Len(h) = n
      /\ \A i \in 1 .. n : h[i] = b[SlotOf(f, i)]
  BY HeldFacts
<1>4. /\ k \in Seq(Chars) /\ Len(k) = n - 1
      /\ \A i \in 1 .. n - 1 : k[i] = b[SlotOf(Following(f), i)]
  <2> HIDE DEF Slot
  <2>1. PICK q \in Slot : q = Following(f)
    BY <1>1
  <2>2. /\ Held(b, q, r) \in Seq(Chars) /\ Len(Held(b, q, r)) = Count(q, r)
        /\ \A i \in 1 .. Count(q, r) : Held(b, q, r)[i] = b[SlotOf(q, i)]
    BY HeldFacts
  <2>3. Count(q, r) = n - 1
    BY <1>2, <2>1
  <2> QED BY <2>1, <2>2, <2>3
<1>5. \A i \in 1 .. n - 1 : SlotOf(Following(f), i) = SlotOf(f, i + 1)
  BY <1>2, ShiftFacts
<1>6. SlotOf(f, 1) = f
  <2>1. 1 \in 1 .. QueueMaxItems
    OBVIOUS
  <2> QED BY <2>1, SlotOfFacts
<1> HIDE DEF h, k, n
<1>7. h # <<>>
  BY <1>2, <1>3
<1>8. Head(h) = b[f]
  BY <1>2, <1>3, <1>6, <1>7
<1>9. /\ Tail(h) \in Seq(Chars) /\ Len(Tail(h)) = n - 1
      /\ \A i \in 1 .. n - 1 : Tail(h)[i] = h[i + 1]
  BY <1>3, <1>7, HeadTailProperties
<1>10. \A i \in 1 .. n - 1 : k[i] = Tail(h)[i]
  <2> TAKE i \in 1 .. n - 1
  <2>1. i + 1 \in 1 .. n
    BY <1>2
  <2> QED BY <2>1, <1>3, <1>4, <1>5, <1>9
<1>11. k = Tail(h)
  BY <1>2, <1>4, <1>9, <1>10, SeqEqual
<1> QED
  BY <1>7, <1>8, <1>11 DEF h, k

-----------------------------------------------------------------------------
(* The steps of BoundedFifo                                                *)

(* What the reader's current call has taken.                               *)
Taken == IF pc \in AfterAdvance THEN ch ELSE None

(* bq_enqueue puts the character, or drops it when the buffer is full.     *)
LEMMA EnqueuePuts ==
  ASSUME BqIInv, NEW c \in Chars, bq_enqueue(c)
  PROVE  \/ Fifo!Put(c)
         \/ UNCHANGED <<Contents, Taken>>
<1>1. BqTypeOK
  BY DEF BqIInv
<1>2. Taken' = Taken
  BY <1>1 DEF bq_enqueue, AfterInterrupt, Taken, AfterAdvance, BqTypeOK, Pc
<1>3. CASE IsFull
  <2>1. UNCHANGED <<buf, front, rear>>
    BY <1>3 DEF bq_enqueue, Enqueue
  <2>2. Contents' = Contents
    BY <2>1 DEF Contents
  <2> QED BY <1>2, <2>2
<1>4. CASE ~IsFull
  <2>1. /\ buf' = [buf EXCEPT ![rear] = c] /\ rear' = Following(rear) /\ front' = front
        /\ Following(rear) # front
    BY <1>4 DEF bq_enqueue, Enqueue, IsFull
  <2>2. buf \in [Slot -> Chars] /\ front \in Slot /\ rear \in Slot
    BY <1>1 DEF BqTypeOK
  <2>3. Contents = Held(buf, front, rear) /\ Contents' = Held(buf', front', rear')
    BY ContentsIsHeld DEF Contents, Held, Count, SlotOf
  <2>4. Contents' = Append(Contents, c)
    BY <2>1, <2>2, <2>3, HeldAppend
  <2>5. Len(Contents) < QueueMaxItems - 1
    BY <2>1, <2>2, <2>3, HeldFacts, MoveFacts
  <2> QED BY <1>2, <2>4, <2>5 DEF Fifo!Put, Taken, AfterAdvance
<1> QED
  BY <1>3, <1>4

(* front moves past the character in ch, the oldest one.                   *)
LEMMA AdvanceTakes ==
  ASSUME BqIInv, DequeueAdvance
  PROVE  Fifo!Take
<1>1. /\ BqTypeOK /\ ch = Front /\ rear # front /\ pc = "advance"
  BY DEF BqIInv, ReaderHolds, EventTellsNotEmpty, DequeueAdvance, IsEmpty, BqTypeOK
<1>2. buf \in [Slot -> Chars] /\ front \in Slot /\ rear \in Slot
  BY <1>1 DEF BqTypeOK
<1>3. buf' = buf /\ rear' = rear /\ front' = Following(front) /\ pc' = "test" /\ ch' = ch
  BY DEF DequeueAdvance, Advance
<1>4. Contents = Held(buf, front, rear) /\ Contents' = Held(buf', front', rear')
  BY ContentsIsHeld DEF Contents, Held, Count, SlotOf
<1>5. Contents # <<>> /\ Head(Contents) = ch /\ Contents' = Tail(Contents)
  BY <1>1, <1>2, <1>3, <1>4, HeldTail DEF Front
<1>6. Taken = None /\ Taken' = ch
  BY <1>1, <1>3 DEF Taken, AfterAdvance
<1> QED
  BY <1>5, <1>6 DEF Fifo!Take, Taken, AfterAdvance

(* No other statement moves a character, and the call ends with the one    *)
(* that it took.                                                           *)
LEMMA ReaderStepIsFifo ==
  ASSUME BqIInv, bq_dequeue \/ HaltEnds, ~DequeueAdvance
  PROVE  Fifo!Return \/ UNCHANGED <<Contents, Taken>>
<1>1. UNCHANGED <<buf, front, rear>>
  BY DEF bq_dequeue, wait_event, WaitTest, WaitRegister, WaitBlock, WaitHalt, HaltEnds,
         dequeue, DequeueRead, TestEmpty, reset_event, ResetState, ResetTid, Return, queue
<1>2. Contents' = Contents
  BY <1>1 DEF Contents
<1>3. CASE Return
  <2>1. Taken # None /\ Taken' = None
    BY <1>3 DEF Return, Taken, AfterAdvance, BqIInv, ReaderHolds
  <2> QED BY <1>2, <2>1 DEF Fifo!Return, Taken, AfterAdvance
<1>4. CASE ~Return
  <2>1. ~IsEmpty \/ pc # "dequeue"
    BY DEF BqIInv, EventTellsNotEmpty, BqTypeOK
  <2>2. Taken' = Taken
    BY <1>4, <2>1
       DEF bq_dequeue, wait_event, WaitTest, WaitRegister, WaitBlock, WaitHalt, HaltEnds,
           AfterInterrupt, dequeue, DequeueRead, TestEmpty, reset_event, ResetState,
           ResetTid, Taken, AfterAdvance
  <2> QED BY <1>2, <2>2
<1> QED
  BY <1>3, <1>4

(* The keyboard buffer is a first-in first-out buffer of one character     *)
(* less than its size: whatever is typed between any two statements of the *)
(* reader, what was accepted comes out once and in order.                  *)
THEOREM ImplementsFifo == BqSpec => FifoSpec
<1>1. BqInit => Fifo!Init
  <2> SUFFICES ASSUME BqInit PROVE Fifo!Init
    OBVIOUS
  <2>1. BqTypeOK
    BY BqInitIInv DEF BqIInv
  <2>2. Count(front, rear) = 0 /\ Contents = Held(buf, front, rear)
    BY <2>1, CountFacts, ContentsIsHeld DEF BqInit, CreateQueue, BqTypeOK
  <2>3. Contents = <<>>
    BY <2>1, <2>2, HeldFacts DEF BqTypeOK
  <2>4. pc \notin {"test", "reset", "unregister", "return"}
    BY DEF BqInit
  <2> QED BY <2>3, <2>4 DEF Fifo!Init
<1>2. BqIInv /\ [BqNext]_bqVars =>
        [Fifo!Next]_<<Contents, IF pc \in {"test", "reset", "unregister", "return"}
                                THEN ch ELSE None>>
  <2> SUFFICES ASSUME BqIInv, [BqNext]_bqVars
               PROVE  Fifo!Next \/ UNCHANGED <<Contents, Taken>>
    BY DEF Taken, AfterAdvance
  <2>1. CASE UNCHANGED bqVars
    BY <2>1 DEF bqVars, Contents, Taken
  <2>2. CASE DequeueAdvance
    BY <2>2, AdvanceTakes DEF Fifo!Next
  <2>3. CASE (bq_dequeue \/ HaltEnds) /\ ~DequeueAdvance
    BY <2>3, ReaderStepIsFifo DEF Fifo!Next
  <2>4. CASE \E c \in Chars : bq_enqueue(c)
    BY <2>4, EnqueuePuts DEF Fifo!Next
  <2> QED
    BY <2>1, <2>2, <2>3, <2>4 DEF BqNext
<1> QED
  BY <1>1, <1>2, BqInvariance, PTL DEF BqSpec, FifoSpec, Fifo!Spec
=============================================================================
