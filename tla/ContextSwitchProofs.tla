-------------------------- MODULE ContextSwitchProofs ------------------------
(***************************************************************************)
(* Every task finds its registers and its stack as it left them, for any   *)
(* number of kernel and user tasks, any depth of their calls, and whatever *)
(* interrupts them in whatever order.                                      *)
(*                                                                         *)
(* The invariant says where a task's context is: in the processor while it *)
(* runs, and otherwise in a frame on its own kernel stack, on top of its   *)
(* own words and of nothing else, with the registers at the places that    *)
(* isr_return takes them from.  It needs the stack pointer in the TSS to   *)
(* be that of the task that runs, or an interrupt in a user task would     *)
(* save the frame on another's stack; and a task to be in its own ring, or *)
(* the frame would be two words higher or lower than isr_return takes it   *)
(* to be.                                                                  *)
(***************************************************************************)
EXTENDS ContextSwitch, SequenceTheorems, TLAPS

-----------------------------------------------------------------------------
(* Stacks as sequences                                                     *)

(* A sequence, of whatever it is.                                          *)
Sequence(s) == Len(s) \in Nat /\ s = [k \in 1 .. Len(s) |-> s[k]]

(* The library's theorems want a set of elements.                          *)
LEMMA SequenceOf ==
  ASSUME NEW s, Sequence(s), NEW W, \A k \in 1 .. Len(s) : s[k] \in W
  PROVE  s \in Seq(W)
<1> DEFINE e(k) == s[k]
<1>1. Len(s) \in Nat /\ s = [k \in 1 .. Len(s) |-> e(k)]
  BY DEF Sequence
<1>2. \A k \in 1 .. Len(s) : e(k) \in W
  OBVIOUS
<1> HIDE DEF e
<1>3. [k \in 1 .. Len(s) |-> e(k)] \in Seq(W)
  BY <1>1, <1>2, IsASeq
<1> QED
  BY <1>1, <1>3

(* A sequence of elements of a set is one.                                 *)
LEMMA IsSequence ==
  ASSUME NEW W, NEW s \in Seq(W)
  PROVE  Sequence(s)
BY LenProperties DEF Sequence

(* A stack cut off at a height,                                            *)
LEMMA CutOff ==
  ASSUME NEW s, Sequence(s), NEW n \in 0 .. Len(s)
  PROVE  /\ Sequence(SubSeq(s, 1, n))
         /\ Len(SubSeq(s, 1, n)) = n
         /\ \A k \in 1 .. n : SubSeq(s, 1, n)[k] = s[k]
<1> DEFINE W == {s[k] : k \in 1 .. Len(s)}
<1>1. Len(s) \in Nat /\ n \in Nat /\ \A k \in 1 .. n : s[k] \in W
  BY DEF Sequence
<1> HIDE DEF W
<1>2. /\ SubSeq(s, 1, n) \in Seq(W)
      /\ Len(SubSeq(s, 1, n)) = IF 1 <= n THEN n - 1 + 1 ELSE 0
      /\ \A k \in 1 .. n - 1 + 1 : SubSeq(s, 1, n)[k] = s[1 + k - 1]
  BY <1>1, SubSeqProperties
<1>3. Len(SubSeq(s, 1, n)) = n
  BY <1>1, <1>2
<1>4. ASSUME NEW k \in 1 .. n PROVE SubSeq(s, 1, n)[k] = s[k]
  <2>1. 1 + k - 1 = k /\ n - 1 + 1 = n
    BY <1>1
  <2> QED BY <1>2, <2>1
<1> QED
  BY <1>2, <1>3, <1>4, IsSequence

(* which is all the same if the stacks differ only above it,               *)
LEMMA SameBelow ==
  ASSUME NEW s, NEW x, Sequence(s), Sequence(x), NEW n, n \in 0 .. Len(s),
         n \in 0 .. Len(x), \A k \in 1 .. n : x[k] = s[k]
  PROVE  SubSeq(x, 1, n) = SubSeq(s, 1, n)
<1>1. PICK c : c = SubSeq(s, 1, n)
  OBVIOUS
<1>2. PICK d : d = SubSeq(x, 1, n)
  OBVIOUS
<1>3. Sequence(c) /\ Len(c) = n /\ \A k \in 1 .. n : c[k] = s[k]
  BY <1>1, CutOff
<1>4. Sequence(d) /\ Len(d) = n /\ \A k \in 1 .. n : d[k] = x[k]
  BY <1>2, CutOff
<1>5. c = [k \in 1 .. n |-> c[k]] /\ d = [k \in 1 .. n |-> d[k]]
  BY <1>3, <1>4 DEF Sequence
<1>6. \A k \in 1 .. n : c[k] = d[k]
  BY <1>3, <1>4
<1> QED
  BY <1>1, <1>2, <1>5, <1>6

(* and with words on top.                                                  *)
LEMMA OnTop ==
  ASSUME NEW s, NEW p, Sequence(s), Sequence(p)
  PROVE  /\ Sequence(s \o p)
         /\ Len(s \o p) = Len(s) + Len(p)
         /\ \A k \in 1 .. Len(s) : (s \o p)[k] = s[k]
         /\ \A k \in 1 .. Len(p) : (s \o p)[Len(s) + k] = p[k]
<1> DEFINE W == {s[k] : k \in 1 .. Len(s)} \cup {p[k] : k \in 1 .. Len(p)}
<1>1. s \in Seq(W) /\ p \in Seq(W)
  BY SequenceOf
<1>2. Len(s) \in Nat /\ Len(p) \in Nat
  BY DEF Sequence
<1> HIDE DEF W
<1>3. /\ s \o p \in Seq(W)
      /\ Len(s \o p) = Len(s) + Len(p)
      /\ \A i \in 1 .. Len(s) + Len(p) :
           (s \o p)[i] = IF i <= Len(s) THEN s[i] ELSE p[i - Len(s)]
  BY <1>1, ConcatProperties
<1>4. ASSUME NEW k \in 1 .. Len(s) PROVE (s \o p)[k] = s[k]
  BY <1>2, <1>3
<1>5. ASSUME NEW k \in 1 .. Len(p) PROVE (s \o p)[Len(s) + k] = p[k]
  <2>1. /\ Len(s) + k \in 1 .. Len(s) + Len(p) /\ ~ (Len(s) + k <= Len(s))
        /\ Len(s) + k - Len(s) = k
    BY <1>2
  <2> QED BY <1>3, <2>1
<1> QED
  BY <1>3, <1>4, <1>5, IsSequence

(* One of the words replaced.                                              *)
Replace(u, i, e) == [u EXCEPT ![i] = e]

(* It leaves the others, and how many there are.                           *)
LEMMA Replaced ==
  ASSUME NEW u, Sequence(u), NEW i \in 1 .. Len(u), NEW e
  PROVE  /\ Sequence(Replace(u, i, e))
         /\ Len(Replace(u, i, e)) = Len(u)
         /\ \A j \in 1 .. Len(u) : j # i => Replace(u, i, e)[j] = u[j]
<1> DEFINE W == {u[k] : k \in 1 .. Len(u)} \cup {e}
<1>1. u \in Seq(W) /\ e \in W
  BY SequenceOf
<1> HIDE DEF W
<1>2. /\ [u EXCEPT ![i] = e] \in Seq(W)
      /\ Len([u EXCEPT ![i] = e]) = Len(u)
      /\ \A j \in 1 .. Len(u) : [u EXCEPT ![i] = e][j] = IF j = i THEN e ELSE u[j]
  BY <1>1, ExceptSeq
<1> QED
  BY <1>2, IsSequence DEF Replace

(* A sequence that is another with one word more.                          *)
LEMMA OneMore ==
  ASSUME NEW s, NEW x, Sequence(s), Sequence(x), Len(x) = Len(s) + 1,
         \A k \in 1 .. Len(s) : x[k] = s[k], NEW word, word = x[Len(x)]
  PROVE  x = Append(s, word)
<1> DEFINE W == {s[k] : k \in 1 .. Len(s)} \cup {word}
<1>1. s \in Seq(W) /\ word \in W
  BY SequenceOf
<1> HIDE DEF W
<1>2. PICK y : y = Append(s, word)
  OBVIOUS
<1>3. /\ y \in Seq(W) /\ Len(y) = Len(s) + 1
      /\ \A i \in 1 .. Len(s) : y[i] = s[i]
      /\ y[Len(s) + 1] = word
  BY <1>1, <1>2, AppendProperties
<1>4. Len(s) \in Nat /\ x = [k \in 1 .. Len(s) + 1 |-> x[k]]
  BY DEF Sequence
<1>5. y = [k \in 1 .. Len(s) + 1 |-> y[k]]
  BY <1>3, IsSequence DEF Sequence
<1>6. ASSUME NEW k \in 1 .. Len(s) + 1 PROVE x[k] = y[k]
  <2>1. k \in 1 .. Len(s) \/ k = Len(s) + 1
    BY <1>4
  <2> QED BY <1>3, <2>1
<1> QED
  BY <1>2, <1>4, <1>5, <1>6

(* A word pushed on what is left below a pointer.                          *)
LEMMA Pushed ==
  ASSUME NEW s, Sequence(s), NEW n \in 0 .. Len(s), NEW word
  PROVE  LET x == SubSeq(s, 1, n) \o <<word>>
         IN /\ Sequence(x) /\ Len(x) = n + 1 /\ x[n + 1] = word
            /\ \A k \in 1 .. n : x[k] = s[k]
<1>1. PICK c : c = SubSeq(s, 1, n)
  OBVIOUS
<1>2. PICK w : w = <<word>>
  OBVIOUS
<1>3. Sequence(c) /\ Len(c) = n /\ \A k \in 1 .. n : c[k] = s[k]
  BY <1>1, CutOff
<1>4. Sequence(w) /\ Len(w) = 1 /\ w[1] = word
  BY <1>2 DEF Sequence
<1>5. /\ Sequence(c \o w) /\ Len(c \o w) = Len(c) + Len(w)
      /\ \A k \in 1 .. Len(c) : (c \o w)[k] = c[k]
      /\ \A k \in 1 .. Len(w) : (c \o w)[Len(c) + k] = w[k]
  <2>1. Sequence(c) /\ Sequence(w)
    BY <1>3, <1>4
  <2> QED BY <2>1, OnTop
<1>6. PICK x : x = c \o w
  OBVIOUS
<1>7. Sequence(x) /\ Len(x) = n + 1 /\ x[n + 1] = word /\ \A k \in 1 .. n : x[k] = s[k]
  <2>1. /\ Sequence(x) /\ Len(x) = Len(c) + Len(w)
        /\ \A k \in 1 .. Len(c) : x[k] = c[k]
        /\ \A k \in 1 .. Len(w) : x[Len(c) + k] = w[k]
    BY <1>5, <1>6
  <2> QED BY <1>3, <1>4, <2>1
<1> QED
  BY <1>1, <1>2, <1>6, <1>7

(* What is left below a pointer when nothing is pushed.                    *)
LEMMA Popped ==
  ASSUME NEW s, Sequence(s), NEW n \in 0 .. Len(s)
  PROVE  LET x == SubSeq(s, 1, n) \o <<>>
         IN Sequence(x) /\ Len(x) = n /\ \A k \in 1 .. n : x[k] = s[k]
<1>1. PICK c : c = SubSeq(s, 1, n)
  OBVIOUS
<1>2. PICK w : w = <<>>
  OBVIOUS
<1>3. Sequence(c) /\ Len(c) = n /\ \A k \in 1 .. n : c[k] = s[k]
  BY <1>1, CutOff
<1>4. Sequence(w) /\ Len(w) = 0
  BY <1>2 DEF Sequence
<1>5. /\ Sequence(c \o w) /\ Len(c \o w) = Len(c) + Len(w)
      /\ \A k \in 1 .. Len(c) : (c \o w)[k] = c[k]
  <2>1. Sequence(c) /\ Sequence(w)
    BY <1>3, <1>4
  <2> QED BY <2>1, OnTop
<1>6. PICK x : x = c \o w
  OBVIOUS
<1>7. Sequence(x) /\ Len(x) = n /\ \A k \in 1 .. n : x[k] = s[k]
  <2>1. /\ Sequence(x) /\ Len(x) = Len(c) + Len(w)
        /\ \A k \in 1 .. Len(c) : x[k] = c[k]
    BY <1>5, <1>6
  <2> QED BY <1>3, <1>4, <2>1
<1> QED
  BY <1>1, <1>2, <1>6, <1>7

(* Three parts on top of each other.                                       *)
LEMMA ThreeParts ==
  ASSUME NEW s, NEW p, NEW q, Sequence(s), Sequence(p), Sequence(q)
  PROVE  /\ Sequence(s \o p \o q)
         /\ Len(s \o p \o q) = Len(s) + Len(p) + Len(q)
         /\ \A k \in 1 .. Len(s) : (s \o p \o q)[k] = s[k]
         /\ \A k \in 1 .. Len(p) : (s \o p \o q)[Len(s) + k] = p[k]
         /\ \A k \in 1 .. Len(q) : (s \o p \o q)[Len(s) + Len(p) + k] = q[k]
<1>1. PICK r : r = s \o p
  OBVIOUS
<1>2. Len(s) \in Nat /\ Len(p) \in Nat
  BY DEF Sequence
<1>3. /\ Sequence(r) /\ Len(r) = Len(s) + Len(p)
      /\ \A k \in 1 .. Len(s) : r[k] = s[k]
      /\ \A k \in 1 .. Len(p) : r[Len(s) + k] = p[k]
  BY <1>1, OnTop
<1>4. /\ Sequence(r \o q) /\ Len(r \o q) = Len(r) + Len(q)
      /\ \A k \in 1 .. Len(r) : (r \o q)[k] = r[k]
      /\ \A k \in 1 .. Len(q) : (r \o q)[Len(r) + k] = q[k]
  BY <1>3, OnTop
<1>5. /\ \A k \in 1 .. Len(s) : k \in 1 .. Len(r)
      /\ \A k \in 1 .. Len(p) : Len(s) + k \in 1 .. Len(r)
  BY <1>2, <1>3
<1>6. /\ \A k \in 1 .. Len(s) : (r \o q)[k] = s[k]
      /\ \A k \in 1 .. Len(p) : (r \o q)[Len(s) + k] = p[k]
      /\ \A k \in 1 .. Len(q) : (r \o q)[Len(s) + Len(p) + k] = q[k]
  BY <1>3, <1>4, <1>5
<1> QED
  BY <1>1, <1>3, <1>4, <1>6

(* A saved stack: the task's words, then what the processor and the stub   *)
(* push, then what isr_common pushes with the word for esp replaced.       *)
Framed(s, p, q, n, e) == Replace(s \o p \o q, Len(s) + Len(p) + n, e)

(* w has the words of the three parts at their places, but for the n-th of *)
(* the third.                                                              *)
LaidOut(w, s, p, q, n) ==
  /\ Sequence(w) /\ Len(w) = Len(s) + Len(p) + Len(q)
  /\ \A k \in 1 .. Len(s) : w[k] = s[k]
  /\ \A k \in 1 .. Len(p) : w[Len(s) + k] = p[k]
  /\ \A k \in 1 .. Len(q) : k # n => w[Len(s) + Len(p) + k] = q[k]

(* A saved stack is laid out so.                                           *)
LEMMA Layout ==
  ASSUME NEW s, NEW p, NEW q, NEW e, Sequence(s), Sequence(p), Sequence(q),
         NEW n \in 1 .. Len(q)
  PROVE  LaidOut(Framed(s, p, q, n, e), s, p, q, n)
<1>0. PICK w : w = Framed(s, p, q, n, e)
  OBVIOUS
<1>1. Len(s) \in Nat /\ Len(p) \in Nat /\ Len(q) \in Nat
  BY DEF Sequence
<1>2. PICK u : u = s \o p \o q
  OBVIOUS
<1>3. PICK i : i = Len(s) + Len(p) + n
  OBVIOUS
<1>4. /\ Sequence(u) /\ Len(u) = Len(s) + Len(p) + Len(q)
      /\ \A k \in 1 .. Len(s) : u[k] = s[k]
      /\ \A k \in 1 .. Len(p) : u[Len(s) + k] = p[k]
      /\ \A k \in 1 .. Len(q) : u[Len(s) + Len(p) + k] = q[k]
  BY <1>2, ThreeParts
<1>5. i \in 1 .. Len(u)
  <2>1. i \in 1 .. Len(s) + Len(p) + Len(q)
    BY <1>1, <1>3
  <2> QED BY <1>4, <2>1
<1>6. /\ Sequence(w) /\ Len(w) = Len(u)
      /\ \A j \in 1 .. Len(u) : j # i => w[j] = u[j]
  <2>1. w = Replace(u, i, e)
    BY <1>0, <1>2, <1>3 DEF Framed
  <2>2. /\ Sequence(Replace(u, i, e)) /\ Len(Replace(u, i, e)) = Len(u)
        /\ \A j \in 1 .. Len(u) : j # i => Replace(u, i, e)[j] = u[j]
    BY <1>4, <1>5, Replaced
  <2> QED BY <2>1, <2>2
<1>7. /\ \A k \in 1 .. Len(s) : k \in 1 .. Len(s) + Len(p) + Len(q) /\ k # i
      /\ \A k \in 1 .. Len(p) :
           Len(s) + k \in 1 .. Len(s) + Len(p) + Len(q) /\ Len(s) + k # i
      /\ \A k \in 1 .. Len(q) :
           /\ Len(s) + Len(p) + k \in 1 .. Len(s) + Len(p) + Len(q)
           /\ k # n => Len(s) + Len(p) + k # i
  BY <1>1, <1>3
<1>8. LaidOut(w, s, p, q, n)
  BY <1>4, <1>6, <1>7 DEF LaidOut
<1> QED
  BY <1>0, <1>8

(* A function of the first n numbers is a sequence of n.                   *)
LEMMA NumberedIsSequence ==
  ASSUME NEW n \in Nat, NEW f, f = [k \in 1 .. n |-> f[k]]
  PROVE  Sequence(f) /\ Len(f) = n
<1> DEFINE e(k) == f[k]
           W == {f[k] : k \in 1 .. n}
<1>1. f = [k \in 1 .. n |-> e(k)] /\ \A k \in 1 .. n : e(k) \in W
  OBVIOUS
<1> HIDE DEF e, W
<1>2. f \in Seq(W)
  BY <1>1, IsASeq
<1>3. DOMAIN f = 1 .. n /\ DOMAIN f = 1 .. Len(f) /\ Len(f) \in Nat
  BY <1>1, <1>2, LenProperties
<1>4. Len(f) = n
  BY <1>3
<1> QED
  BY <1>2, <1>4, IsSequence

-----------------------------------------------------------------------------
(* The words of a frame                                                    *)

(* isr_return takes each register from where isr_common has pushed it, and *)
(* none from the word for esp.                                             *)
LEMMA Places ==
  /\ \A r \in DataSegment :
       /\ SegmentPlace[r] \in 0 .. 3
       /\ Segment[4 - SegmentPlace[r]] = r
  /\ \A r \in GeneralRegister :
       /\ GeneralPlace[r] \in 4 .. 11 /\ GeneralPlace[r] # 7
       /\ General[12 - GeneralPlace[r]] = r
<1>1. ASSUME NEW r \in DataSegment
      PROVE  SegmentPlace[r] \in 0 .. 3 /\ Segment[4 - SegmentPlace[r]] = r
  <2>1. \E k \in 0 .. 3 : Segment[4 - k] = r
    <3>1. /\ Segment[4 - 3] = "ds" /\ Segment[4 - 2] = "es"
          /\ Segment[4 - 1] = "fs" /\ Segment[4 - 0] = "gs"
      BY DEF Segment
    <3> QED BY <3>1 DEF DataSegment
  <2>2. SegmentPlace[r] = CHOOSE k \in 0 .. 3 : Segment[4 - k] = r
    BY DEF SegmentPlace
  <2> QED BY <2>1, <2>2
<1>2. ASSUME NEW r \in GeneralRegister
      PROVE  /\ GeneralPlace[r] \in 4 .. 11 /\ GeneralPlace[r] # 7
             /\ General[12 - GeneralPlace[r]] = r
  <2>1. \E k \in 0 .. 7 : General[8 - k] = r
    <3>1. /\ General[8 - 7] = "eax" /\ General[8 - 6] = "ecx" /\ General[8 - 5] = "edx"
          /\ General[8 - 4] = "ebx" /\ General[8 - 2] = "ebp"
          /\ General[8 - 1] = "esi" /\ General[8 - 0] = "edi"
      BY DEF General
    <3> QED BY <3>1 DEF GeneralRegister
  <2>2. PICK k \in 0 .. 7 : General[8 - k] = r /\ GeneralPlace[r] = 4 + k
    <3>1. GeneralPlace[r] = 4 + CHOOSE k \in 0 .. 7 : General[8 - k] = r
      BY DEF GeneralPlace
    <3> QED BY <2>1, <3>1
  <2>3. k # 3
    <3>1. General[8 - 3] = "esp" /\ "esp" \notin GeneralRegister
      BY DEF General, GeneralRegister
    <3> QED BY <2>2, <3>1
  <2>4. 12 - GeneralPlace[r] = 8 - k /\ GeneralPlace[r] \in 4 .. 11 /\ GeneralPlace[r] # 7
    BY <2>2, <2>3
  <2> QED BY <2>2, <2>4
<1> QED
  BY <1>1, <1>2

(* What isr_common pushes.                                                 *)
LEMMA CommonWords ==
  ASSUME NEW before, NEW q, q = PushedByCommon(before)
  PROVE  /\ Sequence(q) /\ Len(q) = 12
         /\ \A r \in DataSegment : q[12 - SegmentPlace[r]] = regs[r]
         /\ \A r \in GeneralRegister : q[12 - GeneralPlace[r]] = regs[r]
<1>1. PICK g : g = [n \in 1 .. 8 |-> IF General[n] = "esp" THEN before
                                                          ELSE regs[General[n]]]
  OBVIOUS
<1>2. PICK d : d = [n \in 1 .. 4 |-> regs[Segment[n]]]
  OBVIOUS
<1>3. q = g \o d
  BY <1>1, <1>2 DEF PushedByCommon
<1>4. Sequence(g) /\ Len(g) = 8
  <2>1. g = [n \in 1 .. 8 |-> g[n]]
    BY <1>1
  <2> QED BY <2>1, NumberedIsSequence
<1>5. Sequence(d) /\ Len(d) = 4
  <2>1. d = [n \in 1 .. 4 |-> d[n]]
    BY <1>2
  <2> QED BY <2>1, NumberedIsSequence
<1>6. /\ Sequence(q) /\ Len(q) = Len(g) + Len(d)
      /\ \A k \in 1 .. Len(g) : q[k] = g[k]
      /\ \A k \in 1 .. Len(d) : q[Len(g) + k] = d[k]
  <2>1. /\ Sequence(g \o d) /\ Len(g \o d) = Len(g) + Len(d)
        /\ \A k \in 1 .. Len(g) : (g \o d)[k] = g[k]
        /\ \A k \in 1 .. Len(d) : (g \o d)[Len(g) + k] = d[k]
    <3>1. Sequence(g) /\ Sequence(d)
      BY <1>4, <1>5
    <3> QED BY <3>1, OnTop
  <2> QED BY <1>3, <2>1
<1>7. ASSUME NEW r \in DataSegment PROVE q[12 - SegmentPlace[r]] = regs[r]
  <2>1. SegmentPlace[r] \in 0 .. 3 /\ Segment[4 - SegmentPlace[r]] = r
    BY Places
  <2>2. PICK n : n = 4 - SegmentPlace[r]
    OBVIOUS
  <2>3. n \in 1 .. 4 /\ 8 + n = 12 - SegmentPlace[r] /\ Segment[n] = r
    BY <2>1, <2>2
  <2>4. q[8 + n] = d[n] /\ d[n] = regs[Segment[n]]
    BY <1>2, <1>4, <1>5, <1>6, <2>3
  <2> QED BY <2>3, <2>4
<1>8. ASSUME NEW r \in GeneralRegister PROVE q[12 - GeneralPlace[r]] = regs[r]
  <2>1. /\ GeneralPlace[r] \in 4 .. 11 /\ General[12 - GeneralPlace[r]] = r
        /\ r # "esp"
    BY Places DEF GeneralRegister
  <2>2. PICK n : n = 12 - GeneralPlace[r]
    OBVIOUS
  <2>3. n \in 1 .. 8 /\ General[n] = r
    BY <2>1, <2>2
  <2>4. q[n] = g[n] /\ g[n] = regs[General[n]]
    BY <1>1, <1>4, <1>6, <2>1, <2>3
  <2> QED BY <2>2, <2>3, <2>4
<1>9. Len(q) = 12
  BY <1>4, <1>5, <1>6
<1> QED
  BY <1>6, <1>7, <1>8, <1>9

(* What the processor and the stub push: the vector is always on top, and  *)
(* below it one word, pushed by the one or the other.                      *)
LEMMA EntryWords ==
  ASSUME NEW v, NEW p, p = PushedByProcessor(v) \o PushedByStub(v)
  PROVE  /\ Sequence(p) /\ Len(p) = IF InUserMode THEN 7 ELSE 5
         /\ p[Len(p)] = Vector(v)
         /\ p[Len(p) - 2] = regs["eip"]
         /\ p[Len(p) - 3] = regs["cs"]
         /\ p[Len(p) - 4] = regs["eflags"]
         /\ InUserMode => p[Len(p) - 5] = esp /\ p[Len(p) - 6] = regs["ss"]
<1>1. PICK a : a = IF InUserMode THEN <<regs["ss"], esp>> ELSE <<>>
  OBVIOUS
<1>2. PICK b : b = <<regs["eflags"], regs["cs"], regs["eip"]>>
  OBVIOUS
<1>3. PICK c : c = IF HasErrorCode(v) THEN <<ErrorCode>> ELSE <<>>
  OBVIOUS
<1>4. PICK d : d = IF HasErrorCode(v) THEN <<Vector(v)>> ELSE <<Zero, Vector(v)>>
  OBVIOUS
<1>5. p = (a \o b \o c) \o d
  BY <1>1, <1>2, <1>3, <1>4 DEF PushedByProcessor, PushedByStub, HasErrorCode
<1>6. /\ Sequence(a) /\ Len(a) = IF InUserMode THEN 2 ELSE 0
      /\ InUserMode => a[1] = regs["ss"] /\ a[2] = esp
  <2>1. a = [k \in 1 .. IF InUserMode THEN 2 ELSE 0 |-> a[k]]
    BY <1>1
  <2> QED BY <1>1, <2>1, NumberedIsSequence
<1>7. Sequence(b) /\ Len(b) = 3
  <2>1. b = [k \in 1 .. 3 |-> b[k]]
    BY <1>2
  <2> QED BY <2>1, NumberedIsSequence
<1>8. b[1] = regs["eflags"] /\ b[2] = regs["cs"] /\ b[3] = regs["eip"]
  BY <1>2
<1>9. Sequence(c) /\ Len(c) = IF HasErrorCode(v) THEN 1 ELSE 0
  <2>1. c = [k \in 1 .. IF HasErrorCode(v) THEN 1 ELSE 0 |-> c[k]]
    BY <1>3
  <2> QED BY <1>3, <2>1, NumberedIsSequence
<1>10. /\ Sequence(d) /\ Len(d) = IF HasErrorCode(v) THEN 1 ELSE 2
       /\ d[Len(d)] = Vector(v)
  <2>1. CASE HasErrorCode(v)
    <3>1. d = [k \in 1 .. 1 |-> d[k]] /\ d[1] = Vector(v)
      BY <1>4, <2>1
    <3> QED BY <2>1, <3>1, NumberedIsSequence
  <2>2. CASE ~ HasErrorCode(v)
    <3>1. d = [k \in 1 .. 2 |-> d[k]] /\ d[2] = Vector(v)
      BY <1>4, <2>2
    <3> QED BY <2>2, <3>1, NumberedIsSequence
  <2> QED BY <2>1, <2>2
<1>11. PICK r : r = a \o b \o c
  OBVIOUS
<1>12. /\ Sequence(r) /\ Len(r) = Len(a) + Len(b) + Len(c)
       /\ \A k \in 1 .. Len(a) : r[k] = a[k]
       /\ \A k \in 1 .. Len(b) : r[Len(a) + k] = b[k]
  <2>1. Sequence(a) /\ Sequence(b) /\ Sequence(c)
    BY <1>6, <1>7, <1>9
  <2> QED BY <1>11, <2>1, ThreeParts
<1>13. /\ Sequence(p) /\ Len(p) = Len(r) + Len(d)
       /\ \A k \in 1 .. Len(r) : p[k] = r[k]
       /\ \A k \in 1 .. Len(d) : p[Len(r) + k] = d[k]
  <2>1. /\ Sequence(r \o d) /\ Len(r \o d) = Len(r) + Len(d)
        /\ \A k \in 1 .. Len(r) : (r \o d)[k] = r[k]
        /\ \A k \in 1 .. Len(d) : (r \o d)[Len(r) + k] = d[k]
    <3>1. Sequence(r) /\ Sequence(d)
      BY <1>10, <1>12
    <3> QED BY <3>1, OnTop
  <2> QED BY <1>5, <1>11, <2>1
<1>14. Len(p) = Len(a) + 5 /\ Len(a) + 3 <= Len(r)
  BY <1>6, <1>7, <1>9, <1>10, <1>12, <1>13
<1>15. p[Len(p)] = Vector(v)
  <2>1. Len(p) = Len(r) + Len(d) /\ Len(d) \in 1 .. Len(d)
    BY <1>10, <1>13
  <2> QED BY <1>10, <1>13, <2>1
<1>16. ASSUME NEW k \in 1 .. 3 PROVE p[Len(a) + k] = b[k]
  <2>1. Len(a) + k \in 1 .. Len(r) /\ k \in 1 .. Len(b)
    BY <1>6, <1>7, <1>14
  <2> QED BY <1>12, <1>13, <2>1
<1>17. ASSUME NEW k \in 1 .. Len(a) PROVE p[k] = a[k]
  <2>1. k \in 1 .. Len(r)
    BY <1>6, <1>14, <1>12 DEF Sequence
  <2> QED BY <1>12, <1>13, <2>1
<1>18. /\ Len(p) - 2 = Len(a) + 3 /\ Len(p) - 3 = Len(a) + 2 /\ Len(p) - 4 = Len(a) + 1
       /\ InUserMode => Len(p) - 5 = 2 /\ Len(p) - 6 = 1
       /\ Len(p) = IF InUserMode THEN 7 ELSE 5
  BY <1>6, <1>14
<1>19. InUserMode => p[2] = esp /\ p[1] = regs["ss"]
  <2>1. InUserMode => 1 \in 1 .. Len(a) /\ 2 \in 1 .. Len(a)
    BY <1>6
  <2> QED BY <1>6, <1>17, <2>1
<1>20. p[Len(a) + 3] = b[3] /\ p[Len(a) + 2] = b[2] /\ p[Len(a) + 1] = b[1]
  <2>1. 1 \in 1 .. 3 /\ 2 \in 1 .. 3 /\ 3 \in 1 .. 3
    OBVIOUS
  <2> QED BY <1>16, <2>1
<1> QED
  BY <1>8, <1>13, <1>15, <1>18, <1>19, <1>20

-----------------------------------------------------------------------------
(* The invariant                                                           *)

(* A task that has the processor, and the context that a task is in or has *)
(* been left in.                                                           *)
Runs(t) == mode = "task" /\ t = current_task
(* Its context now.                                                        *)
Now(t) == IF Runs(t) THEN Context ELSE left[t]

(* A task in its own ring, on its own stack: a kernel task calls from its  *)
(* entry point, so that its words are never fewer than one.                *)
OwnContext(t, c) ==
  /\ c.regs = [r \in Register |-> c.regs[r]]
  /\ IF t \in KernelTasks
     THEN /\ c.regs["cs"] = KernelCode /\ c.regs["ss"] = KernelData
          /\ Depth(c.esp) \in 1 .. MaxCalls + 2
          /\ c.esp = Pointer("kernel", t, Depth(c.esp))
     ELSE /\ c.regs["cs"] = UserCode
          /\ Depth(c.esp) \in 0 .. MaxCalls
          /\ c.esp = Pointer("user", t, Depth(c.esp))

(* At the bottom of a kernel task's stack is its argument, and above it,   *)
(* until the entry point returns, the address that it returns to.          *)
Bottom(t, c) ==
  /\ stack[t][1] = <<t>>
  /\ IF Depth(c.esp) = 1 THEN c.regs["eip"] = end_task ELSE stack[t][2] = end_task

(* How high a kernel stack is with the words of its task, and with the     *)
(* frame on top of them.                                                   *)
OwnHeight(t, c) == IF t \in KernelTasks THEN Depth(c.esp) ELSE 0
(* With the frame.                                                         *)
SavedHeight(t, c) == IF t \in KernelTasks THEN Depth(c.esp) + 17 ELSE 19

(* The kernel stack of the task that runs has nothing but its own words,   *)
(* and those of the others also what they are resumed from.                *)
TaskInv(t) ==
  /\ OwnContext(t, Now(t))
  /\ Sequence(stack[t])
  /\ t \in KernelTasks => Bottom(t, Now(t))
  /\ Runs(t) => Len(stack[t]) = OwnHeight(t, Context)
  /\ ~ Runs(t) =>
       /\ task_esp[t] = Pointer("kernel", t, SavedHeight(t, left[t]))
       /\ Len(stack[t]) = SavedHeight(t, left[t])
       /\ SavedContext(task_esp[t]) = left[t]

(* The variables are indexed by the tasks, and the stack in the TSS is     *)
(* that of the task that is interrupted next.                              *)
Machine ==
  /\ mode \in {"boot", "task", "handler", "return", "halted"}
  /\ DOMAIN regs = Register
  /\ esp \in Pointers(0 .. MaxCalls + 21)
  /\ stack = [t \in Task |-> stack[t]] /\ left = [t \in Task |-> left[t]]
  /\ task_esp \in [Task -> Pointers(17 .. MaxCalls + 21)]
  /\ current_task \in Task /\ esp0 = KernelStack(current_task)
  /\ vector \in Exceptions \cup {Timer, Key}
  /\ HandlerSeesFrame

(* The inductive invariant.                                                *)
IInv == Machine /\ \A t \in Task : TaskInv(t)

(* What isr_return restores from a frame, register by register.            *)
Restores(p, c) ==
  /\ c = [regs |-> [r \in Register |-> c.regs[r]], esp |-> c.esp]
  /\ \A r \in GeneralRegister : c.regs[r] = Frame(p, GeneralPlace[r])
  /\ \A r \in DataSegment : c.regs[r] = Frame(p, SegmentPlace[r])
  /\ c.regs["eip"] = Frame(p, 14)
  /\ c.regs["cs"] = Frame(p, 15)
  /\ c.regs["eflags"] = Frame(p, 16)
  /\ IF Frame(p, 15) = UserCode
     THEN c.regs["ss"] = Frame(p, 18) /\ c.esp = Frame(p, 17)
     ELSE c.regs["ss"] = KernelData /\ c.esp = Up(p, -17)

(* These equations say what SavedContext is.                               *)
LEMMA RestoresContext == \A p, c : Restores(p, c) <=> c = SavedContext(p)
<1> TAKE p, c
<1>1. PICK d : d = SavedContext(p)
  OBVIOUS
<1>2. /\ d = [regs |-> [r \in Register |-> d.regs[r]], esp |-> d.esp]
      /\ d.esp = IF Frame(p, 15) = UserCode THEN Frame(p, 17) ELSE Up(p, -17)
  <2>1. d = [regs |-> d.regs, esp |-> d.esp]
    BY <1>1 DEF SavedContext
  <2>2. d.regs = [r \in Register |-> d.regs[r]]
    <3> DEFINE value(r) ==
          CASE r \in GeneralRegister -> Frame(p, GeneralPlace[r])
            [] r \in DataSegment -> Frame(p, SegmentPlace[r])
            [] r = "eip" -> Frame(p, 14)
            [] r = "cs" -> Frame(p, 15)
            [] r = "eflags" -> Frame(p, 16)
            [] r = "ss" -> IF Frame(p, 15) = UserCode THEN Frame(p, 18) ELSE KernelData
    <3>1. SavedContext(p).regs = [r \in Register |-> value(r)]
      BY DEF SavedContext
    <3> HIDE DEF value
    <3> QED BY <1>1, <3>1
  <2>3. d.esp = IF Frame(p, 15) = UserCode THEN Frame(p, 17) ELSE Up(p, -17)
    BY <1>1 DEF SavedContext
  <2> QED BY <2>1, <2>2, <2>3
<1>3. \A r \in GeneralRegister : d.regs[r] = Frame(p, GeneralPlace[r])
  BY <1>1 DEF SavedContext, Register, GeneralRegister, DataSegment
<1>4. \A r \in DataSegment : d.regs[r] = Frame(p, SegmentPlace[r])
  BY <1>1 DEF SavedContext, Register, GeneralRegister, DataSegment
<1>5. /\ d.regs["eip"] = Frame(p, 14)
      /\ d.regs["cs"] = Frame(p, 15)
      /\ d.regs["eflags"] = Frame(p, 16)
      /\ d.regs["ss"] = IF Frame(p, 15) = UserCode THEN Frame(p, 18) ELSE KernelData
  BY <1>1 DEF SavedContext, Register, GeneralRegister, DataSegment
<1>6. Restores(p, d)
  BY <1>2, <1>3, <1>4, <1>5 DEF Restores
<1>7. ASSUME Restores(p, c) PROVE c = d
  <2>1. ASSUME NEW r \in Register PROVE c.regs[r] = d.regs[r]
    BY <1>3, <1>4, <1>5, <1>7 DEF Restores, Register
  <2>2. c.esp = d.esp
    BY <1>2, <1>7 DEF Restores
  <2>3. [r \in Register |-> c.regs[r]] = [r \in Register |-> d.regs[r]]
    BY <2>1
  <2> QED BY <1>2, <1>7, <2>2, <2>3 DEF Restores
<1> QED
  BY <1>1, <1>6, <1>7

(* A pointer goes up by words.                                             *)
LEMMA PointerFacts ==
  ASSUME NEW kind, NEW t, NEW n, NEW k
  PROVE  /\ Depth(Pointer(kind, t, n)) = n /\ Pointer(kind, t, n)[2] = t
         /\ Up(Pointer(kind, t, n), k) = Pointer(kind, t, n + k)
<1>1. Pointer(kind, t, n) = <<kind, t, n>>
  BY DEF Pointer
<1>2. [<<kind, t, n>> EXCEPT ![3] = n + k] = <<kind, t, n + k>>
  OBVIOUS
<1> QED
  BY <1>1, <1>2 DEF Depth, Up, Pointer

(* The two rings have segments of their own, and a task is in one of them. *)
LEMMA Rings ==
  /\ KernelCode # UserCode
  /\ \A t \in Task : t \in UserTasks <=> t \notin KernelTasks
BY TasksAssumption DEF KernelCode, UserCode, Task

-----------------------------------------------------------------------------
(* The start                                                               *)

(* What create_task and create_user_task leave on a kernel stack.          *)
LEMMA CreatedStack ==
  ASSUME NEW t \in Task, NEW s,
         s = IF t \in KernelTasks THEN create_task(t) ELSE create_user_task(t)
  PROVE  /\ Sequence(s) /\ Len(s) = 19
         /\ \A k \in 4 .. 11 : s[19 - k] = Zero
         /\ \A k \in 0 .. 3 :
              s[19 - k] = IF t \in KernelTasks THEN KernelData ELSE UserData
         /\ s[5] = entry_point(t) /\ s[3] = Enabled
         /\ IF t \in KernelTasks
            THEN s[1] = <<t>> /\ s[2] = end_task /\ s[4] = KernelCode
            ELSE s[1] = UserData /\ s[2] = UserStack(t) /\ s[4] = UserCode
<1>1. PICK data : data = IF t \in KernelTasks THEN KernelData ELSE UserData
  OBVIOUS
<1>2. PICK a : a = IF t \in KernelTasks
                   THEN <<<<t>>, end_task, Enabled, KernelCode, entry_point(t), Zero,
                          Zero>>
                   ELSE <<UserData, UserStack(t), Enabled, UserCode, entry_point(t), Zero,
                          Zero>>
  OBVIOUS
<1>3. PICK g : g = [n \in 1 .. 8 |-> Zero]
  OBVIOUS
<1>4. PICK d : d = [n \in 1 .. 4 |-> data]
  OBVIOUS
<1>5. s = a \o (g \o d)
  BY <1>1, <1>2, <1>3, <1>4 DEF create_task, create_user_task, FreshRegisters
<1>6. Sequence(a) /\ Len(a) = 7
  <2>1. a = [k \in 1 .. 7 |-> a[k]]
    BY <1>2
  <2> QED BY <2>1, NumberedIsSequence
<1>7. Sequence(g) /\ Len(g) = 8
  <2>1. g = [k \in 1 .. 8 |-> g[k]]
    BY <1>3
  <2> QED BY <2>1, NumberedIsSequence
<1>8. Sequence(d) /\ Len(d) = 4
  <2>1. d = [k \in 1 .. 4 |-> d[k]]
    BY <1>4
  <2> QED BY <2>1, NumberedIsSequence
<1>9. PICK f : f = g \o d
  OBVIOUS
<1>10. /\ Sequence(f) /\ Len(f) = 12
       /\ \A k \in 1 .. 8 : f[k] = Zero
       /\ \A k \in 1 .. 4 : f[8 + k] = data
  <2>1. Sequence(g) /\ Sequence(d)
    BY <1>7, <1>8
  <2>2. /\ Sequence(g \o d) /\ Len(g \o d) = Len(g) + Len(d)
        /\ \A k \in 1 .. Len(g) : (g \o d)[k] = g[k]
        /\ \A k \in 1 .. Len(d) : (g \o d)[Len(g) + k] = d[k]
    BY <2>1, OnTop
  <2> QED BY <1>3, <1>4, <1>7, <1>8, <1>9, <2>2
<1>11. /\ Sequence(s) /\ Len(s) = 19
       /\ \A k \in 1 .. 7 : s[k] = a[k]
       /\ \A k \in 1 .. 12 : s[7 + k] = f[k]
  <2>1. Sequence(a) /\ Sequence(f)
    BY <1>6, <1>10
  <2>2. /\ Sequence(a \o f) /\ Len(a \o f) = Len(a) + Len(f)
        /\ \A k \in 1 .. Len(a) : (a \o f)[k] = a[k]
        /\ \A k \in 1 .. Len(f) : (a \o f)[Len(a) + k] = f[k]
    BY <2>1, OnTop
  <2>3. s = a \o f
    BY <1>5, <1>9
  <2>4. /\ Sequence(s) /\ Len(s) = Len(a) + Len(f)
        /\ \A k \in 1 .. Len(a) : s[k] = a[k]
        /\ \A k \in 1 .. Len(f) : s[Len(a) + k] = f[k]
    BY <2>2, <2>3
  <2> QED BY <1>6, <1>10, <2>4
<1>12. ASSUME NEW k \in 4 .. 11 PROVE s[19 - k] = Zero
  <2>1. PICK j \in 1 .. 8 : 19 - k = 7 + j
    <3>1. 12 - k \in 1 .. 8 /\ 19 - k = 7 + (12 - k)
      OBVIOUS
    <3> QED BY <3>1
  <2> QED BY <1>10, <1>11, <2>1
<1>13. ASSUME NEW k \in 0 .. 3 PROVE s[19 - k] = data
  <2>1. PICK j \in 1 .. 4 : 19 - k = 7 + (8 + j)
    <3>1. 4 - k \in 1 .. 4 /\ 19 - k = 7 + (8 + (4 - k))
      OBVIOUS
    <3> QED BY <3>1
  <2> QED BY <1>10, <1>11, <2>1
<1>14. s[1] = a[1] /\ s[2] = a[2] /\ s[3] = a[3] /\ s[4] = a[4] /\ s[5] = a[5]
  BY <1>11
<1> QED
  BY <1>1, <1>2, <1>11, <1>12, <1>13, <1>14

(* A new task's frame is what it has to start with.                        *)
LEMMA CreatedContext ==
  ASSUME NEW t \in Task, stack[t] = IF t \in KernelTasks THEN create_task(t)
                                                        ELSE create_user_task(t)
  PROVE  SavedContext(Pointer("kernel", t, 19)) = StartContext(t)
<1>1. PICK s : s = stack[t]
  OBVIOUS
<1>2. /\ \A k \in 4 .. 11 : s[19 - k] = Zero
      /\ \A k \in 0 .. 3 :
           s[19 - k] = IF t \in KernelTasks THEN KernelData ELSE UserData
      /\ s[5] = entry_point(t) /\ s[3] = Enabled
      /\ IF t \in KernelTasks
         THEN s[1] = <<t>> /\ s[2] = end_task /\ s[4] = KernelCode
         ELSE s[1] = UserData /\ s[2] = UserStack(t) /\ s[4] = UserCode
  BY <1>1, CreatedStack
<1>3. PICK p : p = Pointer("kernel", t, 19)
  OBVIOUS
<1>4. \A k \in Int : Frame(p, k) = s[19 - k]
  BY <1>1, <1>3, PointerFacts DEF Frame
<1>5. /\ Frame(p, 14) = entry_point(t) /\ Frame(p, 16) = Enabled
      /\ Frame(p, 15) = IF t \in KernelTasks THEN KernelCode ELSE UserCode
      /\ t \notin KernelTasks => Frame(p, 17) = UserStack(t) /\ Frame(p, 18) = UserData
  BY <1>2, <1>4
<1>6. (Frame(p, 15) = UserCode) <=> t \notin KernelTasks
  BY <1>5, Rings
<1>7. /\ Up(p, -17) = Pointer("kernel", t, 2)
      /\ Up(KernelStack(t), 2) = Pointer("kernel", t, 2)
  BY <1>3, PointerFacts DEF KernelStack
<1>8. /\ \A r \in GeneralRegister : Frame(p, GeneralPlace[r]) = Zero
      /\ \A r \in DataSegment :
           Frame(p, SegmentPlace[r]) = IF t \in KernelTasks THEN KernelData ELSE UserData
  BY <1>2, <1>4, Places
<1>9. PICK c : c = StartContext(t)
  OBVIOUS
<1>10. /\ \A r \in GeneralRegister : c.regs[r] = Zero
       /\ \A r \in DataSegment \cup {"ss"} :
            c.regs[r] = IF t \in KernelTasks THEN KernelData ELSE UserData
       /\ c.regs["eip"] = entry_point(t) /\ c.regs["eflags"] = Enabled
       /\ c.regs["cs"] = IF t \in KernelTasks THEN KernelCode ELSE UserCode
       /\ c.esp = IF t \in KernelTasks THEN Up(KernelStack(t), 2) ELSE UserStack(t)
       /\ c = [regs |-> [r \in Register |-> c.regs[r]], esp |-> c.esp]
  BY <1>9 DEF StartContext, Register, GeneralRegister, DataSegment
<1>11. Restores(p, c)
  BY <1>5, <1>6, <1>7, <1>8, <1>10 DEF Restores
<1> QED
  BY <1>3, <1>9, <1>11, RestoresContext

(* A kernel task starts above its argument and its return address.         *)
LEMMA StartPointer ==
  ASSUME NEW t \in KernelTasks
  PROVE  StartContext(t).esp = Pointer("kernel", t, 2)
<1>1. StartContext(t).esp = Up(Pointer("kernel", t, 0), 2)
  BY DEF StartContext, KernelStack
<1>2. Up(Pointer("kernel", t, 0), 2) = Pointer("kernel", t, 0 + 2)
  BY PointerFacts
<1> QED
  BY <1>1, <1>2

(* A task is created in its own context.                                   *)
LEMMA StartIsOwn ==
  ASSUME NEW t \in Task
  PROVE  OwnContext(t, StartContext(t))
<1>1. CASE t \in KernelTasks
  <2>1. StartContext(t).esp = Pointer("kernel", t, 2)
    BY <1>1, StartPointer
  <2>2. Depth(StartContext(t).esp) = 2 /\ 2 \in 1 .. MaxCalls + 2
    BY <2>1, PointerFacts, TasksAssumption
  <2> QED BY <1>1, <2>1, <2>2
      DEF OwnContext, StartContext, Register, GeneralRegister, DataSegment
<1>2. CASE t \notin KernelTasks
  <2>1. StartContext(t).esp = Pointer("user", t, 0)
    BY <1>2 DEF StartContext, UserStack
  <2>2. Depth(StartContext(t).esp) = 0 /\ 0 \in 0 .. MaxCalls
    BY <2>1, PointerFacts, TasksAssumption
  <2> QED BY <1>2, <2>1, <2>2
      DEF OwnContext, StartContext, Register, GeneralRegister, DataSegment
<1> QED
  BY <1>1, <1>2

(* The invariant holds when kmain calls resume_new_task.                   *)
LEMMA InitIInv == Init => IInv
<1> SUFFICES ASSUME Init PROVE IInv
  OBVIOUS
<1>1. /\ mode = "boot" /\ current_task = Idle /\ Idle \in Task /\ MaxCalls \in Nat
      /\ \A t \in Task :
           ~ Runs(t) /\ Now(t) = StartContext(t) /\ left[t] = StartContext(t)
  BY TasksAssumption DEF Init, Runs, Now, Task
<1>2. \A t \in Task :
        /\ stack[t] = IF t \in KernelTasks THEN create_task(t) ELSE create_user_task(t)
        /\ task_esp[t] = Pointer("kernel", t, 19)
  BY PointerFacts DEF Init, KernelStack
<1>3. Machine
  <2>1. \A t \in Task : Pointer("kernel", t, 19) \in Pointers(17 .. MaxCalls + 21)
    BY <1>1 DEF Pointers
  <2>2. task_esp \in [Task -> Pointers(17 .. MaxCalls + 21)]
    BY <1>2, <2>1 DEF Init
  <2>3. esp \in Pointers(0 .. MaxCalls + 21)
    BY <1>1 DEF Init, Pointers
  <2>4. DOMAIN regs = Register
    BY DEF Init, StartContext
  <2>5. stack = [t \in Task |-> stack[t]] /\ left = [t \in Task |-> left[t]]
    BY DEF Init
  <2> QED BY <1>1, <2>2, <2>3, <2>4, <2>5 DEF Init, Machine, HandlerSeesFrame
<1>4. ASSUME NEW t \in Task PROVE TaskInv(t)
  <2>1. OwnContext(t, Now(t))
    BY <1>1, StartIsOwn
  <2>2. Sequence(stack[t]) /\ Len(stack[t]) = 19
    BY <1>2, CreatedStack
  <2>3. SavedHeight(t, left[t]) = 19
    <3>1. t \in KernelTasks => Depth(left[t].esp) = 2
      BY <1>1, StartPointer, PointerFacts
    <3> QED BY <3>1 DEF SavedHeight
  <2>4. ASSUME t \in KernelTasks PROVE Bottom(t, Now(t))
    <3>1. Depth(Now(t).esp) = 2
      BY <1>1, <2>4, StartPointer, PointerFacts
    <3>2. stack[t][1] = <<t>> /\ stack[t][2] = end_task
      BY <1>2, <2>4, CreatedStack
    <3> QED BY <3>1, <3>2 DEF Bottom
  <2>5. SavedContext(task_esp[t]) = left[t]
    BY <1>1, <1>2, CreatedContext
  <2> QED BY <1>1, <1>2, <2>1, <2>2, <2>3, <2>4, <2>5 DEF TaskInv
<1> QED
  BY <1>3, <1>4 DEF IInv

-----------------------------------------------------------------------------
(* The steps                                                               *)

(* What the invariant says of the task that runs.                          *)
InProcessor(t) ==
  /\ regs = [r \in Register |-> regs[r]]
  /\ Sequence(stack[t])
  /\ Len(stack[t]) = OwnHeight(t, Context)
  /\ t \in KernelTasks =>
       /\ regs["cs"] = KernelCode /\ regs["ss"] = KernelData
       /\ Depth(esp) \in 1 .. MaxCalls + 2
       /\ esp = Pointer("kernel", t, Depth(esp))
       /\ stack[t][1] = <<t>>
       /\ IF Depth(esp) = 1 THEN regs["eip"] = end_task ELSE stack[t][2] = end_task
  /\ t \notin KernelTasks =>
       /\ regs["cs"] = UserCode
       /\ Depth(esp) \in 0 .. MaxCalls
       /\ esp = Pointer("user", t, Depth(esp))

(* It says the same as TaskInv.                                            *)
LEMMA TaskRuns == \A t \in Task : Runs(t) => (TaskInv(t) <=> InProcessor(t))
<1> SUFFICES ASSUME NEW t \in Task, Runs(t) PROVE TaskInv(t) <=> InProcessor(t)
  OBVIOUS
<1>1. Now(t) = Context /\ Context.regs = regs /\ Context.esp = esp
  BY DEF Now, Context
<1>2. TaskInv(t) <=> /\ OwnContext(t, Context) /\ Sequence(stack[t])
                     /\ t \in KernelTasks => Bottom(t, Context)
                     /\ Len(stack[t]) = OwnHeight(t, Context)
  BY <1>1 DEF TaskInv
<1>3. CASE t \in KernelTasks
  BY <1>1, <1>2, <1>3 DEF InProcessor, OwnContext, Bottom
<1>4. CASE t \notin KernelTasks
  BY <1>1, <1>2, <1>4 DEF InProcessor, OwnContext
<1> QED
  BY <1>3, <1>4

(* So it does after a step.                                                *)
LEMMA TaskRunsNext == \A t \in Task : Runs(t)' => (TaskInv(t)' <=> InProcessor(t)')
<1>1. (\A t \in Task : Runs(t) => (TaskInv(t) <=> InProcessor(t)))'
  BY TaskRuns, PTL
<1> QED
  BY <1>1

(* The task that runs is in its ring, and so on its own stack.             *)
LEMMA Running ==
  ASSUME IInv, mode = "task", NEW t, t = current_task
  PROVE  /\ t \in Task /\ Runs(t) /\ InProcessor(t)
         /\ InUserMode <=> t \notin KernelTasks
         /\ OwnHeight(t, Context) = IF t \in KernelTasks THEN Depth(esp) ELSE 0
<1>1. t \in Task /\ Runs(t) /\ TaskInv(t)
  BY DEF IInv, Machine, Runs
<1>2. InProcessor(t)
  BY <1>1, TaskRuns
<1>3. InUserMode <=> t \notin KernelTasks
  BY <1>2, Rings DEF InProcessor, InUserMode
<1> QED
  BY <1>1, <1>2, <1>3 DEF OwnHeight, Context

(* The context of the task that runs, as module OwnProcessors sees it.     *)
Mine(t) ==
  [regs |-> regs, esp |-> esp, words |-> IF t \in KernelTasks THEN stack[t] ELSE <<>>]

(* A context with another stack pointer and other words.                   *)
MovedTo(c, e, y) == [c EXCEPT !.esp = e, !.words = y]

(* Field by field.                                                         *)
LEMMA Moved ==
  ASSUME NEW a, NEW b, NEW w, NEW e, NEW y, NEW c,
         c = [regs |-> a, esp |-> b, words |-> w]
  PROVE  MovedTo(c, e, y) = [regs |-> a, esp |-> e, words |-> y]
<1>1. [c EXCEPT !.esp = e] = [regs |-> a, esp |-> e, words |-> w]
  OBVIOUS
<1>2. PICK d : d = [regs |-> a, esp |-> e, words |-> w]
  OBVIOUS
<1>3. [d EXCEPT !.words = y] = [regs |-> a, esp |-> e, words |-> y]
  BY <1>2
<1> QED
  BY <1>1, <1>2, <1>3 DEF MovedTo

(* The context of the task that runs is in the processor,                  *)
LEMMA RunningContext ==
  \A t \in Task : Runs(t) /\ InProcessor(t) => ContextOf(t) = Mine(t)
<1> SUFFICES ASSUME NEW t \in Task, Runs(t), InProcessor(t)
             PROVE  ContextOf(t) = Mine(t)
  OBVIOUS
<1>1. ContextOf(t) = [regs |-> regs, esp |-> esp,
                      words |-> IF t \in KernelTasks THEN SubSeq(stack[t], 1, Depth(esp))
                                                     ELSE <<>>]
  BY DEF ContextOf, Runs, Context
<1>2. ASSUME t \in KernelTasks PROVE SubSeq(stack[t], 1, Depth(esp)) = stack[t]
  <2>1. Sequence(stack[t]) /\ Len(stack[t]) = Depth(esp)
    BY <1>2 DEF InProcessor, OwnHeight, Context
  <2>2. stack[t] \in Seq({stack[t][k] : k \in 1 .. Len(stack[t])})
    BY <2>1, SequenceOf
  <2> QED BY <2>1, <2>2, SubSeqFull
<1> QED
  BY <1>1, <1>2 DEF Mine

(* after a step, too.                                                      *)
LEMMA RunningContextNext ==
  \A t \in Task : Runs(t)' /\ InProcessor(t)' => ContextOf(t)' = Mine(t)'
<1>1. (\A t \in Task : Runs(t) /\ InProcessor(t) => ContextOf(t) = Mine(t))'
  BY RunningContext, PTL
<1> QED
  BY <1>1

(* What is restored after a step, too.                                     *)
LEMMA RestoresContextNext == \A p, c : Restores(p, c)' <=> c = SavedContext(p)'
<1>1. (\A p, c : Restores(p, c) <=> c = SavedContext(p))'
  BY RestoresContext, PTL
<1> QED
  BY <1>1

(* A task that has not run and does not run next keeps what it has.        *)
LEMMA OtherTask ==
  ASSUME NEW t \in Task, TaskInv(t), ~ Runs(t), ~ Runs(t)',
         stack'[t] = stack[t], task_esp'[t] = task_esp[t], left'[t] = left[t]
  PROVE  TaskInv(t)' /\ ContextOf(t)' = ContextOf(t)
<1>1. Now(t) = left[t] /\ Now(t)' = left[t]
  BY DEF Now
<1>2. task_esp[t][2] = t /\ SavedContext(task_esp[t]) = left[t]
  BY PointerFacts DEF TaskInv
<1>3. SavedContext(task_esp[t])' = SavedContext(task_esp[t])
  <2>1. PICK p : p = task_esp[t]
    OBVIOUS
  <2>2. task_esp[t]' = p /\ stack'[p[2]] = stack[p[2]]
    BY <1>2, <2>1
  <2>3. \A k : Frame(p, k)' = Frame(p, k)
    BY <2>2 DEF Frame
  <2>4. Restores(p, left[t])
    BY <1>2, <2>1, RestoresContext
  <2>5. PICK c : c = left[t]
    OBVIOUS
  <2>6. Restores(p, c)'
    BY <2>3, <2>4, <2>5 DEF Restores
  <2>7. c = SavedContext(p)'
    BY <2>6, RestoresContextNext
  <2> QED BY <1>2, <2>1, <2>2, <2>5, <2>7
<1>4. TaskInv(t)'
  BY <1>1, <1>2, <1>3 DEF TaskInv, Bottom
<1>5. ContextOf(t)' = ContextOf(t)
  BY <1>3 DEF ContextOf, Runs
<1> QED
  BY <1>4, <1>5

(* A step after which the current task runs, and which nothing else sees.  *)
LEMMA OwnStepKeeps ==
  ASSUME IInv, mode' = "task", NEW t, t = current_task,
         UNCHANGED <<task_esp, current_task, esp0, vector, left>>,
         InProcessor(t)', NEW x, stack' = [stack EXCEPT ![t] = x]
  PROVE  /\ IInv'
         /\ \A u \in Task : u # t => ContextOf(u)' = ContextOf(u)
<1>1. t \in Task /\ MaxCalls \in Nat
  BY TasksAssumption DEF IInv, Machine
<1>2. ASSUME NEW u \in Task, u # t
      PROVE  TaskInv(u)' /\ ContextOf(u)' = ContextOf(u)
  <2>1. stack'[u] = stack[u] /\ ~ Runs(u) /\ ~ Runs(u)' /\ TaskInv(u)
    BY <1>2 DEF IInv, Machine, Runs
  <2> QED BY <2>1, OtherTask
<1>3. TaskInv(t)'
  <2>1. Runs(t)'
    BY DEF Runs
  <2> QED BY <1>1, <2>1, TaskRunsNext
<1>4. Machine'
  <2>1. esp' \in Pointers(0 .. MaxCalls + 21)'
    <3>1. CASE t \in KernelTasks
      <4>1. esp' = Pointer("kernel", t, Depth(esp')) /\ Depth(esp') \in 1 .. MaxCalls + 2
        BY <3>1 DEF InProcessor
      <4>2. Depth(esp') \in 0 .. MaxCalls + 21
        BY <1>1, <4>1
      <4> QED BY <1>1, <4>1, <4>2 DEF Pointers
    <3>2. CASE t \notin KernelTasks
      <4>1. esp' = Pointer("user", t, Depth(esp')) /\ Depth(esp') \in 0 .. MaxCalls
        BY <3>2 DEF InProcessor
      <4>2. Depth(esp') \in 0 .. MaxCalls + 21
        BY <1>1, <4>1
      <4> QED BY <1>1, <4>1, <4>2 DEF Pointers
    <3> QED BY <3>1, <3>2
  <2>2. DOMAIN regs' = Register
    BY DEF InProcessor
  <2>3. stack' = [u \in Task |-> stack'[u]]
    BY DEF IInv, Machine
  <2>4. HandlerSeesFrame'
    BY DEF HandlerSeesFrame
  <2> QED BY <2>1, <2>2, <2>3, <2>4 DEF IInv, Machine, KernelStack
<1> QED
  BY <1>2, <1>3, <1>4 DEF IInv

(* A computation changes no more than the task's registers.                *)
LEMMA ComputeKeeps ==
  ASSUME IInv, NEW v \in {1, 2}, Compute(v), NEW t, t = current_task
  PROVE  /\ IInv'
         /\ \A u \in Task : u # t => ContextOf(u)' = ContextOf(u)
         /\ OwnStep(t, Mine(t), Mine(t)')
<1>2. mode = "task" /\ InProcessor(t) /\ t \in Task
  BY Running DEF Compute
<1>3. /\ regs' = [r \in Register |-> regs'[r]]
      /\ regs'["cs"] = regs["cs"] /\ regs'["ss"] = regs["ss"]
      /\ regs'["eip"] = regs["eip"]
  BY DEF Compute, Register, GeneralRegister
<1>4. InProcessor(t)'
  <2>1. esp' = esp /\ stack' = stack
    BY DEF Compute
  <2>2. OwnHeight(t, Context)' = OwnHeight(t, Context)
    BY <2>1 DEF OwnHeight, Context
  <2> QED BY <1>2, <1>3, <2>1, <2>2 DEF InProcessor
<1>5. stack' = [stack EXCEPT ![t] = stack[t]]
  BY <1>2 DEF Compute, IInv, Machine
<1>6. OwnStep(t, Mine(t), Mine(t)')
  <2>1. /\ esp' = esp /\ stack' = stack
        /\ regs' = [r \in Register |->
                      IF r \in GeneralRegister THEN <<t, r, v>> ELSE regs[r]]
    BY DEF Compute
  <2>2. Mine(t)' = [Mine(t) EXCEPT !.regs = [r \in Register |->
                      IF r \in GeneralRegister THEN <<t, r, v>> ELSE Mine(t).regs[r]]]
    BY <2>1 DEF Mine
  <2> QED BY <2>2 DEF OwnStep
<1> QED
  BY <1>2, <1>4, <1>5, <1>6, OwnStepKeeps DEF Compute

(* A call pushes on the task's own stack.                                  *)
LEMMA CallKeeps ==
  ASSUME IInv, Call, NEW t, t = current_task
  PROVE  /\ IInv'
         /\ \A u \in Task : u # t => ContextOf(u)' = ContextOf(u)
         /\ OwnStep(t, Mine(t), Mine(t)')
<1>2. /\ mode = "task" /\ InProcessor(t) /\ t \in Task
      /\ InUserMode <=> t \notin KernelTasks
      /\ MaxCalls \in Nat /\ regs["eip"] # end_task /\ Calls < MaxCalls
      /\ esp' = Up(esp, 1) /\ regs' = regs
  BY Running, TasksAssumption DEF Call
<1>3. CASE t \in KernelTasks
  <2>1. PICK n : n = Depth(esp)
    OBVIOUS
  <2>2. /\ n \in 1 .. MaxCalls + 2 /\ n # 1 /\ n - 2 < MaxCalls
        /\ esp = Pointer("kernel", t, n) /\ Len(stack[t]) = n
    BY <1>2, <1>3, <2>1 DEF InProcessor, Calls, OwnHeight, Context
  <2>3. /\ esp' = Pointer("kernel", t, n + 1) /\ Depth(esp') = n + 1 /\ esp[2] = t
    BY <1>2, <2>2, PointerFacts
  <2>4. PICK x : x = SubSeq(stack[t], 1, n) \o <<regs["eip"]>>
    OBVIOUS
  <2>5. stack' = [stack EXCEPT ![t] = x]
    BY <1>2, <1>3, <2>1, <2>3, <2>4 DEF Call, Push
  <2>6. /\ Sequence(x) /\ Len(x) = n + 1
        /\ \A k \in 1 .. n : x[k] = stack[t][k]
    <3>1. Sequence(stack[t]) /\ n \in 0 .. Len(stack[t])
      BY <1>2, <2>2 DEF InProcessor
    <3> QED BY <2>4, <3>1, Pushed
  <2>7. stack'[t] = x
    BY <1>2, <2>5 DEF IInv, Machine
  <2>8. x[1] = stack[t][1] /\ x[2] = stack[t][2]
    BY <2>2, <2>6
  <2>9. n + 1 \in 1 .. MaxCalls + 2 /\ n + 1 # 1
    BY <1>2, <2>2
  <2>10. InProcessor(t)'
    BY <1>2, <1>3, <2>1, <2>2, <2>3, <2>6, <2>7, <2>8, <2>9
    DEF InProcessor, OwnHeight, Context
  <2>11. OwnStep(t, Mine(t), Mine(t)')
    <3>1. x[Len(x)] = regs["eip"]
      <4>1. Sequence(stack[t]) /\ n \in 0 .. Len(stack[t])
        BY <1>2, <2>2 DEF InProcessor
      <4>2. x[n + 1] = regs["eip"]
        BY <2>4, <4>1, Pushed
      <4> QED BY <2>6, <4>2
    <3>2. x = Append(stack[t], regs["eip"])
      <4>1. Sequence(stack[t]) /\ Len(x) = Len(stack[t]) + 1
        BY <1>2, <2>2, <2>6 DEF InProcessor
      <4> QED BY <2>2, <2>6, <3>1, <4>1, OneMore
    <3>3. PICK c : c = Mine(t)
      OBVIOUS
    <3>4. PICK d : d = Mine(t)'
      OBVIOUS
    <3>5. c = [regs |-> regs, esp |-> esp, words |-> stack[t]]
      BY <1>3, <3>3 DEF Mine
    <3>6. d = [regs |-> regs, esp |-> Up(esp, 1), words |-> Append(stack[t], regs["eip"])]
      BY <1>2, <1>3, <2>7, <3>2, <3>4 DEF Mine
    <3>7. d = [c EXCEPT !.esp = Up(@, 1), !.words = Append(@, c.regs["eip"])]
      <4>1. c.esp = esp /\ c.words = stack[t] /\ c.regs["eip"] = regs["eip"]
        BY <3>5
      <4>2. PICK e : e = Up(esp, 1)
        OBVIOUS
      <4>3. PICK y : y = Append(stack[t], regs["eip"])
        OBVIOUS
      <4>4. MovedTo(c, e, y) = [regs |-> regs, esp |-> e, words |-> y]
        BY <3>5, Moved
      <4> QED BY <3>6, <4>1, <4>2, <4>3, <4>4 DEF MovedTo
    <3>8. c.regs["eip"] # end_task /\ Depth(c.esp) - 2 < MaxCalls
      BY <1>2, <2>1, <2>2, <3>5
    <3> QED BY <1>3, <3>3, <3>4, <3>7, <3>8 DEF OwnStep
  <2> QED BY <1>2, <2>5, <2>10, <2>11, OwnStepKeeps DEF Call
<1>4. CASE t \notin KernelTasks
  <2>1. PICK n : n = Depth(esp)
    OBVIOUS
  <2>2. n \in 0 .. MaxCalls /\ n < MaxCalls /\ esp = Pointer("user", t, n)
    BY <1>2, <1>4, <2>1 DEF InProcessor, Calls
  <2>3. esp' = Pointer("user", t, n + 1) /\ Depth(esp') = n + 1 /\ n + 1 \in 0 .. MaxCalls
    BY <1>2, <2>2, PointerFacts
  <2>4. stack' = stack /\ stack' = [stack EXCEPT ![t] = stack[t]]
    BY <1>2, <1>4 DEF Call, IInv, Machine
  <2>5. InProcessor(t)'
    BY <1>2, <1>4, <2>3, <2>4 DEF InProcessor, OwnHeight
  <2>6. OwnStep(t, Mine(t), Mine(t)')
    <3>1. PICK c : c = Mine(t)
      OBVIOUS
    <3>2. PICK d : d = Mine(t)'
      OBVIOUS
    <3>3. c = [regs |-> regs, esp |-> esp, words |-> <<>>]
      BY <1>4, <3>1 DEF Mine
    <3>4. d = [regs |-> regs, esp |-> Up(esp, 1), words |-> <<>>]
      BY <1>2, <1>4, <3>2 DEF Mine
    <3>5. d = [c EXCEPT !.esp = Up(@, 1), !.words = @]
      <4>1. c.esp = esp /\ c.words = <<>>
        BY <3>3
      <4>2. PICK e : e = Up(esp, 1)
        OBVIOUS
      <4>3. PICK y : y = c.words
        OBVIOUS
      <4>4. MovedTo(c, e, y) = [regs |-> regs, esp |-> e, words |-> y]
        BY <3>3, Moved
      <4> QED BY <3>4, <4>1, <4>2, <4>3, <4>4 DEF MovedTo
    <3>6. c.regs["eip"] # end_task /\ Depth(c.esp) - 0 < MaxCalls
      BY <1>2, <2>1, <2>2, <3>3
    <3> QED BY <1>4, <3>1, <3>2, <3>5, <3>6 DEF OwnStep
  <2> QED BY <1>2, <2>4, <2>5, <2>6, OwnStepKeeps DEF Call
<1> QED
  BY <1>3, <1>4

(* A return takes back what was pushed there, or the address of end_task.  *)
LEMMA RetKeeps ==
  ASSUME IInv, Ret, NEW t, t = current_task
  PROVE  /\ IInv'
         /\ \A u \in Task : u # t => ContextOf(u)' = ContextOf(u)
         /\ OwnStep(t, Mine(t), Mine(t)')
<1>2. /\ mode = "task" /\ InProcessor(t) /\ t \in Task
      /\ InUserMode <=> t \notin KernelTasks
      /\ MaxCalls \in Nat /\ regs["eip"] # end_task /\ (Calls > 0 \/ ~ InUserMode)
      /\ esp' = Up(esp, -1)
  BY Running, TasksAssumption DEF Ret
<1>3. CASE t \in KernelTasks
  <2>1. PICK n : n = Depth(esp)
    OBVIOUS
  <2>2. /\ n \in 1 .. MaxCalls + 2 /\ n # 1
        /\ esp = Pointer("kernel", t, n) /\ Len(stack[t]) = n /\ stack[t][2] = end_task
        /\ stack[t][1] = <<t>>
    BY <1>2, <1>3, <2>1 DEF InProcessor, OwnHeight, Context
  <2>3. PICK m : m = n - 1
    OBVIOUS
  <2>4. m \in 1 .. MaxCalls + 2 /\ m \in 0 .. n /\ n + -1 = m /\ (m = 1 => n = 2)
    BY <1>2, <2>2, <2>3
  <2>5. /\ esp' = Pointer("kernel", t, m) /\ Depth(esp') = m /\ esp'[2] = t
    BY <1>2, <2>2, <2>4, PointerFacts
  <2>6. PICK x : x = SubSeq(stack[t], 1, m) \o <<>>
    OBVIOUS
  <2>7. stack' = [stack EXCEPT ![t] = x]
    BY <1>2, <1>3, <2>5, <2>6 DEF Ret, Push
  <2>8. /\ Sequence(x) /\ Len(x) = m
        /\ \A k \in 1 .. m : x[k] = stack[t][k]
    BY <1>2, <2>2, <2>4, <2>6, Popped, ZenonT(60) DEF InProcessor
  <2>9. stack'[t] = x
    BY <1>2, <2>7 DEF IInv, Machine
  <2>10. x[1] = stack[t][1] /\ (m # 1 => x[2] = stack[t][2])
    BY <2>4, <2>8
  <2>11. /\ regs' = [regs EXCEPT !["eip"] = stack[t][n]]
         /\ regs'["eip"] = stack[t][n]
         /\ regs'["cs"] = regs["cs"] /\ regs'["ss"] = regs["ss"]
         /\ regs' = [r \in Register |-> regs'[r]]
    BY <1>2, <1>3, <2>1 DEF Ret, InProcessor, Register
  <2>12. InProcessor(t)'
    BY <1>2, <1>3, <2>2, <2>4, <2>5, <2>8, <2>9, <2>10, <2>11
    DEF InProcessor, OwnHeight, Context
  <2>13. OwnStep(t, Mine(t), Mine(t)')
    <3>1. stack[t] = Append(x, stack[t][n])
      <4>1. /\ Sequence(stack[t]) /\ Len(stack[t]) = Len(x) + 1
            /\ \A k \in 1 .. Len(x) : stack[t][k] = x[k]
        BY <1>2, <2>2, <2>3, <2>8 DEF InProcessor
      <4> QED BY <2>2, <2>8, <4>1, OneMore
    <3>2. PICK c : c = Mine(t)
      OBVIOUS
    <3>3. PICK d : d = Mine(t)'
      OBVIOUS
    <3>4. c.regs = regs /\ c.esp = esp /\ c.words = stack[t]
      BY <1>3, <3>2 DEF Mine
    <3>5. d.regs = regs' /\ d.esp = Up(esp, -1) /\ d.words = x
      BY <1>2, <1>3, <2>9, <3>3 DEF Mine
    <3>6. /\ c.regs["eip"] # end_task /\ d.esp = Up(c.esp, -1)
          /\ c.words = Append(d.words, d.regs["eip"])
          /\ d.regs = [c.regs EXCEPT !["eip"] = d.regs["eip"]]
      BY <1>2, <2>11, <3>1, <3>4, <3>5
    <3> QED BY <1>3, <3>2, <3>3, <3>6 DEF OwnStep
  <2> QED BY <1>2, <2>7, <2>12, <2>13, OwnStepKeeps DEF Ret
<1>4. CASE t \notin KernelTasks
  <2>1. PICK n : n = Depth(esp)
    OBVIOUS
  <2>2. n \in 0 .. MaxCalls /\ n > 0 /\ esp = Pointer("user", t, n)
    BY <1>2, <1>4, <2>1 DEF InProcessor, Calls
  <2>3. n + -1 \in 0 .. MaxCalls
    BY <1>2, <2>2
  <2>4. esp' = Pointer("user", t, n + -1) /\ Depth(esp') = n + -1
    BY <1>2, <2>2, PointerFacts
  <2>5. regs' = regs /\ stack' = stack /\ stack' = [stack EXCEPT ![t] = stack[t]]
    BY <1>2, <1>4 DEF Ret, IInv, Machine
  <2>6. InProcessor(t)'
    BY <1>2, <1>4, <2>3, <2>4, <2>5 DEF InProcessor, OwnHeight
  <2>7. OwnStep(t, Mine(t), Mine(t)')
    <3>1. PICK c : c = Mine(t)
      OBVIOUS
    <3>2. PICK d : d = Mine(t)'
      OBVIOUS
    <3>3. c.regs = regs /\ c.esp = esp /\ c.words = <<>>
      BY <1>4, <3>1 DEF Mine
    <3>4. d.regs = regs /\ d.esp = Up(esp, -1) /\ d.words = <<>>
      BY <1>2, <1>4, <2>5, <3>2 DEF Mine
    <3>5. regs = [regs EXCEPT !["eip"] = regs["eip"]]
      BY <1>2 DEF InProcessor
    <3>6. /\ c.regs["eip"] # end_task /\ Depth(c.esp) - 0 > 0 /\ d.esp = Up(c.esp, -1)
          /\ c.words = d.words /\ d.regs = c.regs
          /\ d.regs = [c.regs EXCEPT !["eip"] = d.regs["eip"]]
      BY <1>2, <2>1, <2>2, <3>3, <3>4, <3>5
    <3> QED BY <1>4, <3>1, <3>2, <3>6 DEF OwnStep
  <2> QED BY <1>2, <2>5, <2>6, <2>7, OwnStepKeeps DEF Ret
<1> QED
  BY <1>3, <1>4

(* isr_handler leaves all stacks alone, the one to be resumed included.    *)
LEMMA HandlerKeeps ==
  ASSUME IInv, isr_handler
  PROVE  /\ IInv'
         /\ \A u \in Task : ContextOf(u)' = ContextOf(u)
<1>1. /\ mode = "handler" /\ mode' \in {"halted", "return"}
      /\ UNCHANGED <<regs, esp, stack, task_esp, vector, left>>
  BY DEF isr_handler
<1>2. current_task' \in Task /\ esp0' = KernelStack(current_task')
  BY DEF isr_handler, SwitchTo, tss_set_kernel_stack, IInv, Machine
<1>3. ASSUME NEW u \in Task
      PROVE  TaskInv(u)' /\ ContextOf(u)' = ContextOf(u)
  <2>1. ~ Runs(u) /\ ~ Runs(u)' /\ TaskInv(u)
    BY <1>1 DEF IInv, Runs
  <2> QED BY <1>1, <2>1, OtherTask
<1>4. Machine'
  BY <1>1, <1>2 DEF IInv, Machine, HandlerSeesFrame, Pointers, KernelStack
<1> QED
  BY <1>3, <1>4 DEF IInv

(* The resumed task gets the registers that it has been left with, and its *)
(* frame is taken from the stack.                                          *)
LEMMA ResumeRestores ==
  ASSUME IInv, mode # "task", Resume, NEW t, t = current_task
  PROVE  /\ Context' = left[t]
         /\ IInv'
         /\ \A u \in Task : ContextOf(u)' = ContextOf(u)
<1>2. PICK p : p = task_esp[t]
  OBVIOUS
<1>3. PICK c : c = left[t]
  OBVIOUS
<1>4. PICK h : h = SavedHeight(t, c)
  OBVIOUS
<1>5. /\ t \in Task /\ ~ Runs(t) /\ TaskInv(t) /\ MaxCalls \in Nat
      /\ mode' = "task" /\ current_task' = t
  BY TasksAssumption DEF Runs, IInv, Machine, Resume
<1>6. /\ OwnContext(t, c) /\ Sequence(stack[t]) /\ (t \in KernelTasks => Bottom(t, c))
      /\ p = Pointer("kernel", t, h) /\ Len(stack[t]) = h /\ SavedContext(p) = c
  BY <1>2, <1>3, <1>4, <1>5 DEF TaskInv, Now
<1>7. Restores(p, c)
  BY <1>6, RestoresContext
<1>8. /\ c = [regs |-> c.regs, esp |-> c.esp] /\ Frame(p, 15) = c.regs["cs"]
      /\ regs' = c.regs /\ esp' = c.esp
  <2>1. c = [regs |-> [r \in Register |-> c.regs[r]], esp |-> c.esp]
    BY <1>7 DEF Restores
  <2>2. c = [regs |-> c.regs, esp |-> c.esp]
    BY <2>1
  <2> QED BY <1>2, <1>6, <1>7, <2>2 DEF Resume, Restores
<1>9. Context' = c
  BY <1>8 DEF Context
<1>10. PICK n : n = OwnHeight(t, c)
  OBVIOUS
<1>11. /\ n \in 0 .. h /\ n = IF t \in KernelTasks THEN Depth(c.esp) ELSE 0
       /\ Up(p, IF Frame(p, 15) = UserCode THEN -19 ELSE -17) = Pointer("kernel", t, n)
  <2>1. (Frame(p, 15) = UserCode) <=> t \notin KernelTasks
    BY <1>6, <1>8, Rings DEF OwnContext
  <2>2. CASE t \in KernelTasks
    <3>1. PICK d : d = Depth(c.esp)
      OBVIOUS
    <3>2. d \in 1 .. MaxCalls + 2 /\ n = d /\ h = d + 17
      BY <1>4, <1>6, <1>10, <2>2, <3>1 DEF OwnContext, OwnHeight, SavedHeight
    <3>3. h + -17 = n /\ n \in 0 .. h
      BY <1>5, <3>2
    <3> QED BY <1>6, <2>1, <2>2, <3>1, <3>2, <3>3, PointerFacts
  <2>3. CASE t \notin KernelTasks
    <3>1. h = 19 /\ n = 0
      BY <1>4, <1>10, <2>3 DEF OwnHeight, SavedHeight
    <3>2. h + -19 = n /\ n \in 0 .. h
      BY <3>1
    <3> QED BY <1>6, <2>1, <2>3, <3>1, <3>2, PointerFacts
  <2> QED BY <2>2, <2>3
<1>12. PICK x : x = SubSeq(stack[t], 1, n) \o <<>>
  OBVIOUS
<1>13. stack' = [stack EXCEPT ![t] = x]
  <2>1. Push(Up(p, IF Frame(p, 15) = UserCode THEN -19 ELSE -17), <<>>)
    BY <1>2 DEF Resume
  <2>2. PICK q : q = Pointer("kernel", t, n)
    OBVIOUS
  <2>3. Push(q, <<>>)
    BY <1>11, <2>1, <2>2
  <2>4. q[2] = t /\ Depth(q) = n
    BY <2>2, PointerFacts
  <2>5. stack' = [stack EXCEPT ![t] = SubSeq(stack[t], 1, n) \o <<>>]
    BY <1>5, <2>3, <2>4 DEF Push
  <2> QED BY <1>12, <2>5
<1>14. /\ Sequence(x) /\ Len(x) = n
       /\ \A k \in 1 .. n : x[k] = stack[t][k]
  <2>1. Sequence(stack[t]) /\ n \in 0 .. Len(stack[t])
    BY <1>6, <1>11
  <2> QED BY <1>12, <2>1, Popped
<1>15. stack'[t] = x
  BY <1>5, <1>13 DEF IInv, Machine
<1>16. InProcessor(t)'
  <2>1. regs' = [r \in Register |-> regs'[r]]
    BY <1>6, <1>8 DEF OwnContext
  <2>2. Sequence(stack'[t]) /\ Len(stack'[t]) = n
    BY <1>14, <1>15
  <2>3. OwnHeight(t, Context)' = n
    BY <1>9, <1>10 DEF OwnHeight
  <2>4. CASE t \in KernelTasks
    <3>1. n = Depth(c.esp) /\ n \in 1 .. MaxCalls + 2 /\ (n # 1 => 2 \in 1 .. n)
      BY <1>5, <1>6, <1>11, <2>4 DEF OwnContext
    <3>2. x[1] = stack[t][1] /\ (n # 1 => x[2] = stack[t][2])
      BY <1>14, <3>1
    <3> QED BY <1>6, <1>8, <1>15, <2>1, <2>2, <2>3, <2>4, <3>1, <3>2
        DEF InProcessor, OwnContext, Bottom
  <2>5. CASE t \notin KernelTasks
    BY <1>6, <1>8, <2>1, <2>2, <2>3, <2>5 DEF InProcessor, OwnContext
  <2> QED BY <2>4, <2>5
<1>17. UNCHANGED <<task_esp, current_task, esp0, vector, left>>
  BY DEF Resume
<1>18. /\ IInv'
       /\ \A u \in Task : u # t => ContextOf(u)' = ContextOf(u)
  BY <1>5, <1>13, <1>16, <1>17, OwnStepKeeps
<1>19. ContextOf(t)' = ContextOf(t)
  <2>1. ContextOf(t)' = [regs |-> c.regs, esp |-> c.esp,
                         words |-> IF t \in KernelTasks THEN SubSeq(x, 1, Depth(c.esp))
                                                        ELSE <<>>]
    BY <1>5, <1>9, <1>15 DEF ContextOf
  <2>2. ContextOf(t) = [regs |-> c.regs, esp |-> c.esp,
                        words |-> IF t \in KernelTasks
                                  THEN SubSeq(stack[t], 1, Depth(c.esp)) ELSE <<>>]
    BY <1>2, <1>6 DEF ContextOf
  <2>3. t \in KernelTasks => SubSeq(x, 1, n) = SubSeq(stack[t], 1, n)
    <3>1. n \in 0 .. Len(stack[t]) /\ n \in 0 .. Len(x)
      BY <1>6, <1>11, <1>14
    <3> QED BY <1>6, <1>14, <3>1, SameBelow
  <2> QED BY <1>11, <2>1, <2>2, <2>3
<1> QED
  BY <1>3, <1>9, <1>18, <1>19

(* An interrupt saves the context that it finds, on the kernel stack of    *)
(* the task that it finds there.                                           *)
LEMMA EnterSaves ==
  ASSUME IInv, NEW v \in Exceptions \cup {Timer, Key}, Enter(v), NEW t, t = current_task
  PROVE  /\ IInv'
         /\ \A u \in Task : ContextOf(u)' = ContextOf(u)
<1>1. /\ mode = "task" /\ t \in Task /\ Runs(t) /\ InProcessor(t)
      /\ InUserMode <=> t \notin KernelTasks
      /\ OwnHeight(t, Context) = IF t \in KernelTasks THEN Depth(esp) ELSE 0
      /\ MaxCalls \in Nat
  BY Running, TasksAssumption DEF Enter
<1>2. PICK n : n = OwnHeight(t, Context)
  OBVIOUS
<1>3. PICK s : s = stack[t]
  OBVIOUS
<1>4. Sequence(s) /\ Len(s) = n /\ n \in Nat /\ n \in 0 .. n /\ n <= MaxCalls + 2
  <2>1. Sequence(s) /\ Len(s) = n /\ n \in Nat
    BY <1>1, <1>2, <1>3 DEF InProcessor, Sequence
  <2>2. n <= MaxCalls + 2
    BY <1>1, <1>2 DEF InProcessor
  <2> QED BY <2>1, <2>2
<1>5. PICK base : base = IF InUserMode THEN esp0 ELSE esp
  OBVIOUS
<1>6. base = Pointer("kernel", t, n)
  BY <1>1, <1>2, <1>5 DEF InProcessor, IInv, Machine, KernelStack
<1>7. PICK p : p = PushedByProcessor(v) \o PushedByStub(v)
  OBVIOUS
<1>8. PICK m : m = Len(p)
  OBVIOUS
<1>9. /\ Sequence(p) /\ m = (IF t \in KernelTasks THEN 5 ELSE 7)
      /\ p[m] = Vector(v)
      /\ p[m - 2] = regs["eip"] /\ p[m - 3] = regs["cs"] /\ p[m - 4] = regs["eflags"]
      /\ t \notin KernelTasks => p[m - 5] = esp /\ p[m - 6] = regs["ss"]
  BY <1>1, <1>7, <1>8, EntryWords
<1>10. PICK before : before = Up(base, m)
  OBVIOUS
<1>11. PICK q : q = PushedByCommon(before)
  OBVIOUS
<1>12. /\ Sequence(q) /\ Len(q) = 12
       /\ \A r \in DataSegment : q[12 - SegmentPlace[r]] = regs[r]
       /\ \A r \in GeneralRegister : q[12 - GeneralPlace[r]] = regs[r]
  BY <1>11, CommonWords
<1>13. PICK top : top = Up(before, 12)
  OBVIOUS
<1>14. PICK h : h = n + m + 12
  OBVIOUS
<1>15. /\ top = Pointer("kernel", t, h) /\ top[2] = t /\ Depth(top) = h
       /\ h = SavedHeight(t, Context) /\ h \in 17 .. MaxCalls + 21
       /\ EspSlot(top) = n + m + 5
  <2>1. before = Pointer("kernel", t, n + m)
    BY <1>6, <1>10, PointerFacts
  <2>2. top = Pointer("kernel", t, h) /\ top[2] = t /\ Depth(top) = h
    BY <1>13, <1>14, <2>1, PointerFacts
  <2>3. h = SavedHeight(t, Context) /\ h \in 17 .. MaxCalls + 21
    <3>1. CASE t \in KernelTasks
      <4>1. n = Depth(Context.esp)
        BY <1>2, <3>1 DEF OwnHeight
      <4>2. h = n + 17 /\ h \in 17 .. MaxCalls + 21
        BY <1>1, <1>4, <1>9, <1>14, <3>1
      <4> QED BY <3>1, <4>1, <4>2 DEF SavedHeight
    <3>2. CASE t \notin KernelTasks
      <4>1. n = 0
        BY <1>2, <3>2 DEF OwnHeight
      <4>2. h = 19 /\ h \in 17 .. MaxCalls + 21
        BY <1>1, <1>9, <1>14, <3>2, <4>1
      <4> QED BY <3>2, <4>2 DEF SavedHeight
    <3> QED BY <3>1, <3>2
  <2>4. EspSlot(top) = n + m + 5
    <3>1. m \in Nat /\ 28 \div 4 = 7
      BY <1>9
    <3>2. h - 7 = n + m + 5
      BY <1>4, <1>14, <3>1
    <3> QED BY <2>2, <3>1, <3>2 DEF EspSlot
  <2> QED BY <2>2, <2>3, <2>4
<1>16. PICK c : c = SubSeq(s, 1, n)
  OBVIOUS
<1>17. Sequence(c) /\ Len(c) = n /\ \A k \in 1 .. n : c[k] = s[k]
  BY <1>4, <1>16, CutOff
<1>18. PICK w : w = Framed(c, p, q, 5, top)
  OBVIOUS
<1>19. /\ Sequence(w) /\ Len(w) = h
       /\ \A k \in 1 .. n : w[k] = s[k]
       /\ \A k \in 1 .. m : w[n + k] = p[k]
       /\ \A k \in 1 .. 12 : k # 5 => w[n + m + k] = q[k]
  <2>1. 5 \in 1 .. Len(q)
    BY <1>12
  <2>2. /\ Sequence(w) /\ Len(w) = Len(c) + Len(p) + Len(q)
        /\ \A k \in 1 .. Len(c) : w[k] = c[k]
        /\ \A k \in 1 .. Len(p) : w[Len(c) + k] = p[k]
        /\ \A k \in 1 .. Len(q) : k # 5 => w[Len(c) + Len(p) + k] = q[k]
    <3>1. Sequence(c) /\ Sequence(p) /\ Sequence(q)
      BY <1>9, <1>12, <1>17
    <3>2. LaidOut(Framed(c, p, q, 5, top), c, p, q, 5)
      BY <2>1, <3>1, Layout
    <3> QED BY <1>18, <3>2 DEF LaidOut
  <2> QED BY <1>8, <1>12, <1>14, <1>17, <2>2
<1>20. /\ stack' = [stack EXCEPT ![t] = w] /\ stack'[t] = w
       /\ task_esp' = [task_esp EXCEPT ![t] = top] /\ task_esp'[t] = top
       /\ left' = [left EXCEPT ![t] = Context] /\ left'[t] = Context
       /\ esp' = top /\ mode' = "handler" /\ vector' = v
       /\ UNCHANGED <<current_task, esp0>>
  <2>1. base[2] = t /\ Depth(base) = n
    BY <1>6, PointerFacts
  <2>2. w = [SubSeq(stack[base[2]], 1, Depth(base)) \o p \o q
               EXCEPT ![EspSlot(top)] = top]
    <3>1. Len(c) + Len(p) + 5 = EspSlot(top) /\ c = SubSeq(stack[base[2]], 1, Depth(base))
      BY <1>3, <1>8, <1>15, <1>16, <1>17, <2>1
    <3> QED BY <1>18, <3>1 DEF Framed, Replace
  <2>3. /\ stack' = [stack EXCEPT ![base[2]] = w]
        /\ esp' = top
        /\ task_esp' = [task_esp EXCEPT ![current_task] = top]
    BY <1>5, <1>7, <1>8, <1>10, <1>11, <1>13, <2>2 DEF Enter
  <2>4. /\ left' = [left EXCEPT ![t] = Context] /\ mode' = "handler" /\ vector' = v
        /\ UNCHANGED <<current_task, esp0>>
    BY DEF Enter
  <2> QED BY <1>1, <2>1, <2>3, <2>4 DEF IInv, Machine
<1>21. \A k : Frame(top, k)' = w[h - k]
  BY <1>15, <1>20 DEF Frame
<1>22. /\ \A k \in 0 .. 11 : k # 7 => w[h - k] = q[12 - k]
       /\ \A k \in 0 .. m - 1 : w[h - 12 - k] = p[m - k]
  <2>1. m \in Nat
    BY <1>9
  <2>2. ASSUME NEW k \in 0 .. 11, k # 7 PROVE w[h - k] = q[12 - k]
    <3>1. PICK j : j = 12 - k
      OBVIOUS
    <3>2. j \in 1 .. 12 /\ j # 5 /\ n + m + j = h - k
      BY <1>4, <1>14, <2>1, <2>2, <3>1
    <3> QED BY <1>19, <3>1, <3>2
  <2>3. ASSUME NEW k \in 0 .. m - 1 PROVE w[h - 12 - k] = p[m - k]
    <3>1. PICK j : j = m - k
      OBVIOUS
    <3>2. j \in 1 .. m /\ n + j = h - 12 - k
      BY <1>4, <1>14, <2>1, <3>1
    <3> QED BY <1>19, <3>1, <3>2
  <2> QED BY <2>2, <2>3
<1>23. /\ w[h - 12] = Vector(v) /\ w[h - 14] = regs["eip"]
       /\ w[h - 15] = regs["cs"] /\ w[h - 16] = regs["eflags"]
       /\ t \notin KernelTasks => w[h - 17] = esp /\ w[h - 18] = regs["ss"]
  <2>1. /\ 0 \in 0 .. m - 1 /\ 2 \in 0 .. m - 1 /\ 3 \in 0 .. m - 1 /\ 4 \in 0 .. m - 1
        /\ t \notin KernelTasks => 5 \in 0 .. m - 1 /\ 6 \in 0 .. m - 1
        /\ h - 12 - 0 = h - 12 /\ h - 12 - 2 = h - 14 /\ h - 12 - 3 = h - 15
        /\ h - 12 - 4 = h - 16 /\ h - 12 - 5 = h - 17 /\ h - 12 - 6 = h - 18
        /\ m - 0 = m
    BY <1>9, <1>15
  <2>2. /\ w[h - 12] = p[m] /\ w[h - 14] = p[m - 2]
        /\ w[h - 15] = p[m - 3] /\ w[h - 16] = p[m - 4]
    BY <1>22, <2>1
  <2>3. t \notin KernelTasks => w[h - 17] = p[m - 5] /\ w[h - 18] = p[m - 6]
    BY <1>22, <2>1
  <2> QED BY <1>9, <2>2, <2>3
<1>24. PICK x : x = Context
  OBVIOUS
<1>25. x.regs = regs /\ x.esp = esp /\ x = [regs |-> x.regs, esp |-> x.esp]
  BY <1>24 DEF Context
<1>26. Restores(top, x)'
  <2>1. x = [regs |-> [r \in Register |-> x.regs[r]], esp |-> x.esp]
    <3>1. regs = [r \in Register |-> regs[r]]
      BY <1>1 DEF InProcessor
    <3> QED BY <1>25, <3>1
  <2>2. \A r \in GeneralRegister : x.regs[r] = Frame(top, GeneralPlace[r])'
    <3> SUFFICES ASSUME NEW r \in GeneralRegister
                 PROVE  x.regs[r] = w[h - GeneralPlace[r]]
      BY <1>21
    <3>1. GeneralPlace[r] \in 0 .. 11 /\ GeneralPlace[r] # 7
      BY Places
    <3> QED BY <1>12, <1>22, <1>25, <3>1
  <2>3. \A r \in DataSegment : x.regs[r] = Frame(top, SegmentPlace[r])'
    <3> SUFFICES ASSUME NEW r \in DataSegment
                 PROVE  x.regs[r] = w[h - SegmentPlace[r]]
      BY <1>21
    <3>1. SegmentPlace[r] \in 0 .. 11 /\ SegmentPlace[r] # 7
      BY Places
    <3> QED BY <1>12, <1>22, <1>25, <3>1
  <2>4. /\ x.regs["eip"] = Frame(top, 14)' /\ x.regs["cs"] = Frame(top, 15)'
        /\ x.regs["eflags"] = Frame(top, 16)'
    BY <1>21, <1>23, <1>25
  <2>5. CASE t \in KernelTasks
    <3>1. Frame(top, 15)' # UserCode /\ x.regs["ss"] = KernelData
      BY <1>1, <1>21, <1>23, <1>25, <2>5, Rings DEF InProcessor
    <3>2. x.esp = Up(top, -17)
      <4>1. h + -17 = n
        BY <1>4, <1>9, <1>14, <2>5
      <4>2. x.esp = Pointer("kernel", t, n)
        BY <1>1, <1>2, <1>25, <2>5 DEF InProcessor
      <4> QED BY <1>15, <4>1, <4>2, PointerFacts
    <3> QED BY <2>1, <2>2, <2>3, <2>4, <3>1, <3>2 DEF Restores
  <2>6. CASE t \notin KernelTasks
    <3>1. Frame(top, 15)' = UserCode
      BY <1>1, <1>21, <1>23, <2>6 DEF InProcessor
    <3>2. x.regs["ss"] = Frame(top, 18)' /\ x.esp = Frame(top, 17)'
      BY <1>21, <1>23, <1>25, <2>6
    <3> QED BY <2>1, <2>2, <2>3, <2>4, <3>1, <3>2 DEF Restores
  <2> QED BY <2>5, <2>6
<1>27. SavedContext(task_esp[t])' = x
  <2>1. SavedContext(top)' = x
    BY <1>26, RestoresContextNext
  <2> QED BY <1>20, <2>1
<1>28. /\ t \in KernelTasks => n \in 1 .. MaxCalls + 2 /\ (n # 1 => 2 \in 1 .. n)
       /\ n \in 0 .. h
       /\ n = IF t \in KernelTasks THEN Depth(x.esp) ELSE 0
  <2>1. n = IF t \in KernelTasks THEN Depth(x.esp) ELSE 0
    BY <1>1, <1>2, <1>25
  <2>2. t \in KernelTasks => n \in 1 .. MaxCalls + 2
    BY <1>1, <1>2 DEF InProcessor
  <2>3. n \in 1 .. MaxCalls + 2 => (n # 1 => 2 \in 1 .. n)
    BY <1>1
  <2>4. n \in 0 .. h
    BY <1>4, <1>9, <1>14
  <2> QED BY <2>1, <2>2, <2>3, <2>4
<1>29. TaskInv(t)'
  <2>1. ~ Runs(t)' /\ Now(t)' = x
    <3>1. ~ Runs(t)'
      BY <1>20 DEF Runs
    <3> QED BY <1>20, <1>24, <3>1 DEF Now
  <2>2. OwnContext(t, Now(t))'
    <3>1. OwnContext(t, x)
      BY <1>1, <1>25 DEF OwnContext, InProcessor
    <3> QED BY <2>1, <3>1 DEF OwnContext
  <2>3. t \in KernelTasks => Bottom(t, Now(t))'
    <3> SUFFICES ASSUME t \in KernelTasks PROVE Bottom(t, Now(t))'
      OBVIOUS
    <3>1. w[1] = stack[t][1] /\ (n # 1 => w[2] = stack[t][2])
      BY <1>3, <1>19, <1>28
    <3> QED BY <1>1, <1>2, <1>20, <1>25, <2>1, <3>1 DEF Bottom, InProcessor
  <2>4. SavedHeight(t, left[t])' = h
    BY <1>15, <1>20 DEF SavedHeight
  <2>5. Sequence(stack[t])' /\ Len(stack[t])' = h
    BY <1>19, <1>20 DEF Sequence
  <2>6. /\ (task_esp[t])' = Pointer("kernel", t, h)
        /\ SavedContext(task_esp[t])' = (left[t])'
    BY <1>15, <1>20, <1>24, <1>27
  <2> QED BY <2>1, <2>2, <2>3, <2>4, <2>5, <2>6 DEF TaskInv
<1>30. ContextOf(t)' = ContextOf(t)
  <2>1. ContextOf(t)' = [regs |-> x.regs, esp |-> x.esp,
                         words |-> IF t \in KernelTasks THEN SubSeq(w, 1, Depth(x.esp))
                                                        ELSE <<>>]
    <3>1. mode' # "task" /\ stack'[t] = w
      BY <1>20
    <3> QED BY <1>27, <3>1 DEF ContextOf
  <2>2. ContextOf(t) = [regs |-> x.regs, esp |-> x.esp,
                        words |-> IF t \in KernelTasks THEN SubSeq(s, 1, Depth(x.esp))
                                                       ELSE <<>>]
    BY <1>1, <1>3, <1>24 DEF ContextOf, Runs
  <2>3. SubSeq(w, 1, n) = SubSeq(s, 1, n)
    <3>1. n \in 0 .. Len(s) /\ n \in 0 .. Len(w)
      BY <1>4, <1>19, <1>28
    <3> QED BY <1>4, <1>19, <3>1, SameBelow
  <2> QED BY <1>28, <2>1, <2>2, <2>3
<1>31. ASSUME NEW u \in Task
       PROVE  TaskInv(u)' /\ ContextOf(u)' = ContextOf(u)
  <2>1. CASE u = t
    BY <1>29, <1>30, <2>1
  <2>2. CASE u # t
    <3>1. /\ stack'[u] = stack[u] /\ task_esp'[u] = task_esp[u] /\ left'[u] = left[u]
          /\ ~ Runs(u) /\ ~ Runs(u)' /\ TaskInv(u)
      BY <1>20, <2>2 DEF IInv, Machine, Runs
    <3> QED BY <3>1, OtherTask
  <2> QED BY <2>1, <2>2
<1>32. Machine'
  <2>1. top \in Pointers(0 .. MaxCalls + 21) /\ top \in Pointers(17 .. MaxCalls + 21)
    <3>1. h \in 0 .. MaxCalls + 21
      BY <1>15
    <3> QED BY <1>1, <1>15, <3>1 DEF Pointers
  <2>2. task_esp' \in [Task -> Pointers(17 .. MaxCalls + 21)]
    BY <1>20, <2>1 DEF IInv, Machine
  <2>3. stack' = [u \in Task |-> stack'[u]] /\ left' = [u \in Task |-> left'[u]]
    BY <1>20 DEF IInv, Machine
  <2>4. DOMAIN regs' = Register
    BY DEF Enter
  <2>5. HandlerSeesFrame'
    BY <1>20, <1>21, <1>23, <1>24, <1>25 DEF HandlerSeesFrame
  <2> QED BY <1>1, <1>20, <2>1, <2>2, <2>3, <2>4, <2>5
      DEF IInv, Machine, KernelStack, Pointers
<1> QED
  BY <1>31, <1>32 DEF IInv

-----------------------------------------------------------------------------
(* Every step                                                              *)

(* The tasks' contexts, and those of the processors that they seem to have.*)
contexts == [t \in Task |-> ContextOf(t)]

(* A step is nobody's or the step of one task.                             *)
LEMMA NextKeeps ==
  ASSUME IInv, Next
  PROVE  /\ IInv'
         /\ \/ \A u \in Task : ContextOf(u)' = ContextOf(u)
            \/ \E t \in Task : /\ OwnStep(t, ContextOf(t), ContextOf(t)')
                               /\ \A u \in Task : u # t => ContextOf(u)' = ContextOf(u)
<1>1. PICK t : t = current_task
  OBVIOUS
<1>2. ASSUME mode = "task", mode' = "task", current_task' = t, IInv',
             OwnStep(t, Mine(t), Mine(t)'),
             \A u \in Task : u # t => ContextOf(u)' = ContextOf(u)
      PROVE  \E u \in Task : /\ OwnStep(u, ContextOf(u), ContextOf(u)')
                             /\ \A o \in Task : o # u => ContextOf(o)' = ContextOf(o)
  <2>1. t \in Task /\ ContextOf(t) = Mine(t)
    BY <1>1, <1>2, Running, RunningContext
  <2>2. Runs(t)' /\ TaskInv(t)'
    BY <1>2, <2>1 DEF Runs, IInv
  <2>3. ContextOf(t)' = Mine(t)'
    BY <2>1, <2>2, TaskRunsNext, RunningContextNext
  <2>4. OwnStep(t, ContextOf(t), ContextOf(t)')
    BY <1>2, <2>1, <2>3
  <2> QED BY <1>2, <2>1, <2>4
<1>3. CASE resume_new_task \/ isr_return
  BY <1>1, <1>3, ResumeRestores DEF resume_new_task, isr_return
<1>4. ASSUME NEW v \in {1, 2}, Compute(v)
      PROVE  /\ IInv' /\ mode = "task" /\ mode' = "task" /\ current_task' = t
             /\ OwnStep(t, Mine(t), Mine(t)')
             /\ \A u \in Task : u # t => ContextOf(u)' = ContextOf(u)
  <2>1. mode = "task" /\ mode' = "task" /\ current_task' = t
    BY <1>1, <1>4 DEF Compute
  <2> QED BY <1>1, <1>4, <2>1, ComputeKeeps
<1>5. ASSUME Call
      PROVE  /\ IInv' /\ mode = "task" /\ mode' = "task" /\ current_task' = t
             /\ OwnStep(t, Mine(t), Mine(t)')
             /\ \A u \in Task : u # t => ContextOf(u)' = ContextOf(u)
  <2>1. mode = "task" /\ mode' = "task" /\ current_task' = t
    BY <1>1, <1>5 DEF Call
  <2> QED BY <1>1, <1>5, <2>1, CallKeeps
<1>6. ASSUME Ret
      PROVE  /\ IInv' /\ mode = "task" /\ mode' = "task" /\ current_task' = t
             /\ OwnStep(t, Mine(t), Mine(t)')
             /\ \A u \in Task : u # t => ContextOf(u)' = ContextOf(u)
  <2>1. mode = "task" /\ mode' = "task" /\ current_task' = t
    BY <1>1, <1>6 DEF Ret
  <2> QED BY <1>1, <1>6, <2>1, RetKeeps
<1>7. ASSUME NEW v \in Exceptions \cup {Timer, Key}, Enter(v)
      PROVE  IInv' /\ \A u \in Task : ContextOf(u)' = ContextOf(u)
  BY <1>1, <1>7, EnterSaves
<1>8. CASE \E v \in {Timer, Key} : Interrupt(v)
  BY <1>7, <1>8 DEF Interrupt
<1>9. CASE \E v \in Exceptions : Exception(v)
  BY <1>7, <1>9 DEF Exception
<1>10. CASE isr_handler
  BY <1>10, HandlerKeeps
<1>11. CASE (\E v \in {1, 2} : Compute(v)) \/ Call \/ Ret
  BY <1>2, <1>4, <1>5, <1>6, <1>11
<1> QED
  BY <1>3, <1>8, <1>9, <1>10, <1>11 DEF Next

(* The same of a step that changes nothing.                                *)
LEMMA StutterKeeps ==
  ASSUME IInv, UNCHANGED vars
  PROVE  IInv' /\ \A u \in Task : ContextOf(u)' = ContextOf(u)
<1>1. \A p, k : Frame(p, k)' = Frame(p, k)
  BY DEF vars, Frame
<1>2. ASSUME NEW p PROVE SavedContext(p)' = SavedContext(p)
  <2>1. PICK c : c = SavedContext(p)
    OBVIOUS
  <2>2. Restores(p, c)
    BY <2>1, RestoresContext
  <2>3. Restores(p, c)'
    BY <1>1, <2>2 DEF Restores
  <2> QED BY <2>1, <2>3, RestoresContextNext
<1>3. Context' = Context
  BY DEF vars, Context
<1>4. ASSUME NEW u \in Task
      PROVE  TaskInv(u)' /\ ContextOf(u)' = ContextOf(u)
  <2>1. SavedContext(task_esp[u])' = SavedContext(task_esp[u])
    <3>1. PICK p : p = task_esp[u]
      OBVIOUS
    <3>2. (task_esp[u])' = p
      BY <3>1 DEF vars
    <3> QED BY <1>2, <3>1, <3>2
  <2>2. Now(u)' = Now(u) /\ (Runs(u)' <=> Runs(u))
    BY <1>3 DEF vars, Now, Runs
  <2>3. TaskInv(u)
    BY DEF IInv
  <2>4. TaskInv(u)'
    BY <1>3, <2>1, <2>2, <2>3
    DEF vars, TaskInv, Bottom, OwnContext, OwnHeight, SavedHeight
  <2>5. ContextOf(u)' = ContextOf(u)
    BY <1>3, <2>1 DEF vars, ContextOf
  <2> QED BY <2>4, <2>5
<1>5. Machine'
  BY <1>1 DEF vars, IInv, Machine, HandlerSeesFrame, Pointers, KernelStack
<1> QED
  BY <1>4, <1>5 DEF IInv

(* Every step keeps the invariant,                                         *)
LEMMA NextIInv == IInv /\ [Next]_vars => IInv'
  BY NextKeeps, StutterKeeps

(* so it holds in every state.                                             *)
LEMMA Invariance == Spec => []IInv
  BY InitIInv, NextIInv, PTL DEF Spec

-----------------------------------------------------------------------------
(* What it shows                                                           *)

(* The variables keep their types: no stack grows higher than its task's   *)
(* own words and one frame on top of them.                                 *)
THEOREM TypeCorrect == Spec => []TypeOK
<1>1. IInv => TypeOK
  <2> SUFFICES ASSUME IInv PROVE TypeOK
    OBVIOUS
  <2>1. esp0 \in Pointers({0})
    BY DEF IInv, Machine, Pointers, KernelStack
  <2>2. ASSUME NEW t \in Task PROVE Len(stack[t]) <= MaxCalls + 21
    <3>1. MaxCalls \in Nat
      BY TasksAssumption
    <3>2. TaskInv(t)
      BY DEF IInv
    <3>3. OwnContext(t, Now(t)) /\ Sequence(stack[t])
      BY <3>2 DEF TaskInv
    <3>4. CASE t \in KernelTasks
      <4>1. PICK d : d = Depth(Now(t).esp)
        OBVIOUS
      <4>2. d \in 1 .. MaxCalls + 2
        BY <3>3, <3>4, <4>1 DEF OwnContext
      <4>3. PICK h : h = Len(stack[t])
        OBVIOUS
      <4>4. h = d \/ h = d + 17
        BY <3>2, <3>4, <4>1, <4>3 DEF TaskInv, Now, OwnHeight, SavedHeight
      <4>5. h \in Nat /\ h <= MaxCalls + 21
        BY <3>1, <4>2, <4>4
      <4> QED BY <3>1, <4>3, <4>5
    <3>5. CASE t \notin KernelTasks
      <4>1. PICK h : h = Len(stack[t])
        OBVIOUS
      <4>2. h = 0 \/ h = 19
        BY <3>2, <3>5, <4>1 DEF TaskInv, OwnHeight, SavedHeight
      <4>3. h \in Nat /\ h <= MaxCalls + 21
        BY <3>1, <4>2
      <4> QED BY <3>1, <4>1, <4>3
    <3> QED BY <3>4, <3>5
  <2> QED BY <2>1, <2>2 DEF IInv, Machine, TypeOK
<1> QED
  BY <1>1, Invariance, PTL

(* The frame of a task that does not run lies on its own kernel stack, on  *)
(* top of nothing but the words it had there itself, for any number of     *)
(* tasks and however they interrupt one another.                           *)
THEOREM FramesOnOwnStacks == Spec => []FrameOnOwnStack
<1>1. IInv => FrameOnOwnStack
  <2> SUFFICES ASSUME IInv, NEW t \in Task, mode # "task" \/ t # current_task
               PROVE  /\ task_esp[t] = IF t \in KernelTasks THEN Up(left[t].esp, 17)
                                                           ELSE Up(KernelStack(t), 19)
                      /\ Len(stack[t]) = Depth(task_esp[t])
    BY DEF FrameOnOwnStack
  <2>1. ~ Runs(t) /\ TaskInv(t)
    BY DEF IInv, Runs
  <2>2. /\ task_esp[t] = Pointer("kernel", t, SavedHeight(t, left[t]))
        /\ Len(stack[t]) = SavedHeight(t, left[t])
        /\ OwnContext(t, left[t])
    BY <2>1 DEF TaskInv, Now
  <2>3. Len(stack[t]) = Depth(task_esp[t])
    BY <2>2, PointerFacts
  <2>4. CASE t \in KernelTasks
    BY <2>2, <2>3, <2>4, PointerFacts DEF OwnContext, SavedHeight
  <2>5. CASE t \notin KernelTasks
    <3>1. Up(KernelStack(t), 19) = Pointer("kernel", t, 19)
      BY PointerFacts DEF KernelStack
    <3> QED BY <2>2, <2>3, <2>5, <3>1 DEF SavedHeight
  <2> QED BY <2>4, <2>5
<1> QED
  BY <1>1, Invariance, PTL

(* A kernel task that returns from its entry point goes to end_task, and   *)
(* the argument that it was created with stays in place.                   *)
THEOREM ReturnsToEndTask == Spec => []EntryReturnsToEndTask
<1>1. IInv => EntryReturnsToEndTask
  <2> SUFFICES ASSUME IInv, NEW t \in KernelTasks
               PROVE  LET now == IF mode = "task" /\ t = current_task THEN Context
                                                                      ELSE left[t]
                      IN /\ Depth(now.esp) >= 1 /\ stack[t][1] = <<t>>
                         /\ IF Depth(now.esp) = 1 THEN now.regs["eip"] = end_task
                                                  ELSE stack[t][2] = end_task
    BY DEF EntryReturnsToEndTask
  <2>1. PICK now : now = Now(t)
    OBVIOUS
  <2>2. OwnContext(t, now) /\ Bottom(t, now)
    BY <2>1 DEF IInv, TaskInv, Task
  <2>3. Depth(now.esp) \in 1 .. MaxCalls + 2
    BY <2>2 DEF OwnContext
  <2>4. Depth(now.esp) >= 1
    BY <2>3, TasksAssumption
  <2> QED BY <2>1, <2>2, <2>4 DEF Now, Runs, Bottom
<1> QED
  BY <1>1, Invariance, PTL

(* The handler of any interrupt or exception finds its vector and the      *)
(* interrupted instruction at their places, error code or not.             *)
THEOREM FrameForHandler == Spec => []HandlerSeesFrame
<1>1. IInv => HandlerSeesFrame
  BY DEF IInv, Machine
<1> QED
  BY <1>1, Invariance, PTL

(* A task goes on with every register and its stack pointer as they were   *)
(* when it was interrupted, whichever tasks have run in the meantime.      *)
THEOREM Resumes == Spec => ResumesAsLeft
<1>1. IInv /\ [Next]_vars =>
        [mode # "task" /\ mode' = "task" => Context' = left[current_task]]_vars
  <2> SUFFICES ASSUME IInv, Next, mode # "task", mode' = "task"
               PROVE  Context' = left[current_task]
    OBVIOUS
  <2>1. Resume
    BY DEF Next, resume_new_task, isr_return, Compute, Call, Ret, Interrupt, Exception,
           Enter, isr_handler
  <2> QED BY <2>1, ResumeRestores
<1> QED
  BY <1>1, Invariance, PTL DEF Spec, ResumesAsLeft

(* Every task starts in the context that it was created for.               *)
LEMMA ContextsStart == Init => \A t \in Task : ContextOf(t) = StartOf(t)
<1> SUFFICES ASSUME Init, NEW t \in Task PROVE ContextOf(t) = StartOf(t)
  OBVIOUS
<1>1. PICK c : c = StartContext(t)
  OBVIOUS
<1>2. SavedContext(task_esp[t]) = c
  <2>1. left[t] = c /\ ~ Runs(t)
    BY <1>1 DEF Init, Runs
  <2> QED BY <2>1, InitIInv DEF IInv, TaskInv
<1>3. ContextOf(t) = [regs |-> c.regs, esp |-> c.esp,
                      words |-> IF t \in KernelTasks
                                THEN SubSeq(stack[t], 1, Depth(c.esp)) ELSE <<>>]
  BY <1>2 DEF Init, ContextOf
<1>4. ASSUME t \in KernelTasks
      PROVE  SubSeq(stack[t], 1, Depth(c.esp)) = <<<<t>>, end_task>>
  <2>1. PICK s : s = stack[t]
    OBVIOUS
  <2>2. PICK w : w = <<<<t>>, end_task>>
    OBVIOUS
  <2>3. Depth(c.esp) = 2
    BY <1>1, <1>4, StartPointer, PointerFacts
  <2>4. Sequence(s) /\ Len(s) = 19 /\ s[1] = <<t>> /\ s[2] = end_task
    <3>1. s = IF t \in KernelTasks THEN create_task(t) ELSE create_user_task(t)
      BY <2>1 DEF Init
    <3> QED BY <1>4, <3>1, CreatedStack
  <2>5. Sequence(SubSeq(s, 1, 2)) /\ Len(SubSeq(s, 1, 2)) = 2
        /\ \A k \in 1 .. 2 : SubSeq(s, 1, 2)[k] = s[k]
    <3>1. 2 \in 0 .. Len(s)
      BY <2>4
    <3> QED BY <2>4, <3>1, CutOff
  <2>6. SubSeq(s, 1, 2) = [k \in 1 .. 2 |-> s[k]]
    BY <2>5 DEF Sequence
  <2>7. w = [k \in 1 .. 2 |-> s[k]]
    BY <2>2, <2>4
  <2> QED BY <2>1, <2>2, <2>3, <2>6, <2>7
<1> QED
  BY <1>1, <1>3, <1>4 DEF StartOf

(* The tasks run as if each had a processor of its own: what one of them   *)
(* finds in its registers and on its stack changes by its own              *)
(* instructions only, however the interrupts fall.                         *)
THEOREM ImplementsOwnProcessors == Spec => OwnProcessorSpec
<1>1. Init => Machines!Init
  BY ContextsStart DEF Machines!Init
<1>2. ASSUME \A u \in Task : ContextOf(u)' = ContextOf(u)
      PROVE  UNCHANGED contexts
  BY <1>2 DEF contexts
<1>3. ASSUME NEW t \in Task, OwnStep(t, ContextOf(t), ContextOf(t)'),
             \A u \in Task : u # t => ContextOf(u)' = ContextOf(u)
      PROVE  Machines!Next
  <2>1. PICK now : now = [u \in Task |-> ContextOf(u)]
    OBVIOUS
  <2>2. PICK next : next = [u \in Task |-> ContextOf(u)']
    OBVIOUS
  <2>3. now[t] = ContextOf(t) /\ next[t] = ContextOf(t)'
    BY <2>1, <2>2
  <2>4. next = [now EXCEPT ![t] = next[t]]
    BY <1>3, <2>1, <2>2
  <2>5. OwnStep(t, now[t], next[t])
    BY <1>3, <2>3
  <2>6. \E u \in Task : OwnStep(u, now[u], next[u]) /\ next = [now EXCEPT ![u] = next[u]]
    BY <2>4, <2>5
  <2> QED BY <2>1, <2>2, <2>6 DEF Machines!Next, Machines!Own
<1>4. IInv /\ [Next]_vars => [Machines!Next]_contexts
  BY <1>2, <1>3, NextKeeps, StutterKeeps
<1> QED
  BY <1>1, <1>4, Invariance, PTL
  DEF Spec, OwnProcessorSpec, Machines!Spec, contexts
=============================================================================
