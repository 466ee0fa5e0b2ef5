--------------------------- MODULE InterruptsProofs -------------------------
(***************************************************************************)
(* A line's handler runs for that line and no other, and no line is left   *)
(* in service, wherever the linker puts the stubs and the TSS and whatever *)
(* lines have devices.                                                     *)
(*                                                                         *)
(* The first half of the module is arithmetic: the 32-bit address that     *)
(* idt_set cuts into two bit-fields is the one that the processor puts     *)
(* together from the gate (GateReadsBack), and so are the base and the     *)
(* limit that gdt_init cuts into five (CodeReadsBack, DataReadsBack,       *)
(* TssReadsBack). The second half is the inductive invariant: which        *)
(* tables, masks and handlers are set at each stage of kmain, and that an  *)
(* acknowledged line is ended before its handler runs.                     *)
(***************************************************************************)
EXTENDS Interrupts, TLAPS

-----------------------------------------------------------------------------
(* Bits and numbers                                                        *)

(* Division with a remainder,                                              *)
LEMMA Divided ==
  ASSUME NEW n \in Nat, NEW m \in Nat \ {0}
  PROVE  /\ n \div m \in Nat /\ n % m \in 0 .. m - 1 
         /\ n = m * (n \div m) + (n % m)
OBVIOUS

(* of which there is only one.                                             *)
LEMMA Unique ==
  ASSUME NEW n \in Nat, NEW m \in Nat \ {0}, NEW q \in Nat, NEW r \in 0 .. m - 1,
         n = m * q + r
  PROVE  n % m = r /\ n \div m = q
OBVIOUS

(* One more bit of a number.                                               *)
LEMMA NextBit ==
  ASSUME NEW n \in Nat, NEW m \in Nat \ {0}
  PROVE  n % (2 * m) = (n % m) + ((n \div m) % 2) * m
<1> DEFINE q == n \div m
           r == n % m
           h == q \div 2
           b == q % 2
<1>1. q \in Nat /\ r \in 0 .. m - 1 /\ n = m * q + r
  BY Divided
<1>2. h \in Nat /\ b \in {0, 1} /\ q = 2 * h + b
  BY <1>1
<1> HIDE DEF q, r, h, b
<1>5. PICK mm \in Nat \ {0} : mm = 2 * m
  OBVIOUS
<1>6. n = mm * h + (b * m + r)
  <2>1. m * (2 * h) = mm * h
    BY <1>5, <1>2
  <2>2. m * q = m * (2 * h) + m * b
    BY <1>2
  <2>3. m * b = b * m
    BY <1>2
  <2> QED BY <1>1, <2>1, <2>2, <2>3, <1>2
<1>7. b * m + r \in 0 .. mm - 1
  <2>1. b * m = 0 \/ b * m = m
    BY <1>2
  <2> QED BY <1>5, <1>2, <1>1, <2>1
<1>8. n % mm = b * m + r
  BY Unique, <1>6, <1>7, <1>2
<1> QED BY <1>8, <1>5, <1>1, <1>2 DEF b, q, r

(* The powers of two that the fields need, each from the one before.       *)
LEMMA PowerOfTwo ==
  ASSUME NEW k \in 0 .. 24
  PROVE  /\ 2 ^ k \in Nat \ {0}
         /\ k # 0 => 2 ^ k = 2 * 2 ^ (k - 1)
<1> DEFINE P(i) == 2 ^ i \in Nat \ {0} /\ (i # 0 => 2 ^ i = 2 * 2 ^ (i - 1))
<1>1. P(0) /\ P(1) /\ P(2) /\ P(3) /\ P(4) /\ P(5) /\ P(6) /\ P(7) /\ P(8)
  OBVIOUS
<1>2. P(9) /\ P(10) /\ P(11) /\ P(12) /\ P(13) /\ P(14) /\ P(15) /\ P(16)
  OBVIOUS
<1>3. P(17) /\ P(18) /\ P(19) /\ P(20) /\ P(21) /\ P(22) /\ P(23) /\ P(24)
  OBVIOUS
<1>4. \/ k = 0 \/ k = 1 \/ k = 2 \/ k = 3 \/ k = 4 \/ k = 5 \/ k = 6 \/ k = 7
      \/ k = 8 \/ k = 9 \/ k = 10 \/ k = 11 \/ k = 12 \/ k = 13 \/ k = 14
      \/ k = 15 \/ k = 16 \/ k = 17 \/ k = 18 \/ k = 19 \/ k = 20 \/ k = 21
      \/ k = 22 \/ k = 23 \/ k = 24
  OBVIOUS
<1> HIDE DEF P
<1>5. P(k)
  BY <1>1, <1>2, <1>3, <1>4
<1> QED
  BY <1>5 DEF P

(* A power of two, split in two.                                           *)
LEMMA PowersAdd ==
  ASSUME NEW i \in 0 .. 24, NEW j \in 0 .. 24, i + j <= 24
  PROVE  2 ^ (i + j) = 2 ^ i * 2 ^ j
<1> DEFINE P(n) == i + n <= 24 => 2 ^ (i + n) = 2 ^ i * 2 ^ n
<1>1. P(0)
  <2>1. 2 ^ 0 = 1 /\ i + 0 = i
    OBVIOUS
  <2>2. 2 ^ i \in Nat
    BY PowerOfTwo
  <2> QED BY <2>1, <2>2
<1>2. \A n \in 1 .. 24 : P(n - 1) => P(n)
  <2> SUFFICES ASSUME NEW n \in 1 .. 24, P(n - 1), i + n <= 24
               PROVE  2 ^ (i + n) = 2 ^ i * 2 ^ n
    OBVIOUS
  <2>1. PICK k \in 0 .. 24 : k = i + n
    OBVIOUS
  <2>2. k # 0 /\ k - 1 = i + (n - 1) /\ n # 0 /\ n \in 0 .. 24 /\ n - 1 \in 0 .. 24
        /\ i + (n - 1) <= 24
    BY <2>1
  <2>3. /\ 2 ^ k = 2 * 2 ^ (k - 1)
        /\ 2 ^ n = 2 * 2 ^ (n - 1)
        /\ 2 ^ i \in Nat /\ 2 ^ (n - 1) \in Nat
    BY <2>2, PowerOfTwo
  <2>4. 2 ^ (k - 1) = 2 ^ i * 2 ^ (n - 1)
    BY <2>2
  <2>5. \A a, b \in Nat : 2 * (a * b) = a * (2 * b)
    OBVIOUS
  <2>6. 2 * (2 ^ i * 2 ^ (n - 1)) = 2 ^ i * (2 * 2 ^ (n - 1))
    BY <2>3, <2>5
  <2> QED BY <2>1, <2>3, <2>4, <2>6
<1> HIDE DEF P
<1>3. P(0) /\ P(1) /\ P(2) /\ P(3) /\ P(4) /\ P(5) /\ P(6) /\ P(7) /\ P(8)
  BY <1>1, <1>2
<1>4. P(9) /\ P(10) /\ P(11) /\ P(12) /\ P(13) /\ P(14) /\ P(15) /\ P(16)
  BY <1>3, <1>2
<1>5. P(17) /\ P(18) /\ P(19) /\ P(20) /\ P(21) /\ P(22) /\ P(23) /\ P(24)
  BY <1>4, <1>2
<1>6. \/ j = 0 \/ j = 1 \/ j = 2 \/ j = 3 \/ j = 4 \/ j = 5 \/ j = 6 \/ j = 7
      \/ j = 8 \/ j = 9 \/ j = 10 \/ j = 11 \/ j = 12 \/ j = 13 \/ j = 14
      \/ j = 15 \/ j = 16 \/ j = 17 \/ j = 18 \/ j = 19 \/ j = 20 \/ j = 21
      \/ j = 22 \/ j = 23 \/ j = 24
  OBVIOUS
<1>7. P(j)
  BY <1>3, <1>4, <1>5, <1>6
<1> QED
  BY <1>7 DEF P

(* The bits below a field's end are those of the remainder,                *)
LEMMA LowBit ==
  ASSUME NEW n \in Nat, NEW p \in Nat \ {0}, NEW e \in Nat \ {0}
  PROVE  ((n % (p * (2 * e))) \div p) % 2 = (n \div p) % 2
<1>1. PICK m \in Nat \ {0} : m = p * (2 * e)
  OBVIOUS
<1> DEFINE q == n \div m
           r == n % m
           s == r \div p
           t == r % p
<1>2. q \in Nat /\ r \in Nat /\ n = m * q + r
  BY Divided
<1>3. s \in Nat /\ t \in 0 .. p - 1 /\ r = p * s + t
  BY <1>2, Divided
<1> HIDE DEF q, r, s, t
<1>4. PICK x \in Nat : x = 2 * (e * q) + s
  BY <1>2, <1>3
<1>5. n = p * x + t
  <2>1. m * q = p * (2 * (e * q))
    BY <1>1, <1>2
  <2>2. p * x = p * (2 * (e * q)) + p * s
    BY <1>2, <1>3, <1>4
  <2> QED BY <1>2, <1>3, <2>1, <2>2
<1>6. n \div p = x
  BY <1>3, <1>5, Unique
<1>7. x % 2 = s % 2
  <2>1. PICK y \in Nat : y = e * q
    BY <1>2
  <2>2. \A i, j \in Nat : (2 * i + j) % 2 = j % 2
    OBVIOUS
  <2> QED BY <1>3, <1>4, <2>1, <2>2
<1> QED
  BY <1>1, <1>6, <1>7 DEF r, s

(* and those above it are those of the quotient.                           *)
LEMMA DividedTwice ==
  ASSUME NEW n \in Nat, NEW m \in Nat \ {0}, NEW p \in Nat \ {0}
  PROVE  (n \div m) \div p = n \div (m * p)
<1> DEFINE q == n \div m
           r == n % m
           s == q \div p
           t == q % p
<1>1. q \in Nat /\ r \in 0 .. m - 1 /\ n = m * q + r
  BY Divided
<1>2. s \in Nat /\ t \in 0 .. p - 1 /\ q = p * s + t
  BY <1>1, Divided
<1> HIDE DEF q, r, s, t
<1>3. PICK k \in Nat \ {0} : k = m * p
  OBVIOUS
<1>4. PICK u \in Nat : u = m * t + r
  BY <1>1, <1>2
<1>5. n = k * s + u
  <2>1. m * q = m * (p * s) + m * t
    BY <1>2
  <2>2. k * s = m * (p * s)
    BY <1>2, <1>3
  <2>3. m * (p * s) \in Nat /\ m * t \in Nat
    BY <1>2
  <2>4. n = (m * (p * s) + m * t) + r
    BY <1>1, <2>1
  <2> QED BY <1>1, <1>4, <2>2, <2>3, <2>4
<1>6. u \in 0 .. k - 1
  <2>1. PICK v \in Nat : v = p - 1 - t
    BY <1>2
  <2>2. m * p = m * t + m * v + m
    BY <1>2, <2>1
  <2>3. m * v \in Nat /\ m * t \in Nat
    BY <1>2, <2>1
  <2> QED BY <1>1, <1>3, <1>4, <2>2, <2>3
<1>7. n \div k = s
  BY <1>2, <1>5, <1>6, Unique
<1> QED
  BY <1>3, <1>7 DEF s, q
(* f holds the numbers in the first bits of a field.                       *)
AddsUp(f, d, first, width) ==
  f = [k \in 0 .. width |->
         IF k = 0 THEN 0 ELSE f[k - 1] + d[first + k - 1] * 2 ^ (k - 1)]

(* The recursive function of Numbers, given some function that adds up.    *)
LEMMA NumbersAddUp ==
  ASSUME NEW d, NEW first, NEW width, NEW g, AddsUp(g, d, first, width)
  PROVE  AddsUp(Numbers(d, first, width), d, first, width)
<1>1. Numbers(d, first, width) = CHOOSE f : AddsUp(f, d, first, width)
  BY DEF Numbers, AddsUp
<1> QED
  BY <1>1

(* A field holds the bits of a number.                                     *)
HoldsNumber(d, first, width, n) ==
  \A b \in 0 .. width - 1 : d[first + b] = (n \div 2 ^ b) % 2

(* A field that holds the bits of a number is read as that number, less    *)
(* what does not fit.                                                      *)
LEMMA FieldReadsBack ==
  ASSUME NEW n \in Nat, NEW width \in 0 .. 24, NEW first \in Nat, NEW d,
         HoldsNumber(d, first, width, n)
  PROVE  Number(d, first, width) = n % 2 ^ width
<1> DEFINE g == [k \in 0 .. width |-> n % 2 ^ k]
           N == Numbers(d, first, width)
           A(k) == k <= width => N[k] = n % 2 ^ k
<1>1. \A k \in 1 .. width :
        n % 2 ^ k = (n % 2 ^ (k - 1)) + d[first + k - 1] * 2 ^ (k - 1)
  <2> SUFFICES ASSUME NEW k \in 1 .. width
               PROVE  n % 2 ^ k = (n % 2 ^ (k - 1)) + d[first + k - 1] * 2 ^ (k - 1)
    OBVIOUS
  <2>1. 2 ^ (k - 1) \in Nat \ {0} /\ 2 ^ k = 2 * 2 ^ (k - 1)
    <3>1. k \in 0 .. 24 /\ k - 1 \in 0 .. 24 /\ k # 0
      OBVIOUS
    <3> QED BY <3>1, PowerOfTwo
  <2>2. first + k - 1 = first + (k - 1) /\ k - 1 \in 0 .. width - 1
    OBVIOUS
  <2>3. d[first + k - 1] = (n \div 2 ^ (k - 1)) % 2
    BY <2>2 DEF HoldsNumber
  <2> QED
    BY <2>1, <2>3, NextBit
<1>2. /\ N = [k \in 0 .. width |->
                IF k = 0 THEN 0 ELSE N[k - 1] + d[first + k - 1] * 2 ^ (k - 1)]
      /\ n % 2 ^ 0 = 0
  <2>1. n % 2 ^ 0 = 0
    <3>1. 2 ^ 0 = 1
      OBVIOUS
    <3> QED BY <3>1
  <2>2. AddsUp(g, d, first, width)
    <3>1. \A k \in 0 .. width : k # 0 => k \in 1 .. width /\ k - 1 \in 0 .. width
      OBVIOUS
    <3> QED BY <1>1, <2>1, <3>1 DEF AddsUp
  <2> HIDE DEF g
  <2>3. AddsUp(N, d, first, width)
    BY <2>2, NumbersAddUp
  <2> QED
    BY <2>1, <2>3 DEF AddsUp
<1> HIDE DEF N
<1>3. \A k \in 1 .. 24 : A(k - 1) => A(k)
  <2> SUFFICES ASSUME NEW k \in 1 .. 24, A(k - 1), k <= width
               PROVE  N[k] = n % 2 ^ k
    OBVIOUS
  <2>1. k \in 1 .. width /\ k \in 0 .. width /\ k # 0
    OBVIOUS
  <2> QED
    BY <1>1, <1>2, <2>1
<1>4. A(0)
  BY <1>2
<1> HIDE DEF A
<1>5. A(0) /\ A(1) /\ A(2) /\ A(3) /\ A(4) /\ A(5) /\ A(6) /\ A(7) /\ A(8)
  BY <1>3, <1>4
<1>6. A(9) /\ A(10) /\ A(11) /\ A(12) /\ A(13) /\ A(14) /\ A(15) /\ A(16)
  BY <1>3, <1>5
<1>7. A(17) /\ A(18) /\ A(19) /\ A(20) /\ A(21) /\ A(22) /\ A(23) /\ A(24)
  BY <1>3, <1>6
<1>8. A(width)
  <2>1. \/ width = 0 \/ width = 1 \/ width = 2 \/ width = 3 \/ width = 4
        \/ width = 5 \/ width = 6 \/ width = 7 \/ width = 8 \/ width = 9
        \/ width = 10 \/ width = 11 \/ width = 12 \/ width = 13 \/ width = 14
        \/ width = 15 \/ width = 16 \/ width = 17 \/ width = 18 \/ width = 19
        \/ width = 20 \/ width = 21 \/ width = 22 \/ width = 23 \/ width = 24
    OBVIOUS
  <2> QED BY <1>5, <1>6, <1>7, <2>1
<1> QED
  BY <1>8 DEF A, N, Number

(* What idt_set assigns.                                                   *)
GateValues(h) ==
  [segment_sel |-> 8, offset_lo |-> h % 2 ^ 16, offset_hi |-> h \div 2 ^ 16,
   gate_type |-> INTERRUPT_GATE_32, dpl |-> 0, present |-> 1]

(* The fields assigned to that a bit belongs to.                           *)
Holding(layout, values, b) ==
  {f \in DOMAIN values : /\ b >= layout[f].first
                         /\ b < layout[f].first + layout[f].width}

(* A bit that belongs to one field is that field's.                        *)
LEMMA AssignedBit ==
  ASSUME NEW layout, NEW values, NEW b \in Bits
  PROVE  /\ Holding(layout, values, b) = {} => Assigned(layout, values)[b] = 0
         /\ \A f : Holding(layout, values, b) = {f} =>
              Assigned(layout, values)[b]
                = (values[f] \div 2 ^ (b - layout[f].first)) % 2
  BY DEF Assigned, Holding

(* No two fields of a gate overlap.                                        *)
LEMMA GateField ==
  ASSUME NEW h, NEW b \in Bits
  PROVE  /\ b \in 0 .. 15 => Holding(gate_desc_t, GateValues(h), b) = {"offset_lo"}
         /\ b \in 16 .. 31 => Holding(gate_desc_t, GateValues(h), b) = {"segment_sel"}
         /\ b \in 32 .. 39 => Holding(gate_desc_t, GateValues(h), b) = {}
         /\ b \in 40 .. 44 => Holding(gate_desc_t, GateValues(h), b) = {"gate_type"}
         /\ b \in 47 .. 47 => Holding(gate_desc_t, GateValues(h), b) = {"present"}
         /\ b \in 48 .. 63 => Holding(gate_desc_t, GateValues(h), b) = {"offset_hi"}
<1>1. DOMAIN GateValues(h) = {"segment_sel", "offset_lo", "offset_hi", "gate_type",
                              "dpl", "present"}
  BY DEF GateValues
<1>2. /\ gate_desc_t["offset_lo"].first = 0 /\ gate_desc_t["offset_lo"].width = 16
      /\ gate_desc_t["segment_sel"].first = 16 /\ gate_desc_t["segment_sel"].width = 16
      /\ gate_desc_t["gate_type"].first = 40 /\ gate_desc_t["gate_type"].width = 5
      /\ gate_desc_t["dpl"].first = 45 /\ gate_desc_t["dpl"].width = 2
      /\ gate_desc_t["present"].first = 47 /\ gate_desc_t["present"].width = 1
      /\ gate_desc_t["offset_hi"].first = 48 /\ gate_desc_t["offset_hi"].width = 16
  BY DEF gate_desc_t, Field
<1> DEFINE H == Holding(gate_desc_t, GateValues(h), b)
<1>3. b \in Int
  BY DEF Bits
<1>4. /\ "offset_lo" \in H <=> b \in 0 .. 15
      /\ "segment_sel" \in H <=> b \in 16 .. 31
      /\ "gate_type" \in H <=> b \in 40 .. 44
      /\ "dpl" \in H <=> b \in 45 .. 46
      /\ "present" \in H <=> b \in 47 .. 47
      /\ "offset_hi" \in H <=> b \in 48 .. 63
      /\ H \subseteq {"segment_sel", "offset_lo", "offset_hi", "gate_type",
                      "dpl", "present"}
  BY <1>1, <1>2, <1>3 DEF Holding
<1> HIDE DEF H
<1>5. ASSUME b \in 0 .. 15 PROVE H = {"offset_lo"}
  <2>1. b \notin 16 .. 31 /\ b \notin 40 .. 44 /\ b \notin 45 .. 46 /\ b \notin 47 .. 47
        /\ b \notin 48 .. 63
    BY <1>5
  <2> QED BY <1>4, <1>5, <2>1
<1>6. ASSUME b \in 16 .. 31 PROVE H = {"segment_sel"}
  <2>1. b \notin 0 .. 15 /\ b \notin 40 .. 44 /\ b \notin 45 .. 46 /\ b \notin 47 .. 47
        /\ b \notin 48 .. 63
    BY <1>6
  <2> QED BY <1>4, <1>6, <2>1
<1>7. ASSUME b \in 32 .. 39 PROVE H = {}
  <2>1. b \notin 0 .. 15 /\ b \notin 16 .. 31 /\ b \notin 40 .. 44 /\ b \notin 45 .. 46
        /\ b \notin 47 .. 47 /\ b \notin 48 .. 63
    BY <1>7
  <2> QED BY <1>4, <2>1
<1>8. ASSUME b \in 40 .. 44 PROVE H = {"gate_type"}
  <2>1. b \notin 0 .. 15 /\ b \notin 16 .. 31 /\ b \notin 45 .. 46 /\ b \notin 47 .. 47
        /\ b \notin 48 .. 63
    BY <1>8
  <2> QED BY <1>4, <1>8, <2>1
<1>9. ASSUME b \in 47 .. 47 PROVE H = {"present"}
  <2>1. b \notin 0 .. 15 /\ b \notin 16 .. 31 /\ b \notin 40 .. 44 /\ b \notin 45 .. 46
        /\ b \notin 48 .. 63
    BY <1>9
  <2> QED BY <1>4, <1>9, <2>1
<1>10. ASSUME b \in 48 .. 63 PROVE H = {"offset_hi"}
  <2>1. b \notin 0 .. 15 /\ b \notin 16 .. 31 /\ b \notin 40 .. 44 /\ b \notin 45 .. 46
        /\ b \notin 47 .. 47
    BY <1>10
  <2> QED BY <1>4, <1>10, <2>1
<1> QED
  BY <1>5, <1>6, <1>7, <1>8, <1>9, <1>10 DEF H

(* A gate bit by bit.                                                      *)
LEMMA GateBit ==
  ASSUME NEW h, NEW b \in Bits
  PROVE  /\ b \in 0 .. 15 =>
              idt_set(h)[b] = ((h % 2 ^ 16) \div 2 ^ (b - 0)) % 2
         /\ b \in 16 .. 31 => idt_set(h)[b] = (8 \div 2 ^ (b - 16)) % 2
         /\ b \in 32 .. 39 => idt_set(h)[b] = 0
         /\ b \in 40 .. 44 => idt_set(h)[b] = (14 \div 2 ^ (b - 40)) % 2
         /\ b \in 47 .. 47 => idt_set(h)[b] = (1 \div 2 ^ (b - 47)) % 2
         /\ b \in 48 .. 63 =>
              idt_set(h)[b] = ((h \div 2 ^ 16) \div 2 ^ (b - 48)) % 2
<1> DEFINE g == GateValues(h)
<1>1. /\ idt_set(h) = Assigned(gate_desc_t, g)
      /\ g["offset_lo"] = h % 2 ^ 16
      /\ g["offset_hi"] = h \div 2 ^ 16
      /\ g["segment_sel"] = 8
      /\ g["gate_type"] = 14
      /\ g["present"] = 1
  BY DEF idt_set, GateValues, INTERRUPT_GATE_32
<1>2. /\ gate_desc_t["offset_lo"].first = 0
      /\ gate_desc_t["segment_sel"].first = 16
      /\ gate_desc_t["gate_type"].first = 40
      /\ gate_desc_t["present"].first = 47
      /\ gate_desc_t["offset_hi"].first = 48
  BY DEF gate_desc_t, Field
<1>3. /\ b \in 0 .. 15 => Holding(gate_desc_t, g, b) = {"offset_lo"}
      /\ b \in 16 .. 31 => Holding(gate_desc_t, g, b) = {"segment_sel"}
      /\ b \in 32 .. 39 => Holding(gate_desc_t, g, b) = {}
      /\ b \in 40 .. 44 => Holding(gate_desc_t, g, b) = {"gate_type"}
      /\ b \in 47 .. 47 => Holding(gate_desc_t, g, b) = {"present"}
      /\ b \in 48 .. 63 => Holding(gate_desc_t, g, b) = {"offset_hi"}
  BY GateField
<1> HIDE DEF g
<1>4. /\ Holding(gate_desc_t, g, b) = {} => Assigned(gate_desc_t, g)[b] = 0
      /\ \A f : Holding(gate_desc_t, g, b) = {f} =>
           Assigned(gate_desc_t, g)[b]
             = (g[f] \div 2 ^ (b - gate_desc_t[f].first)) % 2
  BY AssignedBit
<1>5. b \in 0 .. 15 => idt_set(h)[b] = ((h % 2 ^ 16) \div 2 ^ (b - 0)) % 2
  <2>1. Assigned(gate_desc_t, g)[b]
          = (g["offset_lo"] \div 2 ^ (b - gate_desc_t["offset_lo"].first)) % 2
        \/ b \notin 0 .. 15
    BY <1>3, <1>4
  <2> QED BY <2>1, <1>1, <1>2
<1>6. b \in 16 .. 31 => idt_set(h)[b] = (8 \div 2 ^ (b - 16)) % 2
  <2>1. Assigned(gate_desc_t, g)[b]
          = (g["segment_sel"] \div 2 ^ (b - gate_desc_t["segment_sel"].first)) % 2
        \/ b \notin 16 .. 31
    BY <1>3, <1>4
  <2> QED BY <2>1, <1>1, <1>2
<1>7. b \in 32 .. 39 => idt_set(h)[b] = 0
  BY <1>1, <1>3, <1>4
<1>8. b \in 40 .. 44 => idt_set(h)[b] = (14 \div 2 ^ (b - 40)) % 2
  <2>1. Assigned(gate_desc_t, g)[b]
          = (g["gate_type"] \div 2 ^ (b - gate_desc_t["gate_type"].first)) % 2
        \/ b \notin 40 .. 44
    BY <1>3, <1>4
  <2> QED BY <2>1, <1>1, <1>2
<1>9. b \in 47 .. 47 => idt_set(h)[b] = (1 \div 2 ^ (b - 47)) % 2
  <2>1. Assigned(gate_desc_t, g)[b]
          = (g["present"] \div 2 ^ (b - gate_desc_t["present"].first)) % 2
        \/ b \notin 47 .. 47
    BY <1>3, <1>4
  <2> QED BY <2>1, <1>1, <1>2
<1>10. b \in 48 .. 63 => idt_set(h)[b] = ((h \div 2 ^ 16) \div 2 ^ (b - 48)) % 2
  <2>1. Assigned(gate_desc_t, g)[b]
          = (g["offset_hi"] \div 2 ^ (b - gate_desc_t["offset_hi"].first)) % 2
        \/ b \notin 48 .. 63
    BY <1>3, <1>4
  <2> QED BY <2>1, <1>1, <1>2
<1> QED
  BY <1>5, <1>6, <1>7, <1>8, <1>9, <1>10

(* The two halves of an address.                                           *)
LEMMA Halves ==
  ASSUME NEW h \in Nat, NEW m \in Nat \ {0}, h \div m < m
  PROVE  /\ h % m \in Nat /\ h \div m \in Nat
         /\ (h % m) % m = h % m
         /\ (h \div m) % m = h \div m
         /\ h = (h % m) + (h \div m) * m
<1>1. /\ h \div m \in Nat /\ h % m \in 0 .. m - 1
      /\ h = m * (h \div m) + (h % m)
  BY Divided
<1>2. \A n \in 0 .. m - 1 : n % m = n
  OBVIOUS
<1>3. h \div m \in 0 .. m - 1
  BY <1>1
<1>4. m * (h \div m) = (h \div m) * m
  BY <1>1
<1> QED
  BY <1>1, <1>2, <1>3, <1>4

(* The processor finds in a gate what idt_set was given: the whole address, *)
(* the kernel's code segment, and that interrupts are to be disabled.      *)
THEOREM GateReadsBack ==
  ASSUME NEW h \in Nat, h \div 2 ^ 16 < 2 ^ 16
  PROVE  /\ GateOffset(idt_set(h)) = h
         /\ GateSelector(idt_set(h)) = 8
         /\ IsInterruptGate(idt_set(h))
<1> DEFINE d == idt_set(h)
<1> HIDE DEF d
<1>3. HoldsNumber(d, 0, 16, h % 2 ^ 16)
  <2> SUFFICES ASSUME NEW b \in 0 .. 16 - 1
               PROVE  d[0 + b] = ((h % 2 ^ 16) \div 2 ^ b) % 2
    BY DEF HoldsNumber
  <2>1. b \in Bits /\ b \in 0 .. 15 /\ b - 0 = b /\ 0 + b = b
    BY DEF Bits
  <2>2. d[b] = ((h % 2 ^ 16) \div 2 ^ (b - 0)) % 2
    BY <2>1, GateBit DEF d
  <2> QED BY <2>1, <2>2
<1>4. HoldsNumber(d, 48, 16, h \div 2 ^ 16)
  <2> SUFFICES ASSUME NEW b \in 0 .. 16 - 1
               PROVE  d[48 + b] = ((h \div 2 ^ 16) \div 2 ^ b) % 2
    BY DEF HoldsNumber
  <2>1. PICK c \in Bits : c = 48 + b /\ c \in 48 .. 63 /\ c - 48 = b
    BY DEF Bits
  <2>2. d[c] = ((h \div 2 ^ 16) \div 2 ^ (c - 48)) % 2
    BY <2>1, GateBit, ZenonT(60) DEF d
  <2> QED BY <2>1, <2>2
<1>5. HoldsNumber(d, 16, 16, 8)
  <2> SUFFICES ASSUME NEW b \in 0 .. 16 - 1
               PROVE  d[16 + b] = (8 \div 2 ^ b) % 2
    BY DEF HoldsNumber
  <2>1. 16 + b \in Bits /\ 16 + b \in 16 .. 31 /\ (16 + b) - 16 = b
    BY DEF Bits
  <2>2. d[16 + b] = (8 \div 2 ^ ((16 + b) - 16)) % 2
    BY <2>1, GateBit DEF d
  <2> QED BY <2>1, <2>2
<1>6. HoldsNumber(d, 32, 13, 3584)
  <2>1. /\ 2 ^ 0 = 1 /\ 2 ^ 1 = 2 /\ 2 ^ 2 = 4 /\ 2 ^ 3 = 8 /\ 2 ^ 4 = 16
        /\ 2 ^ 5 = 32 /\ 2 ^ 6 = 64 /\ 2 ^ 7 = 128 /\ 2 ^ 8 = 256 /\ 2 ^ 9 = 512
        /\ 2 ^ 10 = 1024 /\ 2 ^ 11 = 2048 /\ 2 ^ 12 = 4096
    OBVIOUS
  <2>2. /\ d[32] = 0 /\ d[33] = 0 /\ d[34] = 0 /\ d[35] = 0 /\ d[36] = 0
        /\ d[37] = 0 /\ d[38] = 0 /\ d[39] = 0
    BY GateBit DEF d, Bits
  <2>3. d[40] = 0 /\ d[41] = 1 /\ d[42] = 1 /\ d[43] = 1 /\ d[44] = 0
    <3>1. /\ d[40] = (14 \div 2 ^ (40 - 40)) % 2
          /\ d[41] = (14 \div 2 ^ (41 - 40)) % 2
          /\ d[42] = (14 \div 2 ^ (42 - 40)) % 2
          /\ d[43] = (14 \div 2 ^ (43 - 40)) % 2
          /\ d[44] = (14 \div 2 ^ (44 - 40)) % 2
      BY GateBit DEF d, Bits
    <3> QED BY <3>1, <2>1
  <2>4. /\ (3584 \div 1) % 2 = 0 /\ (3584 \div 2) % 2 = 0 /\ (3584 \div 4) % 2 = 0
        /\ (3584 \div 8) % 2 = 0 /\ (3584 \div 16) % 2 = 0
        /\ (3584 \div 32) % 2 = 0 /\ (3584 \div 64) % 2 = 0
        /\ (3584 \div 128) % 2 = 0 /\ (3584 \div 256) % 2 = 0
        /\ (3584 \div 512) % 2 = 1 /\ (3584 \div 1024) % 2 = 1
        /\ (3584 \div 2048) % 2 = 1 /\ (3584 \div 4096) % 2 = 0
    OBVIOUS
  <2> DEFINE B(b) == d[32 + b] = (3584 \div 2 ^ b) % 2
  <2>5. B(0) /\ B(1) /\ B(2) /\ B(3) /\ B(4) /\ B(5) /\ B(6)
    BY <2>1, <2>2, <2>4
  <2>6. B(7) /\ B(8) /\ B(9) /\ B(10) /\ B(11) /\ B(12)
    BY <2>1, <2>2, <2>3, <2>4
  <2> HIDE DEF B
  <2>7. \A b \in 0 .. 13 - 1 : B(b)
    <3> TAKE b \in 0 .. 13 - 1
    <3>1. \/ b = 0 \/ b = 1 \/ b = 2 \/ b = 3 \/ b = 4 \/ b = 5 \/ b = 6 \/ b = 7
          \/ b = 8 \/ b = 9 \/ b = 10 \/ b = 11 \/ b = 12
      OBVIOUS
    <3> QED BY <3>1, <2>5, <2>6
  <2> QED BY <2>7 DEF B, HoldsNumber
<1>7. d[47] = 1
  <2>1. 47 \in Bits /\ 47 \in 47 .. 47
    BY DEF Bits
  <2>2. 47 - 47 = 0 /\ (1 \div 2 ^ 0) % 2 = 1
    OBVIOUS
  <2>3. d[47] = (1 \div 2 ^ (47 - 47)) % 2
    BY <2>1, GateBit, ZenonT(60) DEF d
  <2> QED BY <2>2, <2>3
<1>8. 2 ^ 16 \in Nat \ {0}
  BY PowerOfTwo
<1>9. 16 \in 0 .. 24 /\ 13 \in 0 .. 24 /\ 0 \in Nat /\ 48 \in Nat /\ 16 \in Nat
      /\ 32 \in Nat /\ 8 \in Nat /\ 3584 \in Nat
  OBVIOUS
<1>10. /\ h % 2 ^ 16 \in Nat /\ h \div 2 ^ 16 \in Nat
       /\ (h % 2 ^ 16) % 2 ^ 16 = h % 2 ^ 16
       /\ (h \div 2 ^ 16) % 2 ^ 16 = h \div 2 ^ 16
       /\ h = (h % 2 ^ 16) + (h \div 2 ^ 16) * 2 ^ 16
  BY <1>8, Halves
<1>11. Number(d, 0, 16) = h % 2 ^ 16
  <2>1. Number(d, 0, 16) = (h % 2 ^ 16) % 2 ^ 16
    BY <1>3, <1>9, <1>10, FieldReadsBack
  <2> QED BY <2>1, <1>10
<1>12. Number(d, 48, 16) = h \div 2 ^ 16
  <2>1. Number(d, 48, 16) = (h \div 2 ^ 16) % 2 ^ 16
    BY <1>4, <1>9, <1>10, FieldReadsBack
  <2> QED BY <2>1, <1>10
<1>15. Number(d, 16, 16) = 8
  <2>1. Number(d, 16, 16) = 8 % 2 ^ 16
    BY <1>5, <1>9, FieldReadsBack
  <2> QED BY <2>1
<1>16. Number(d, 32, 13) = 3584
  <2>1. Number(d, 32, 13) = 3584 % 2 ^ 13
    BY <1>6, <1>9, FieldReadsBack
  <2> QED BY <2>1
<1>17. GateOffset(d) = h
  BY <1>10, <1>11, <1>12 DEF GateOffset
<1>18. GateSelector(d) = 8
  BY <1>15 DEF GateSelector
<1>19. IsInterruptGate(d)
  <2>1. 14 * 2 ^ 8 = 3584
    OBVIOUS
  <2> QED BY <1>7, <1>16, <2>1 DEF IsInterruptGate, Present, INTERRUPT_GATE_32
<1> QED
  BY <1>17, <1>18, <1>19 DEF d

-----------------------------------------------------------------------------
(* The segments                                                            *)

(* A field that no other field overlaps holds the number assigned to it.   *)
LEMMA FieldHolds ==
  ASSUME NEW layout, NEW values, NEW f \in DOMAIN values,
         NEW first \in Nat, NEW width \in Nat, first + width <= 64,
         layout[f].first = first, layout[f].width = width,
         \A g \in DOMAIN values \ {f} :
           /\ layout[g].first \in Nat /\ layout[g].width \in Nat
           /\ \/ layout[g].first + layout[g].width <= first
              \/ first + width <= layout[g].first
  PROVE  HoldsNumber(Assigned(layout, values), first, width, values[f])
<1> SUFFICES ASSUME NEW b \in 0 .. width - 1
             PROVE  Assigned(layout, values)[first + b] = (values[f] \div 2 ^ b) % 2
  BY DEF HoldsNumber
<1>1. PICK c \in Bits : c = first + b /\ c - first = b /\ c >= first /\ c < first + width
  BY DEF Bits
<1>2. f \in Holding(layout, values, c)
  BY <1>1 DEF Holding
<1>3. \A g \in DOMAIN values \ {f} : g \notin Holding(layout, values, c)
  BY <1>1 DEF Holding, Bits
<1>4. Holding(layout, values, c) = {f}
  BY <1>2, <1>3 DEF Holding
<1>5. Assigned(layout, values)[c] = (values[f] \div 2 ^ (c - layout[f].first)) % 2
  BY <1>4, AssignedBit
<1> QED
  BY <1>1, <1>5

(* A bit that no field assigned to has is 0.                               *)
LEMMA UnassignedBit ==
  ASSUME NEW layout, NEW values, NEW b \in Bits,
         \A g \in DOMAIN values :
           /\ layout[g].first \in Nat /\ layout[g].width \in Nat
           /\ layout[g].first + layout[g].width <= b \/ b < layout[g].first
  PROVE  Assigned(layout, values)[b] = 0
<1>1. Holding(layout, values, b) = {}
  BY DEF Holding, Bits
<1> QED
  BY <1>1, AssignedBit

(* The fields that gdt.c assigns to in every segment,                      *)
AddressFields ==
  {"base_addr_lo16", "base_addr_md8", "base_addr_hi8", "limit_lo16", "limit_hi4"}

(* in one for code,                                                        *)
CodeFields ==
  {"code_or_data", "code_seg", "code_readable", "dpl", "seg_32b", "granularity",
   "present"}

(* in one for data                                                         *)
DataFields ==
  {"code_or_data", "code_seg", "data_writable", "dpl", "seg_32b", "granularity",
   "present"}

(* and in the TSS's.                                                       *)
TssFields == {"code_or_data", "sys_type", "dpl", "present"}

(* The first bits and the widths of the fields of a segment.               *)
First(f) == seg_desc_t[f].first
Width(f) == seg_desc_t[f].width

(* Where they are.                                                         *)
LEMMA SegmentPlaces ==
  /\ First("limit_lo16") = 0 /\ Width("limit_lo16") = 16
  /\ First("base_addr_lo16") = 16 /\ Width("base_addr_lo16") = 16
  /\ First("base_addr_md8") = 32 /\ Width("base_addr_md8") = 8
  /\ First("sys_type") = 40 /\ Width("sys_type") = 4
  /\ First("code_readable") = 41 /\ Width("code_readable") = 1
  /\ First("data_writable") = 41 /\ Width("data_writable") = 1
  /\ First("code_seg") = 43 /\ Width("code_seg") = 1
  /\ First("code_or_data") = 44 /\ Width("code_or_data") = 1
  /\ First("dpl") = 45 /\ Width("dpl") = 2
  /\ First("present") = 47 /\ Width("present") = 1
  /\ First("limit_hi4") = 48 /\ Width("limit_hi4") = 4
  /\ First("seg_32b") = 54 /\ Width("seg_32b") = 1
  /\ First("granularity") = 55 /\ Width("granularity") = 1
  /\ First("base_addr_hi8") = 56 /\ Width("base_addr_hi8") = 8
  BY DEF First, Width, seg_desc_t, Field

(* Fields that do not overlap.                                             *)
Apart(f, g) == First(f) + Width(f) <= First(g) \/ First(g) + Width(g) <= First(f)

(* The fields assigned to do not, whatever the kind of segment.            *)
LEMMA SegmentFieldsApart ==
  ASSUME NEW kind \in {CodeFields, DataFields, TssFields}
  PROVE  /\ \A f \in AddressFields \cup kind :
              First(f) \in Nat /\ Width(f) \in Nat /\ First(f) + Width(f) <= 64
         /\ \A f, g \in AddressFields \cup kind : f # g => Apart(f, g)
<1>1. \A f \in AddressFields \cup CodeFields \cup DataFields \cup TssFields :
        First(f) \in Nat /\ Width(f) \in Nat /\ First(f) + Width(f) <= 64
  BY SegmentPlaces DEF AddressFields, CodeFields, DataFields, TssFields
<1>2. CASE kind = CodeFields
  <2>1. \A f, g \in AddressFields \cup CodeFields : f # g => Apart(f, g)
    BY SegmentPlaces DEF AddressFields, CodeFields, Apart
  <2> QED BY <1>1, <1>2, <2>1
<1>3. CASE kind = DataFields
  <2>1. \A f, g \in AddressFields \cup DataFields : f # g => Apart(f, g)
    BY SegmentPlaces DEF AddressFields, DataFields, Apart
  <2> QED BY <1>1, <1>3, <2>1
<1>4. CASE kind = TssFields
  <2>1. \A f, g \in AddressFields \cup TssFields : f # g => Apart(f, g)
    BY SegmentPlaces DEF AddressFields, TssFields, Apart
  <2> QED BY <1>1, <1>4, <2>1
<1> QED
  BY <1>2, <1>3, <1>4

(* So each holds what is assigned to it.                                   *)
LEMMA SegmentHolds ==
  ASSUME NEW kind \in {CodeFields, DataFields, TssFields},
         NEW values, DOMAIN values = AddressFields \cup kind,
         NEW f \in AddressFields \cup kind
  PROVE  HoldsNumber(Assigned(seg_desc_t, values), First(f), Width(f), values[f])
<1>1. /\ \A g \in AddressFields \cup kind :
           First(g) \in Nat /\ Width(g) \in Nat /\ First(g) + Width(g) <= 64
      /\ \A g \in AddressFields \cup kind : f # g => Apart(f, g)
  BY SegmentFieldsApart
<1>2. \A g : seg_desc_t[g].first = First(g) /\ seg_desc_t[g].width = Width(g)
  BY DEF First, Width
<1>3. \A g \in DOMAIN values \ {f} :
        /\ First(g) \in Nat /\ Width(g) \in Nat
        /\ First(g) + Width(g) <= First(f) \/ First(f) + Width(f) <= First(g)
  BY <1>1 DEF Apart
<1>4. \A g \in DOMAIN values \ {f} :
        /\ seg_desc_t[g].first \in Nat /\ seg_desc_t[g].width \in Nat
        /\ \/ seg_desc_t[g].first + seg_desc_t[g].width <= First(f)
           \/ First(f) + Width(f) <= seg_desc_t[g].first
  BY <1>2, <1>3
<1>5. f \in DOMAIN values /\ First(f) \in Nat /\ Width(f) \in Nat
      /\ First(f) + Width(f) <= 64
  BY <1>1
<1> QED
  BY <1>2, <1>4, <1>5, FieldHolds

(* The bits of an address and of a limit in a descriptor.                  *)
HoldsAddressAndLimit(d, a, l) ==
  /\ HoldsNumber(d, 16, 16, a % 2 ^ 16)
  /\ HoldsNumber(d, 32, 8, (a \div 2 ^ 16) % 2 ^ 8)
  /\ HoldsNumber(d, 56, 8, (a \div 2 ^ 24) % 2 ^ 8)
  /\ HoldsNumber(d, 0, 16, l % 2 ^ 16)
  /\ HoldsNumber(d, 48, 4, (l \div 2 ^ 16) % 2 ^ 4)

(* The lower and the middle part of an address lie next to each other.     *)
LEMMA AddressBits ==
  ASSUME NEW d, NEW a \in Nat,
         HoldsNumber(d, 16, 16, a % 2 ^ 16),
         HoldsNumber(d, 32, 8, (a \div 2 ^ 16) % 2 ^ 8)
  PROVE  HoldsNumber(d, 16, 24, a)
<1> SUFFICES ASSUME NEW b \in 0 .. 24 - 1
             PROVE  d[16 + b] = (a \div 2 ^ b) % 2
  BY DEF HoldsNumber
<1>1. CASE b < 16
  <2>1. d[16 + b] = ((a % 2 ^ 16) \div 2 ^ b) % 2
    <3>1. b \in 0 .. 16 - 1
      BY <1>1
    <3> QED BY <3>1 DEF HoldsNumber
  <2>2. PICK c \in 0 .. 15 : c = 15 - b
    BY <1>1
  <2>3. 2 ^ b \in Nat \ {0} /\ 2 ^ c \in Nat \ {0}
    <3>1. b \in 0 .. 24 /\ c \in 0 .. 24
      OBVIOUS
    <3> QED BY <3>1, PowerOfTwo
  <2>4. 2 ^ 16 = 2 ^ b * (2 * 2 ^ c)
    <3>1. PICK k \in 0 .. 24 : k = 16 - b /\ k # 0 /\ k - 1 = c /\ b + k = 16
                               /\ b + k <= 24 /\ b \in 0 .. 24
      BY <1>1, <2>2
    <3>2. 2 ^ k = 2 * 2 ^ c
      BY <3>1, PowerOfTwo
    <3>3. 2 ^ (b + k) = 2 ^ b * 2 ^ k
      BY <3>1, PowersAdd
    <3> QED BY <3>1, <3>2, <3>3
  <2>5. ((a % (2 ^ b * (2 * 2 ^ c))) \div 2 ^ b) % 2 = (a \div 2 ^ b) % 2
    BY <2>3, LowBit
  <2> QED BY <2>1, <2>4, <2>5
<1>2. CASE ~ (b < 16)
  <2>1. PICK c \in 0 .. 8 - 1 : b = 16 + c /\ 32 + c = 16 + b
    BY <1>2
  <2>2. d[32 + c] = (((a \div 2 ^ 16) % 2 ^ 8) \div 2 ^ c) % 2
    BY DEF HoldsNumber
  <2>3. PICK e \in 0 .. 7 : e = 7 - c
    BY <2>1
  <2>4. 2 ^ c \in Nat \ {0} /\ 2 ^ e \in Nat \ {0} /\ 2 ^ 16 \in Nat \ {0}
    <3>1. c \in 0 .. 24 /\ e \in 0 .. 24 /\ 16 \in 0 .. 24
      OBVIOUS
    <3> QED BY <3>1, PowerOfTwo
  <2>5. 2 ^ 8 = 2 ^ c * (2 * 2 ^ e)
    <3>1. PICK k \in 0 .. 24 : k = 8 - c /\ k # 0 /\ k - 1 = e /\ c + k = 8
                               /\ c + k <= 24 /\ c \in 0 .. 24
      BY <2>1, <2>3
    <3>2. 2 ^ k = 2 * 2 ^ e
      BY <3>1, PowerOfTwo
    <3>3. 2 ^ (c + k) = 2 ^ c * 2 ^ k
      BY <3>1, PowersAdd
    <3> QED BY <3>1, <3>2, <3>3
  <2>6. PICK q \in Nat : q = a \div 2 ^ 16
    BY <2>4, Divided
  <2>7. ((q % (2 ^ c * (2 * 2 ^ e))) \div 2 ^ c) % 2 = (q \div 2 ^ c) % 2
    BY <2>4, LowBit
  <2>8. (a \div 2 ^ 16) \div 2 ^ c = a \div (2 ^ 16 * 2 ^ c)
    BY <2>4, DividedTwice
  <2>9. 2 ^ b = 2 ^ 16 * 2 ^ c
    <3>1. 16 \in 0 .. 24 /\ c \in 0 .. 24 /\ 16 + c <= 24
      OBVIOUS
    <3> QED BY <2>1, <3>1, PowersAdd
  <2> QED BY <2>1, <2>2, <2>5, <2>6, <2>7, <2>8, <2>9
<1> QED
  BY <1>1, <1>2

(* The processor puts an address below 2^24 and a limit together again.    *)
LEMMA AddressAndLimitReadBack ==
  ASSUME NEW d, NEW a \in Nat, NEW l \in Nat, a < 2 ^ 24, l < 2 ^ 20,
         HoldsAddressAndLimit(d, a, l)
  PROVE  Base(d) = a /\ Limit(d) = l
<1>1. /\ 2 ^ 4 = 16 /\ 2 ^ 8 = 256 /\ 2 ^ 16 = 65536 /\ 2 ^ 20 = 1048576
      /\ 2 ^ 24 = 16777216
  OBVIOUS
<1>2. /\ 16 \in Nat /\ 56 \in Nat /\ 0 \in Nat /\ 48 \in Nat
      /\ 24 \in 0 .. 24 /\ 8 \in 0 .. 24 /\ 16 \in 0 .. 24 /\ 4 \in 0 .. 24
  OBVIOUS
<1>3. Number(d, 16, 24) = a
  <2>1. HoldsNumber(d, 16, 24, a)
    BY AddressBits DEF HoldsAddressAndLimit
  <2>2. Number(d, 16, 24) = a % 2 ^ 24
    BY <1>2, <2>1, FieldReadsBack
  <2>3. a < 16777216
    BY <1>1
  <2>4. a % 16777216 = a
    BY <2>3
  <2> QED BY <1>1, <2>2, <2>4
<1>4. Number(d, 56, 8) = 0
  <2>1. a < 16777216
    BY <1>1
  <2>2. (a \div 16777216) % 256 = 0
    BY <2>1
  <2>3. HoldsNumber(d, 56, 8, 0)
    BY <1>1, <2>2 DEF HoldsAddressAndLimit
  <2>4. Number(d, 56, 8) = 0 % 2 ^ 8
    BY <1>2, <2>3, FieldReadsBack
  <2> QED BY <1>1, <2>4
<1>5. PICK lo \in Nat : lo = l % 65536 /\ lo % 65536 = lo
  OBVIOUS
<1>6. PICK hi \in Nat : hi = (l \div 65536) % 16 /\ hi % 16 = hi
                        /\ l = lo + hi * 65536
  <2>1. l < 1048576
    BY <1>1
  <2> QED BY <1>5, <2>1
<1>7. Number(d, 0, 16) = lo
  <2>1. HoldsNumber(d, 0, 16, lo)
    BY <1>1, <1>5 DEF HoldsAddressAndLimit
  <2>2. Number(d, 0, 16) = lo % 2 ^ 16
    BY <1>2, <2>1, FieldReadsBack
  <2> QED BY <1>1, <1>5, <2>2
<1>8. Number(d, 48, 4) = hi
  <2>1. HoldsNumber(d, 48, 4, hi)
    BY <1>1, <1>6 DEF HoldsAddressAndLimit
  <2>2. Number(d, 48, 4) = hi % 2 ^ 4
    BY <1>2, <2>1, FieldReadsBack
  <2> QED BY <1>1, <1>6, <2>2
<1>9. Base(d) = a
  BY <1>1, <1>3, <1>4 DEF Base
<1>10. Limit(d) = l
  BY <1>1, <1>6, <1>7, <1>8 DEF Limit
<1> QED
  BY <1>9, <1>10

(* What a descriptor of gdt.c holds, in the fields of its kind w.          *)
LEMMA SegmentParts ==
  ASSUME NEW kind \in {CodeFields, DataFields, TssFields}, NEW a, NEW l,
         NEW w, DOMAIN w = kind,
         NEW d, d = Assigned(seg_desc_t, Both(AddressAndLimit(a, l), w))
  PROVE  /\ HoldsAddressAndLimit(d, a, l)
         /\ \A f \in kind : HoldsNumber(d, First(f), Width(f), w[f])
<1> DEFINE v == Both(AddressAndLimit(a, l), w)
           A == AddressAndLimit(a, l)
<1>1. /\ DOMAIN A = AddressFields
      /\ A["base_addr_lo16"] = a % 2 ^ 16
      /\ A["base_addr_md8"] = (a \div 2 ^ 16) % 2 ^ 8
      /\ A["base_addr_hi8"] = (a \div 2 ^ 24) % 2 ^ 8
      /\ A["limit_lo16"] = l % 2 ^ 16
      /\ A["limit_hi4"] = (l \div 2 ^ 16) % 2 ^ 4
  BY DEF AddressAndLimit, AddressFields
<1> HIDE DEF A
<1>2. \A f \in kind : f \notin AddressFields
  BY DEF AddressFields, CodeFields, DataFields, TssFields
<1>3. /\ DOMAIN v = AddressFields \cup kind
      /\ \A f \in AddressFields : v[f] = A[f]
      /\ \A f \in kind : v[f] = w[f]
  BY <1>1, <1>2 DEF Both, A
<1>4. d = Assigned(seg_desc_t, v)
  OBVIOUS
<1> HIDE DEF v
<1>5. \A f \in AddressFields \cup kind : HoldsNumber(d, First(f), Width(f), v[f])
  BY <1>3, <1>4, SegmentHolds
<1>6. \A f \in kind : HoldsNumber(d, First(f), Width(f), w[f])
  BY <1>3, <1>5
<1>7. \A f \in AddressFields : HoldsNumber(d, First(f), Width(f), A[f])
  BY <1>3, <1>5
<1>8. /\ HoldsNumber(d, 16, 16, a % 2 ^ 16)
      /\ HoldsNumber(d, 32, 8, (a \div 2 ^ 16) % 2 ^ 8)
      /\ HoldsNumber(d, 56, 8, (a \div 2 ^ 24) % 2 ^ 8)
      /\ HoldsNumber(d, 0, 16, l % 2 ^ 16)
      /\ HoldsNumber(d, 48, 4, (l \div 2 ^ 16) % 2 ^ 4)
  <2>1. /\ "base_addr_lo16" \in AddressFields /\ "base_addr_md8" \in AddressFields
        /\ "base_addr_hi8" \in AddressFields /\ "limit_lo16" \in AddressFields
        /\ "limit_hi4" \in AddressFields
    BY DEF AddressFields
  <2> QED BY <1>1, <1>7, <2>1, SegmentPlaces
<1> QED
  BY <1>6, <1>8 DEF HoldsAddressAndLimit

(* The bits 42 and 53 of a segment for code or data are not assigned to.   *)
LEMMA ZeroBits ==
  ASSUME NEW kind \in {CodeFields, DataFields}, NEW a, NEW l,
         NEW w, DOMAIN w = kind,
         NEW d, d = Assigned(seg_desc_t, Both(AddressAndLimit(a, l), w))
  PROVE  d[42] = 0 /\ d[53] = 0
<1> DEFINE v == Both(AddressAndLimit(a, l), w)
<1>1. DOMAIN v = AddressFields \cup kind
  BY DEF Both, AddressAndLimit, AddressFields
<1> HIDE DEF v
<1>2. \A g \in AddressFields \cup kind :
        /\ First(g) \in Nat /\ Width(g) \in Nat
        /\ First(g) + Width(g) <= 42 \/ 42 < First(g)
        /\ First(g) + Width(g) <= 53 \/ 53 < First(g)
  BY SegmentPlaces DEF AddressFields, CodeFields, DataFields
<1>3. \A g \in DOMAIN v :
        /\ seg_desc_t[g].first \in Nat /\ seg_desc_t[g].width \in Nat
        /\ seg_desc_t[g].first + seg_desc_t[g].width <= 42 \/ 42 < seg_desc_t[g].first
        /\ seg_desc_t[g].first + seg_desc_t[g].width <= 53 \/ 53 < seg_desc_t[g].first
  BY <1>1, <1>2 DEF First, Width
<1>4. 42 \in Bits /\ 53 \in Bits
  BY DEF Bits
<1>5. Assigned(seg_desc_t, v)[42] = 0
  BY <1>3, <1>4, UnassignedBit
<1>6. Assigned(seg_desc_t, v)[53] = 0
  BY <1>3, <1>4, UnassignedBit
<1> QED
  BY <1>5, <1>6 DEF v

(* Fields of one bit,                                                      *)
LEMMA OneBit ==
  ASSUME NEW d, NEW b \in Nat, NEW n \in {0, 1}, HoldsNumber(d, b, 1, n)
  PROVE  d[b] = n
<1>1. 0 \in 0 .. 1 - 1 /\ b + 0 = b /\ 2 ^ 0 = 1
  OBVIOUS
<1>2. d[b + 0] = (n \div 2 ^ 0) % 2
  BY <1>1 DEF HoldsNumber
<1> QED
  BY <1>1, <1>2

(* of three                                                                *)
LEMMA ThreeBits ==
  ASSUME NEW d, NEW b \in Nat, NEW n \in Nat,
         d[b] = n % 2, d[b + 1] = (n \div 2) % 2, d[b + 2] = (n \div 4) % 2
  PROVE  Number(d, b, 3) = n % 8
<1>1. 2 ^ 0 = 1 /\ 2 ^ 1 = 2 /\ 2 ^ 2 = 4 /\ 2 ^ 3 = 8
  OBVIOUS
<1>2. HoldsNumber(d, b, 3, n)
  <2> SUFFICES ASSUME NEW k \in 0 .. 3 - 1 PROVE d[b + k] = (n \div 2 ^ k) % 2
    BY DEF HoldsNumber
  <2>1. k = 0 \/ k = 1 \/ k = 2
    OBVIOUS
  <2>2. b + 0 = b /\ n \div 1 = n
    OBVIOUS
  <2> QED BY <1>1, <2>1, <2>2
<1>3. 3 \in 0 .. 24
  OBVIOUS
<1> QED
  BY <1>1, <1>2, <1>3, FieldReadsBack

(* and of five.                                                            *)
LEMMA FiveBits ==
  ASSUME NEW d, NEW b \in Nat, NEW n \in Nat,
         d[b] = n % 2, d[b + 1] = (n \div 2) % 2, d[b + 2] = (n \div 4) % 2,
         d[b + 3] = (n \div 8) % 2, d[b + 4] = (n \div 16) % 2
  PROVE  Number(d, b, 5) = n % 32
<1>1. 2 ^ 0 = 1 /\ 2 ^ 1 = 2 /\ 2 ^ 2 = 4 /\ 2 ^ 3 = 8 /\ 2 ^ 4 = 16 /\ 2 ^ 5 = 32
  OBVIOUS
<1>2. HoldsNumber(d, b, 5, n)
  <2> SUFFICES ASSUME NEW k \in 0 .. 5 - 1 PROVE d[b + k] = (n \div 2 ^ k) % 2
    BY DEF HoldsNumber
  <2>1. k = 0 \/ k = 1 \/ k = 2 \/ k = 3 \/ k = 4
    OBVIOUS
  <2>2. b + 0 = b /\ n \div 1 = n
    OBVIOUS
  <2> QED BY <1>1, <2>1, <2>2
<1>3. 5 \in 0 .. 24
  OBVIOUS
<1> QED
  BY <1>1, <1>2, <1>3, FieldReadsBack

(* The level.                                                              *)
LEMMA LevelReadsBack ==
  ASSUME NEW d, NEW dpl \in 0 .. 3, HoldsNumber(d, 45, 2, dpl)
  PROVE  Level(d) = dpl
<1>1. 45 \in Nat /\ 2 \in 0 .. 24 /\ dpl \in Nat /\ 2 ^ 2 = 4
  OBVIOUS
<1>2. Number(d, 45, 2) = dpl % 2 ^ 2
  BY <1>1, FieldReadsBack
<1> QED
  BY <1>1, <1>2 DEF Level

(* The processor finds in a descriptor of set_code_seg,                    *)
LEMMA CodeReadsBack ==
  ASSUME NEW dpl \in 0 .. 3, NEW d, d = set_code_seg(0, 2 ^ 20 - 1, dpl)
  PROVE  IsFlat(d) /\ Level(d) = dpl /\ IsCode(d)
<1> DEFINE w == [code_or_data |-> 1, code_seg |-> 1, code_readable |-> 1,
                 dpl |-> dpl, seg_32b |-> 1, granularity |-> 1, present |-> 1]
           l == 2 ^ 20 - 1
<1>1. DOMAIN w = CodeFields
  BY DEF CodeFields
<1>2. d = Assigned(seg_desc_t, Both(AddressAndLimit(0, l), w))
  BY DEF set_code_seg
<1>3. /\ w["code_or_data"] = 1 /\ w["code_seg"] = 1 /\ w["code_readable"] = 1
      /\ w["dpl"] = dpl /\ w["seg_32b"] = 1 /\ w["granularity"] = 1 /\ w["present"] = 1
  OBVIOUS
<1> HIDE DEF w
<1>4. l \in Nat /\ l < 2 ^ 20 /\ 0 < 2 ^ 24 /\ 0 \in Nat
  OBVIOUS
<1> HIDE DEF l
<1>5. /\ HoldsAddressAndLimit(d, 0, l)
      /\ \A f \in CodeFields : HoldsNumber(d, First(f), Width(f), w[f])
  BY <1>1, <1>2, SegmentParts
<1>6. /\ HoldsNumber(d, 44, 1, 1) /\ HoldsNumber(d, 43, 1, 1) /\ HoldsNumber(d, 41, 1, 1)
      /\ HoldsNumber(d, 45, 2, dpl) /\ HoldsNumber(d, 54, 1, 1)
      /\ HoldsNumber(d, 55, 1, 1) /\ HoldsNumber(d, 47, 1, 1)
  BY <1>3, <1>5, SegmentPlaces DEF CodeFields
<1>7. /\ d[41] = 1 /\ d[43] = 1 /\ d[44] = 1 /\ d[47] = 1 /\ d[54] = 1 /\ d[55] = 1
  <2>1. 41 \in Nat /\ 43 \in Nat /\ 44 \in Nat /\ 47 \in Nat /\ 54 \in Nat /\ 55 \in Nat
    OBVIOUS
  <2> QED BY <1>6, <2>1, OneBit
<1>8. d[42] = 0 /\ d[53] = 0
  BY <1>1, <1>2, ZeroBits
<1>9. Base(d) = 0 /\ Limit(d) = l
  BY <1>4, <1>5, AddressAndLimitReadBack
<1>10. Number(d, 53, 3) = 6
  <2>1. Number(d, 53, 3) = 6 % 8
    BY <1>7, <1>8, ThreeBits
  <2> QED BY <2>1
<1>11. Number(d, 41, 3) = 5
  <2>1. Number(d, 41, 3) = 5 % 8
    BY <1>7, <1>8, ThreeBits
  <2> QED BY <2>1
<1>12. Level(d) = dpl
  BY <1>6, LevelReadsBack
<1> QED
  BY <1>7, <1>9, <1>10, <1>11, <1>12 DEF IsFlat, Present, IsCode, l

(* of set_data_seg,                                                        *)
LEMMA DataReadsBack ==
  ASSUME NEW dpl \in 0 .. 3, NEW d, d = set_data_seg(0, 2 ^ 20 - 1, dpl)
  PROVE  IsFlat(d) /\ Level(d) = dpl /\ IsData(d)
<1> DEFINE w == [code_or_data |-> 1, code_seg |-> 0, data_writable |-> 1,
                 dpl |-> dpl, seg_32b |-> 1, granularity |-> 1, present |-> 1]
           l == 2 ^ 20 - 1
<1>1. DOMAIN w = DataFields
  BY DEF DataFields
<1>2. d = Assigned(seg_desc_t, Both(AddressAndLimit(0, l), w))
  BY DEF set_data_seg
<1>3. /\ w["code_or_data"] = 1 /\ w["code_seg"] = 0 /\ w["data_writable"] = 1
      /\ w["dpl"] = dpl /\ w["seg_32b"] = 1 /\ w["granularity"] = 1 /\ w["present"] = 1
  OBVIOUS
<1> HIDE DEF w
<1>4. l \in Nat /\ l < 2 ^ 20 /\ 0 < 2 ^ 24 /\ 0 \in Nat
  OBVIOUS
<1> HIDE DEF l
<1>5. /\ HoldsAddressAndLimit(d, 0, l)
      /\ \A f \in DataFields : HoldsNumber(d, First(f), Width(f), w[f])
  BY <1>1, <1>2, SegmentParts
<1>6. /\ HoldsNumber(d, 44, 1, 1) /\ HoldsNumber(d, 43, 1, 0) /\ HoldsNumber(d, 41, 1, 1)
      /\ HoldsNumber(d, 45, 2, dpl) /\ HoldsNumber(d, 54, 1, 1)
      /\ HoldsNumber(d, 55, 1, 1) /\ HoldsNumber(d, 47, 1, 1)
  BY <1>3, <1>5, SegmentPlaces DEF DataFields
<1>7. /\ d[41] = 1 /\ d[43] = 0 /\ d[44] = 1 /\ d[47] = 1 /\ d[54] = 1 /\ d[55] = 1
  <2>1. 41 \in Nat /\ 43 \in Nat /\ 44 \in Nat /\ 47 \in Nat /\ 54 \in Nat /\ 55 \in Nat
    OBVIOUS
  <2> QED BY <1>6, <2>1, OneBit
<1>8. d[42] = 0 /\ d[53] = 0
  BY <1>1, <1>2, ZeroBits
<1>9. Base(d) = 0 /\ Limit(d) = l
  BY <1>4, <1>5, AddressAndLimitReadBack
<1>10. Number(d, 53, 3) = 6
  <2>1. Number(d, 53, 3) = 6 % 8
    BY <1>7, <1>8, ThreeBits
  <2> QED BY <2>1
<1>11. Number(d, 41, 3) = 1
  <2>1. Number(d, 41, 3) = 1 % 8
    BY <1>7, <1>8, ThreeBits
  <2> QED BY <2>1
<1>12. Level(d) = dpl
  BY <1>6, LevelReadsBack
<1> QED
  BY <1>7, <1>9, <1>10, <1>11, <1>12 DEF IsFlat, Present, IsData, l

(* and of set_tss_seg, once ltr has made it busy, what each was given.     *)
LEMMA TssReadsBack ==
  ASSUME NEW a \in Nat, NEW l \in Nat, a < 2 ^ 24, l < 2 ^ 20, NEW dpl,
         NEW d, d = [set_tss_seg(a, l, dpl) EXCEPT ![41] = 1]
  PROVE  IsTss(d, TssBusy) /\ Base(d) = a /\ Limit(d) = l
<1> DEFINE w == [code_or_data |-> 0, sys_type |-> 9, dpl |-> dpl, present |-> 1]
           e == set_tss_seg(a, l, dpl)
<1>1. DOMAIN w = TssFields
  BY DEF TssFields
<1>2. e = Assigned(seg_desc_t, Both(AddressAndLimit(a, l), w))
  BY DEF set_tss_seg
<1>3. w["code_or_data"] = 0 /\ w["sys_type"] = 9 /\ w["present"] = 1
  OBVIOUS
<1> HIDE DEF w
<1>4. d = [e EXCEPT ![41] = 1] /\ DOMAIN e = Bits /\ 41 \in Bits
  <2>1. DOMAIN e = Bits
    BY <1>2 DEF Assigned
  <2>2. 41 \in Bits
    BY DEF Bits
  <2> QED BY <2>1, <2>2
<1> HIDE DEF e
<1>5. /\ HoldsAddressAndLimit(e, a, l)
      /\ \A f \in TssFields : HoldsNumber(e, First(f), Width(f), w[f])
  BY <1>1, <1>2, SegmentParts
<1>6. /\ HoldsNumber(e, 44, 1, 0) /\ HoldsNumber(e, 40, 4, 9)
      /\ HoldsNumber(e, 47, 1, 1)
  BY <1>3, <1>5, SegmentPlaces DEF TssFields
<1>7. e[44] = 0 /\ e[47] = 1
  <2>1. 44 \in Nat /\ 47 \in Nat
    OBVIOUS
  <2> QED BY <1>6, <2>1, OneBit
<1>8. e[40] = 1 /\ e[42] = 0 /\ e[43] = 1
  <2>1. /\ e[40 + 0] = (9 \div 2 ^ 0) % 2
        /\ e[40 + 2] = (9 \div 2 ^ 2) % 2
        /\ e[40 + 3] = (9 \div 2 ^ 3) % 2
    BY <1>6 DEF HoldsNumber
  <2>2. 2 ^ 0 = 1 /\ 2 ^ 2 = 4 /\ 2 ^ 3 = 8
    OBVIOUS
  <2>3. (9 \div 1) % 2 = 1 /\ (9 \div 4) % 2 = 0 /\ (9 \div 8) % 2 = 1
    OBVIOUS
  <2>4. 40 + 0 = 40 /\ 40 + 2 = 42 /\ 40 + 3 = 43
    OBVIOUS
  <2> QED BY <2>1, <2>2, <2>3, <2>4
<1>9. /\ d[40] = 1 /\ d[41] = 1 /\ d[42] = 0 /\ d[43] = 1 /\ d[44] = 0 /\ d[47] = 1
      /\ \A b \in Bits : b # 41 => d[b] = e[b]
  <2>1. d[41] = 1 /\ \A b \in Bits : b # 41 => d[b] = e[b]
    BY <1>4
  <2>2. /\ 40 \in Bits /\ 42 \in Bits /\ 43 \in Bits /\ 44 \in Bits /\ 47 \in Bits
        /\ 40 # 41 /\ 42 # 41 /\ 43 # 41 /\ 44 # 41 /\ 47 # 41
    BY DEF Bits
  <2> QED BY <1>7, <1>8, <2>1, <2>2
<1>10. Number(d, 40, 5) = 11
  <2>1. Number(d, 40, 5) = 11 % 32
    <3>1. /\ 11 % 2 = 1 /\ (11 \div 2) % 2 = 1 /\ (11 \div 4) % 2 = 0
          /\ (11 \div 8) % 2 = 1 /\ (11 \div 16) % 2 = 0
          /\ 40 + 1 = 41 /\ 40 + 2 = 42 /\ 40 + 3 = 43 /\ 40 + 4 = 44
      OBVIOUS
    <3>2. /\ d[40] = 11 % 2 /\ d[40 + 1] = (11 \div 2) % 2
          /\ d[40 + 2] = (11 \div 4) % 2 /\ d[40 + 3] = (11 \div 8) % 2
          /\ d[40 + 4] = (11 \div 16) % 2
      BY <1>9, <3>1
    <3>3. 40 \in Nat /\ 11 \in Nat
      OBVIOUS
    <3> QED BY <3>2, <3>3, FiveBits
  <2> QED BY <2>1
<1>11. HoldsAddressAndLimit(d, a, l)
  <2>1. ASSUME NEW first \in Nat, NEW width \in Nat, NEW n, first + width <= 64,
               41 < first \/ first + width <= 41, HoldsNumber(e, first, width, n)
        PROVE  HoldsNumber(d, first, width, n)
    <3> SUFFICES ASSUME NEW b \in 0 .. width - 1
                 PROVE  d[first + b] = (n \div 2 ^ b) % 2
      BY DEF HoldsNumber
    <3>1. first + b # 41 /\ first + b \in Bits
      BY <2>1 DEF Bits
    <3>2. d[first + b] = e[first + b]
      BY <1>9, <3>1
    <3> QED BY <2>1, <3>2 DEF HoldsNumber
  <2>2. /\ 41 < 48 /\ 41 < 56 /\ 0 + 16 <= 41 /\ 16 + 16 <= 41 /\ 32 + 8 <= 41
        /\ 16 \in Nat /\ 8 \in Nat /\ 4 \in Nat /\ 0 \in Nat /\ 32 \in Nat
        /\ 48 \in Nat /\ 56 \in Nat /\ 0 + 16 <= 64 /\ 16 + 16 <= 64
        /\ 32 + 8 <= 64 /\ 48 + 4 <= 64 /\ 56 + 8 <= 64
    OBVIOUS
  <2> QED BY <1>5, <2>1, <2>2 DEF HoldsAddressAndLimit
<1>12. Base(d) = a /\ Limit(d) = l
  BY <1>11, AddressAndLimitReadBack
<1> QED
  BY <1>9, <1>10, <1>12 DEF IsTss, Present, TssBusy

-----------------------------------------------------------------------------
(* The inductive invariant                                                 *)

(* The stages of kmain before the gates are set, and before the controllers *)
(* are.                                                                    *)
BeforeGates == {"gdt_init", "idt_init", "exceptions_init"}
BeforePic == BeforeGates \cup {"pic_init"}

(* After gdt_init the descriptors are those of the code, with the TSS's    *)
(* made busy, and lgdt, ltr and the TSS have what they are to have.        *)
SegmentsSet ==
  boot # "gdt_init" =>
    /\ gdt = [Descriptors EXCEPT ![5][41] = 1]
    /\ loaded.gdt = 47 /\ loaded.tr = 40 /\ ss0 = 16

(* After lidt the table has room for every gate.                           *)
TableLoaded == boot \notin {"gdt_init", "idt_init"} => loaded.idt = 2047

(* The gates of the two lines with handlers lead to their own stubs.       *)
GatesSet ==
  boot \notin BeforeGates =>
    \A n \in {Timer, Keyboard} :
      idt[IrqBaseVector + n] = idt_set(StubAddress(IrqBaseVector + n))

(* From remap_pic on the lines have the kernel's vectors; what is masked   *)
(* and which handlers are installed follows kmain.                         *)
LinesSet ==
  /\ boot \notin BeforePic => base = <<IrqBaseVector, IrqBaseVector + 8>>
  /\ boot = "pit_init" => masked = Line
  /\ boot = "keyboard_init" => masked = Line \ {Timer} /\ handlers[Timer] = "timer"
  /\ boot \in {"resume_new_task", "done"} =>
       /\ masked = Line \ {Timer, Keyboard}
       /\ handlers[Timer] = "timer"
       /\ handlers[Keyboard] = "keyboard"

(* Nothing is interrupted before the first task runs.  After that a line   *)
(* that interrupts is one with a handler; it is the only one in service until *)
(* handle_irq has ended it, and none is afterwards.                        *)
Handled ==
  \/ cpu = InTask /\ in_service = {}
  \/ /\ boot = "done"
     /\ cpu.line \in {Timer, Keyboard}
     /\ cpu.int_no = IrqBaseVector + cpu.line
     /\ \/ cpu.step = "isr_handler" /\ in_service = {cpu.line}
        \/ /\ cpu.step = "handler" /\ in_service = {}
           /\ cpu.handler = IF cpu.line = Timer THEN "timer" ELSE "keyboard"
        \/ cpu.step = "iret" /\ in_service = {}

(* The inductive invariant.                                                *)
IInv == TypeOK /\ SegmentsSet /\ TableLoaded /\ GatesSet /\ LinesSet /\ Handled

(* The stubs lie where two halves of 16 bits reach.                        *)
LEMMA StubAddressSmall ==
  ASSUME NEW v \in Vector
  PROVE  /\ StubAddress(v) \in Nat
         /\ StubAddress(v) \div 2 ^ 16 < 2 ^ 16
<1>1. StubBase \in Nat /\ StubBase <= 16 * 2 ^ 16
  <2>1. StubBase \in 0 .. 2 ^ 20
    BY AddressAssumption
  <2>2. 2 ^ 20 = 16 * 2 ^ 16
    OBVIOUS
  <2> QED BY <2>1, <2>2
<1>2. v \in 0 .. 47
  BY DEF Vector
<1>3. PICK m \in Nat \ {0} : m = 2 ^ 16 /\ m > 1000
  OBVIOUS
<1>4. StubAddress(v) \in Nat /\ StubAddress(v) < 17 * m
  BY <1>1, <1>2, <1>3 DEF StubAddress
<1>5. StubAddress(v) \div m < 17
  BY <1>3, <1>4
<1>6. StubAddress(v) \div m \in Nat
  BY <1>3, <1>4, Divided, ZenonT(60)
<1> QED
  BY <1>3, <1>4, <1>5, <1>6

(* A gate set to a stub leads to that stub.                                *)
LEMMA StubFound ==
  ASSUME NEW v \in Vector, 8 * v + 7 <= loaded.idt,
         idt[v] = idt_set(StubAddress(v))
  PROVE  StubThrough(v) = v
<1>1. GateOffset(idt[v]) = StubAddress(v) /\ IsInterruptGate(idt[v])
  BY StubAddressSmall, GateReadsBack
<1>2. \A n \in Vector : StubAddress(n) = StubAddress(v) <=> n = v
  <2>1. StubBase \in Int
    BY AddressAssumption
  <2> QED BY <2>1 DEF Vector, StubAddress
<1> QED
  BY <1>1, <1>2 DEF StubThrough

(* The EOI ends the only line in service.                                  *)
LEMMA OneEnded ==
  ASSUME NEW n \in {Timer, Keyboard}
  PROVE  Ended({n} \cap 0 .. 7) = {n}
<1>1. n \in 0 .. 7
  BY DEF Timer, Keyboard
<1>2. Rank(n) <= Rank(n)
  BY DEF Rank, Timer, Keyboard
<1> QED
  BY <1>1, <1>2 DEF Ended

(* Numbers assigned to fields make a descriptor of bits.                   *)
LEMMA AssignedIsDescriptor ==
  ASSUME NEW layout, NEW values,
         \A f \in DOMAIN values : values[f] \in Nat /\ layout[f].first \in Nat
  PROVE  Assigned(layout, values) \in [Bits -> {0, 1}]
<1>1. \A v, n \in Nat : (v \div 2 ^ n) % 2 \in {0, 1}
  OBVIOUS
<1>2. SUFFICES ASSUME NEW b \in Bits
               PROVE  Assigned(layout, values)[b] \in {0, 1}
  BY DEF Assigned
<1>3. CASE Holding(layout, values, b) = {}
  BY <1>3, AssignedBit
<1>4. CASE Holding(layout, values, b) # {}
  <2> DEFINE f == CHOOSE g \in Holding(layout, values, b) : TRUE
  <2>1. f \in Holding(layout, values, b)
    BY <1>4
  <2>2. Assigned(layout, values)[b] = (values[f] \div 2 ^ (b - layout[f].first)) % 2
    BY <1>4 DEF Assigned, Holding
  <2> HIDE DEF f
  <2>3. values[f] \in Nat /\ b - layout[f].first \in Nat
    BY <2>1 DEF Holding, Bits
  <2> QED BY <1>1, <2>2, <2>3
<1> QED
  BY <1>3, <1>4

(* Where the fields of a segment are.                                      *)
LEMMA SegmentFields ==
  \A f \in {"limit_lo16", "base_addr_lo16", "base_addr_md8", "code_seg", "code_or_data",
            "dpl", "present", "limit_hi4", "seg_32b", "granularity", "base_addr_hi8",
            "code_readable", "data_writable", "sys_type"} :
    seg_desc_t[f].first \in Nat
  BY DEF seg_desc_t, Field

(* The parts of an address and of a limit are numbers.                     *)
LEMMA AddressAndLimitNumbers ==
  ASSUME NEW a \in Nat, NEW l \in Nat
  PROVE  /\ DOMAIN AddressAndLimit(a, l) = {"base_addr_lo16", "base_addr_md8",
                                            "base_addr_hi8", "limit_lo16", "limit_hi4"}
         /\ \A f \in DOMAIN AddressAndLimit(a, l) : AddressAndLimit(a, l)[f] \in Nat
<1> DEFINE v == AddressAndLimit(a, l)
<1>1. DOMAIN v = {"base_addr_lo16", "base_addr_md8", "base_addr_hi8", "limit_lo16",
                  "limit_hi4"}
  BY DEF AddressAndLimit
<1>2. 2 ^ 16 \in Nat \ {0} /\ 2 ^ 8 \in Nat \ {0} /\ 2 ^ 4 \in Nat \ {0}
  BY PowerOfTwo
<1>3. 2 ^ 24 = 2 ^ 8 * 2 ^ 16 /\ 2 ^ 24 \in Nat \ {0}
  OBVIOUS
<1>4. \A n \in Nat, m \in Nat \ {0} : n % m \in Nat /\ n \div m \in Nat
  BY Divided
<1>5. /\ a % 2 ^ 16 \in Nat /\ (a \div 2 ^ 16) % 2 ^ 8 \in Nat
      /\ (a \div 2 ^ 24) % 2 ^ 8 \in Nat
      /\ l % 2 ^ 16 \in Nat /\ (l \div 2 ^ 16) % 2 ^ 4 \in Nat
  BY <1>2, <1>3, <1>4
<1>6. /\ v["base_addr_lo16"] \in Nat /\ v["base_addr_md8"] \in Nat
      /\ v["base_addr_hi8"] \in Nat /\ v["limit_lo16"] \in Nat /\ v["limit_hi4"] \in Nat
  BY <1>5 DEF AddressAndLimit
<1> QED
  BY <1>1, <1>6

(* The descriptors of gdt.c are made of bits,                              *)
LEMMA SegmentsAreBits ==
  ASSUME NEW a \in Nat, NEW l \in Nat, NEW dpl \in Nat
  PROVE  /\ set_code_seg(a, l, dpl) \in [Bits -> {0, 1}]
         /\ set_data_seg(a, l, dpl) \in [Bits -> {0, 1}]
         /\ set_tss_seg(a, l, dpl) \in [Bits -> {0, 1}]
<1> DEFINE v == AddressAndLimit(a, l)
           A == {"base_addr_lo16", "base_addr_md8", "base_addr_hi8", "limit_lo16",
                 "limit_hi4"}
<1>1. DOMAIN v = A /\ \A f \in A : v[f] \in Nat
  BY AddressAndLimitNumbers
<1> HIDE DEF v
<1>2. ASSUME NEW w,
             DOMAIN w \subseteq {"code_or_data", "code_seg", "code_readable", "dpl",
                                 "seg_32b", "granularity", "present", "data_writable",
                                 "sys_type"},
             \A f \in DOMAIN w : w[f] \in Nat
      PROVE  Assigned(seg_desc_t, Both(v, w)) \in [Bits -> {0, 1}]
  <2>1. /\ DOMAIN Both(v, w) = A \cup DOMAIN w
        /\ \A f \in A \cup DOMAIN w : Both(v, w)[f] \in Nat
    BY <1>1, <1>2 DEF Both
  <2>2. \A f \in A \cup DOMAIN w : seg_desc_t[f].first \in Nat
    BY <1>2, SegmentFields
  <2> QED
    BY <2>1, <2>2, AssignedIsDescriptor
<1>3. set_code_seg(a, l, dpl) \in [Bits -> {0, 1}]
  <2> DEFINE w == [code_or_data |-> 1, code_seg |-> 1, code_readable |-> 1,
                   dpl |-> dpl, seg_32b |-> 1, granularity |-> 1, present |-> 1]
  <2>1. /\ DOMAIN w = {"code_or_data", "code_seg", "code_readable", "dpl", "seg_32b",
                       "granularity", "present"}
        /\ \A f \in DOMAIN w : w[f] \in Nat
    OBVIOUS
  <2>2. set_code_seg(a, l, dpl) = Assigned(seg_desc_t, Both(v, w))
    BY DEF set_code_seg, v
  <2> HIDE DEF w
  <2> QED
    BY <1>2, <2>1, <2>2
<1>4. set_data_seg(a, l, dpl) \in [Bits -> {0, 1}]
  <2> DEFINE w == [code_or_data |-> 1, code_seg |-> 0, data_writable |-> 1,
                   dpl |-> dpl, seg_32b |-> 1, granularity |-> 1, present |-> 1]
  <2>1. /\ DOMAIN w = {"code_or_data", "code_seg", "data_writable", "dpl", "seg_32b",
                       "granularity", "present"}
        /\ \A f \in DOMAIN w : w[f] \in Nat
    OBVIOUS
  <2>2. set_data_seg(a, l, dpl) = Assigned(seg_desc_t, Both(v, w))
    BY DEF set_data_seg, v
  <2> HIDE DEF w
  <2> QED
    BY <1>2, <2>1, <2>2
<1>5. set_tss_seg(a, l, dpl) \in [Bits -> {0, 1}]
  <2> DEFINE w == [code_or_data |-> 0, sys_type |-> 9, dpl |-> dpl, present |-> 1]
  <2>1. /\ DOMAIN w = {"code_or_data", "sys_type", "dpl", "present"}
        /\ \A f \in DOMAIN w : w[f] \in Nat
    OBVIOUS
  <2>2. set_tss_seg(a, l, dpl) = Assigned(seg_desc_t, Both(v, w))
    BY DEF set_tss_seg, v
  <2> HIDE DEF w
  <2> QED
    BY <1>2, <2>1, <2>2
<1> QED
  BY <1>3, <1>4, <1>5

(* the zeroed one too,                                                     *)
LEMMA NoDescriptorIsBits == NoDescriptor \in [Bits -> {0, 1}]
  BY DEF NoDescriptor

(* and so is the whole table.                                              *)
LEMMA DescriptorsAreBits == Descriptors \in [0 .. 15 -> [Bits -> {0, 1}]]
<1>1. TssAddress \in Nat /\ TssSize - 1 \in Nat /\ 2 ^ 20 - 1 \in Nat
  BY AddressAssumption DEF TssSize
<1>2. /\ set_code_seg(0, 2 ^ 20 - 1, 0) \in [Bits -> {0, 1}]
      /\ set_data_seg(0, 2 ^ 20 - 1, 0) \in [Bits -> {0, 1}]
      /\ set_code_seg(0, 2 ^ 20 - 1, 3) \in [Bits -> {0, 1}]
      /\ set_data_seg(0, 2 ^ 20 - 1, 3) \in [Bits -> {0, 1}]
      /\ set_tss_seg(TssAddress, TssSize - 1, 3) \in [Bits -> {0, 1}]
  BY <1>1, SegmentsAreBits
<1> QED
  BY <1>2, NoDescriptorIsBits DEF Descriptors


(* The invariant holds at first,                                           *)
LEMMA InitIInv == Init => IInv
<1> SUFFICES ASSUME Init PROVE IInv
  OBVIOUS
<1>1. gdt \in [0 .. 15 -> [Bits -> {0, 1}]]
  BY NoDescriptorIsBits DEF Init
<1>2. requested \in SUBSET Line
  BY LinesAssumption DEF Init, Line
<1>3. cpu = InTask /\ in_service = {}
  BY DEF Init
<1>4. cpu \in [step : {"task", "isr_handler", "handler", "iret", "fault", "halted"},
               line : Line, int_no : Vector \cup {NoGate}, handler : Handler]
  BY <1>3 DEF InTask, Timer, Line, Vector, Handler, NoHandler
<1>5. /\ boot = "gdt_init"
      /\ idt \in [Vector -> {idt_set(StubAddress(n)) : n \in Stub} \cup {NoDescriptor}]
      /\ loaded \in [gdt : Nat, idt : Nat, tr : {0, TssSelector}]
      /\ handlers \in [Line -> Handler]
  BY DEF Init, Handler, NoHandler
<1>6. TypeOK
  BY <1>1, <1>2, <1>3, <1>4, <1>5 DEF Init, TypeOK
<1> QED
  BY <1>3, <1>5, <1>6
     DEF IInv, SegmentsSet, TableLoaded, GatesSet, LinesSet, Handled, BeforeGates,
         BeforePic

(* kmain's steps keep it,                                                  *)
LEMMA BootIInv ==
  ASSUME IInv, Boot
  PROVE  IInv'
<1> USE DEF IInv
<1>1. boot # "done" /\ cpu = InTask /\ in_service = {}
  BY DEF Boot, gdt_init, idt_init, exceptions_init, pic_init, pit_init, keyboard_init,
         resume_new_task, Handled
<1>2. CASE gdt_init
  <2>1. gdt' \in [0 .. 15 -> [Bits -> {0, 1}]]
    <3>1. IndexOf(TssSelector) \in 0 .. 15 /\ 41 \in Bits
      BY DEF IndexOf, TssSelector, Bits
    <3> QED BY <1>2, <3>1, DescriptorsAreBits DEF gdt_init
  <2>2. loaded' \in [gdt : Nat, idt : Nat, tr : {0, TssSelector}]
    <3>1. GdtLimit \in Nat
      BY DEF GdtLimit
    <3> QED BY <1>2, <3>1 DEF gdt_init, TypeOK
  <2>3. TypeOK'
    BY <1>2, <2>1, <2>2 DEF gdt_init, TypeOK, pic
  <2>4. SegmentsSet'
    <3>1. GdtLimit = 47 /\ TssSelector = 40 /\ KernelDataSelector = 16 /\ 40 \div 8 = 5
      BY DEF GdtLimit, TssSelector, KernelDataSelector
    <3>2. loaded'.gdt = 47 /\ loaded'.tr = 40 /\ ss0' = 16
      BY <1>2, <3>1 DEF gdt_init, TypeOK
    <3>3. gdt' = [Descriptors EXCEPT ![5][41] = 1]
      BY <1>2, <3>1 DEF gdt_init, IndexOf
    <3> QED BY <3>2, <3>3 DEF SegmentsSet
  <2> QED
    BY <1>1, <1>2, <2>3, <2>4
       DEF gdt_init, pic, TableLoaded, GatesSet, LinesSet, Handled, BeforeGates, BeforePic
<1>3. CASE idt_init
  <2>1. loaded' \in [gdt : Nat, idt : Nat, tr : {0, TssSelector}] /\ loaded'.idt = 2047
        /\ loaded'.gdt = loaded.gdt /\ loaded'.tr = loaded.tr
    BY <1>3 DEF idt_init, TypeOK
  <2>2. TypeOK'
    BY <1>3, <2>1 DEF idt_init, TypeOK, pic
  <2> QED
    BY <1>1, <1>3, <2>1, <2>2
       DEF idt_init, pic, SegmentsSet, TableLoaded, GatesSet, LinesSet, Handled,
           BeforeGates, BeforePic
<1>4. CASE exceptions_init
  <2>1. \A v \in Vector : StubFor(v) # NoGate => StubFor(v) \in Stub
    BY DEF StubFor, Stub, Vector, NoGate
  <2>2. idt' \in [Vector -> {idt_set(StubAddress(n)) : n \in Stub} \cup {NoDescriptor}]
    BY <1>4, <2>1 DEF exceptions_init
  <2>3. \A n \in {Timer, Keyboard} :
          /\ IrqBaseVector + n \in Vector
          /\ StubFor(IrqBaseVector + n) = IrqBaseVector + n
          /\ IrqBaseVector + n # NoGate
    BY DEF IrqBaseVector, Timer, Keyboard, StubFor, Vector, NoGate
  <2>4. \A n \in {Timer, Keyboard} :
          idt'[IrqBaseVector + n] = idt_set(StubAddress(IrqBaseVector + n))
    BY <1>4, <2>3 DEF exceptions_init
  <2>5. TypeOK'
    BY <1>4, <2>2 DEF exceptions_init, TypeOK, pic
  <2>6. GatesSet'
    BY <2>4 DEF GatesSet
  <2> QED
    BY <1>1, <1>4, <2>5, <2>6
       DEF exceptions_init, pic, SegmentsSet, TableLoaded, LinesSet, Handled,
           BeforeGates, BeforePic
<1>5. CASE pic_init
  <2>1. TypeOK'
    BY <1>5 DEF pic_init, irq_disable_all, TypeOK, segments
  <2> QED
    BY <1>1, <1>5, <2>1
       DEF pic_init, irq_disable_all, segments, SegmentsSet, TableLoaded, GatesSet,
           LinesSet, Handled, BeforeGates, BeforePic
<1>6. CASE pit_init
  <2>1. /\ Timer \in Line /\ "timer" \in Handler
        /\ handlers \in [Line -> Handler]
        /\ masked = Line
    BY <1>6 DEF pit_init, Timer, Line, Handler, TypeOK, LinesSet
  <2>2. /\ masked' = Line \ {Timer}
        /\ handlers' \in [Line -> Handler]
        /\ handlers'[Timer] = "timer"
        /\ boot' = "keyboard_init" /\ boot = "pit_init"
        /\ UNCHANGED <<gdt, idt, loaded, ss0, base, requested, in_service, cpu>>
    BY <1>6, <2>1 DEF pit_init, irq_install, irq_enable, segments
  <2>3. TypeOK'
    BY <2>2 DEF TypeOK
  <2> QED
    BY <1>1, <2>2, <2>3
       DEF SegmentsSet, TableLoaded, GatesSet, LinesSet, Handled, BeforeGates, BeforePic
<1>7. CASE keyboard_init
  <2>1. /\ Keyboard \in Line /\ "keyboard" \in Handler /\ Keyboard # Timer
        /\ handlers \in [Line -> Handler]
        /\ masked = Line \ {Timer} /\ handlers[Timer] = "timer" /\ Timer \in Line
    BY <1>7 DEF keyboard_init, Timer, Keyboard, Line, Handler, TypeOK, LinesSet
  <2>2. /\ masked' = Line \ {Timer, Keyboard}
        /\ handlers' \in [Line -> Handler]
        /\ handlers'[Timer] = "timer" /\ handlers'[Keyboard] = "keyboard"
        /\ boot' = "resume_new_task" /\ boot = "keyboard_init"
        /\ UNCHANGED <<gdt, idt, loaded, ss0, base, requested, in_service, cpu>>
    BY <1>7, <2>1 DEF keyboard_init, irq_install, irq_enable, segments
  <2>3. TypeOK'
    BY <2>2 DEF TypeOK
  <2> QED
    BY <1>1, <2>2, <2>3
       DEF SegmentsSet, TableLoaded, GatesSet, LinesSet, Handled, BeforeGates, BeforePic
<1>8. CASE resume_new_task
  BY <1>1, <1>8
     DEF resume_new_task, segments, pic, TypeOK, SegmentsSet, TableLoaded, GatesSet,
         LinesSet, Handled, BeforeGates, BeforePic
<1> QED
  BY <1>2, <1>3, <1>4, <1>5, <1>6, <1>7, <1>8, Boot DEF Boot

(* an acknowledged line is one of the two that are not masked, and its gate *)
(* leads to its stub,                                                      *)
LEMMA AcknowledgeIInv ==
  ASSUME IInv, NEW n \in Line, Acknowledge(n)
  PROVE  IInv'
<1> USE DEF IInv
<1>1. boot = "done" /\ cpu.step = "task" /\ Deliverable(n)
  BY DEF Acknowledge
<1>2. n \in {Timer, Keyboard}
  BY <1>1 DEF Deliverable, LinesSet
<1>3. in_service = {}
  BY <1>1 DEF Handled
<1>4. n < 8 /\ VectorsOf(n) = {IrqBaseVector + n}
  BY <1>1, <1>2 DEF VectorsOf, LinesSet, BeforePic, BeforeGates, Timer, Keyboard
<1>5. StubThrough(IrqBaseVector + n) = IrqBaseVector + n
  <2>1. /\ IrqBaseVector + n \in Vector /\ 8 * (IrqBaseVector + n) + 7 <= 2047
    BY <1>2 DEF IrqBaseVector, Timer, Keyboard, Vector
  <2>2. loaded.idt = 2047
    BY <1>1 DEF SegmentsSet, TableLoaded
  <2>3. idt[IrqBaseVector + n] = idt_set(StubAddress(IrqBaseVector + n))
    BY <1>1, <1>2 DEF GatesSet, BeforeGates
  <2> QED
    BY <2>1, <2>2, <2>3, StubFound
<1>6. IrqBaseVector + n # NoGate /\ IrqBaseVector + n \in Vector
  BY <1>2 DEF IrqBaseVector, NoGate, Timer, Keyboard, Vector
<1>7. /\ cpu' = [step |-> "isr_handler", line |-> n, int_no |-> IrqBaseVector + n,
                 handler |-> NoHandler]
      /\ in_service' = {n}
      /\ requested' = requested \ {n}
      /\ UNCHANGED <<boot, gdt, idt, loaded, ss0, base, masked, handlers>>
  <2>1. \E v \in VectorsOf(n) :
          cpu' = [step |-> IF StubThrough(v) = NoGate THEN "fault" ELSE "isr_handler",
                  line |-> n, int_no |-> StubThrough(v), handler |-> NoHandler]
    BY DEF Acknowledge
  <2>2. cpu' = [step |-> "isr_handler", line |-> n, int_no |-> IrqBaseVector + n,
                handler |-> NoHandler]
    BY <2>1, <1>4, <1>5, <1>6
  <2>3. ~ (n >= 8)
    BY <1>4 DEF Line
  <2>4. in_service' = {n}
    BY <2>3, <1>3 DEF Acknowledge
  <2> QED
    BY <2>2, <2>4 DEF Acknowledge, segments
<1>8. cpu' \in [step : {"task", "isr_handler", "handler", "iret", "fault", "halted"},
                line : Line, int_no : Vector \cup {NoGate}, handler : Handler]
  BY <1>6, <1>7 DEF Handler
<1>9. TypeOK'
  BY <1>7, <1>8 DEF TypeOK
<1>10. Handled'
  BY <1>1, <1>2, <1>7 DEF Handled
<1> QED
  BY <1>7, <1>9, <1>10 DEF SegmentsSet, TableLoaded, GatesSet, LinesSet

(* the stub, handle_irq and the handler keep it,                           *)
LEMMA ProcessorIInv ==
  ASSUME IInv, Processor
  PROVE  IInv'
<1> USE DEF IInv
<1>1. cpu \in [step : {"task", "isr_handler", "handler", "iret", "fault", "halted"},
               line : Line, int_no : Vector \cup {NoGate}, handler : Handler]
  BY DEF TypeOK
<1>2. CASE isr_handler
  <2>1. /\ boot = "done" /\ cpu.line \in {Timer, Keyboard}
        /\ cpu.int_no = IrqBaseVector + cpu.line
        /\ in_service = {cpu.line}
    BY <1>2 DEF isr_handler, Handled, InTask
  <2>2. /\ ~ (cpu.int_no < 32) /\ cpu.int_no - IrqBaseVector = cpu.line
        /\ cpu.line < 16 /\ ~ (cpu.line >= 8)
    BY <2>1 DEF IrqBaseVector, Timer, Keyboard
  <2>3. handlers[cpu.line] = (IF cpu.line = Timer THEN "timer" ELSE "keyboard")
    BY <2>1 DEF LinesSet
  <2>4. handlers[cpu.line] # NoHandler /\ handlers[cpu.line] \in Handler
    BY <2>3 DEF NoHandler, Handler
  <2>5. Ended(in_service \cap 0 .. 7) = {cpu.line}
    BY <2>1, OneEnded
  <2>6. /\ cpu' = [cpu EXCEPT !.step = "handler", !.handler = handlers[cpu.line]]
        /\ in_service' = in_service \ {cpu.line}
        /\ UNCHANGED <<boot, gdt, idt, loaded, ss0, base, masked, requested, handlers>>
    BY <1>2, <2>2, <2>4, <2>5 DEF isr_handler, handle_irq, irq_eoi, segments
  <2>7. /\ cpu' \in [step : {"task", "isr_handler", "handler", "iret", "fault", "halted"},
                     line : Line, int_no : Vector \cup {NoGate}, handler : Handler]
        /\ cpu'.step = "handler" /\ cpu'.line = cpu.line /\ cpu'.int_no = cpu.int_no
        /\ cpu'.handler = handlers[cpu.line]
    BY <1>1, <2>4, <2>6
  <2>8. TypeOK'
    BY <2>6, <2>7 DEF TypeOK
  <2>9. Handled'
    BY <2>1, <2>3, <2>6, <2>7 DEF Handled
  <2> QED
    BY <2>6, <2>8, <2>9 DEF SegmentsSet, TableLoaded, GatesSet, LinesSet
<1>3. CASE HandlerReturns
  <2>1. /\ boot = "done" /\ cpu.line \in {Timer, Keyboard}
        /\ cpu.int_no = IrqBaseVector + cpu.line
        /\ in_service = {}
    BY <1>3 DEF HandlerReturns, Handled, InTask
  <2>2. /\ cpu' = [cpu EXCEPT !.step = "iret"]
        /\ UNCHANGED <<boot, gdt, idt, loaded, ss0, base, masked, requested, in_service,
                       handlers>>
    BY <1>3 DEF HandlerReturns, segments, pic
  <2>3. /\ cpu' \in [step : {"task", "isr_handler", "handler", "iret", "fault", "halted"},
                     line : Line, int_no : Vector \cup {NoGate}, handler : Handler]
        /\ cpu'.step = "iret" /\ cpu'.line = cpu.line /\ cpu'.int_no = cpu.int_no
    BY <1>1, <2>2
  <2>4. TypeOK' /\ Handled'
    BY <2>1, <2>2, <2>3 DEF TypeOK, Handled
  <2> QED
    BY <2>2, <2>4 DEF SegmentsSet, TableLoaded, GatesSet, LinesSet
<1>4. CASE isr_return
  <2>1. /\ in_service = {} /\ cpu' = InTask
        /\ UNCHANGED <<boot, gdt, idt, loaded, ss0, base, masked, requested, in_service,
                       handlers>>
    BY <1>4 DEF isr_return, segments, pic, Handled, InTask
  <2>2. cpu' \in [step : {"task", "isr_handler", "handler", "iret", "fault", "halted"},
                  line : Line, int_no : Vector \cup {NoGate}, handler : Handler]
    BY <2>1 DEF InTask, Timer, Line, Vector, Handler, NoHandler
  <2>3. TypeOK' /\ Handled'
    BY <2>1, <2>2 DEF TypeOK, Handled
  <2> QED
    BY <2>1, <2>3 DEF SegmentsSet, TableLoaded, GatesSet, LinesSet
<1> QED
  BY <1>2, <1>3, <1>4, Processor DEF Processor

(* and a device that raises its line changes none of it.                   *)
LEMMA RaiseIInv ==
  ASSUME IInv, NEW n \in Lines, Raise(n)
  PROVE  IInv'
<1>1. n \in Line
  BY LinesAssumption DEF Line
<1> QED
  BY <1>1 DEF IInv, Raise, segments, TypeOK, SegmentsSet, TableLoaded, GatesSet, LinesSet,
             Handled

(* Every step keeps it.                                                    *)
LEMMA NextIInv == IInv /\ [Next]_vars => IInv'
<1> SUFFICES ASSUME IInv, [Next]_vars PROVE IInv'
  OBVIOUS
<1>1. CASE UNCHANGED vars
  BY <1>1 DEF vars, segments, IInv, TypeOK, SegmentsSet, TableLoaded, GatesSet, LinesSet,
             Handled
<1> QED
  BY <1>1, BootIInv, AcknowledgeIInv, ProcessorIInv, RaiseIInv DEF Next

(* The inductive invariant holds in every reachable state.                 *)
THEOREM Invariance == Spec => []IInv
  BY InitIInv, NextIInv, PTL DEF Spec

(* The tables hold descriptors, every gate that of a stub, and the         *)
(* controllers' registers lines.                                           *)
THEOREM TypeCorrect == Spec => []TypeOK
  BY Invariance, PTL DEF IInv

(* What the invariant says of the handler.                                 *)
LEMMA IInvOwnHandler == IInv => OwnHandler
  BY DEF IInv, Handled, OwnHandler, InTask

(* A line's handler runs for that line and no other; a line without a handler *)
(* never interrupts, and no interrupt finds a gate missing.                *)
THEOREM LineRunsItsHandler == Spec => []OwnHandler
  BY Invariance, IInvOwnHandler, PTL

(* What the invariant says of the controllers.                             *)
LEMMA IInvInService == IInv => NothingLeftInService
  BY DEF IInv, Handled, NothingLeftInService, InTask

(* No line is in service while a task runs: handle_irq has acknowledged every *)
(* interrupt before it returns.                                            *)
THEOREM AllAcknowledged == Spec => []NothingLeftInService
  BY Invariance, IInvInService, PTL

(* The five descriptors as the processor reads them.                       *)
LEMMA IInvDescriptors ==
  ASSUME IInv, boot # "gdt_init"
  PROVE  /\ IsFlat(gdt[1]) /\ Level(gdt[1]) = 0 /\ IsCode(gdt[1])
         /\ IsFlat(gdt[2]) /\ Level(gdt[2]) = 0 /\ IsData(gdt[2])
         /\ IsFlat(gdt[3]) /\ Level(gdt[3]) = 3 /\ IsCode(gdt[3])
         /\ IsFlat(gdt[4]) /\ Level(gdt[4]) = 3 /\ IsData(gdt[4])
         /\ IsTss(gdt[5], TssBusy)
         /\ Base(gdt[5]) = TssAddress /\ Limit(gdt[5]) = TssSize - 1
<1>1. gdt = [Descriptors EXCEPT ![5][41] = 1]
  BY DEF IInv, SegmentsSet
<1>2. /\ Descriptors[1] = set_code_seg(0, 2 ^ 20 - 1, 0)
      /\ Descriptors[2] = set_data_seg(0, 2 ^ 20 - 1, 0)
      /\ Descriptors[3] = set_code_seg(0, 2 ^ 20 - 1, 3)
      /\ Descriptors[4] = set_data_seg(0, 2 ^ 20 - 1, 3)
      /\ Descriptors[5] = set_tss_seg(TssAddress, TssSize - 1, 3)
      /\ DOMAIN Descriptors = 0 .. 15
  BY DEF Descriptors
<1>3. /\ gdt[1] = Descriptors[1] /\ gdt[2] = Descriptors[2]
      /\ gdt[3] = Descriptors[3] /\ gdt[4] = Descriptors[4]
      /\ gdt[5] = [Descriptors[5] EXCEPT ![41] = 1]
  BY <1>1, <1>2
<1>4. 0 \in 0 .. 3 /\ 3 \in 0 .. 3
  OBVIOUS
<1>5. IsFlat(gdt[1]) /\ Level(gdt[1]) = 0 /\ IsCode(gdt[1])
  BY <1>2, <1>3, <1>4, CodeReadsBack
<1>6. IsFlat(gdt[2]) /\ Level(gdt[2]) = 0 /\ IsData(gdt[2])
  BY <1>2, <1>3, <1>4, DataReadsBack
<1>7. IsFlat(gdt[3]) /\ Level(gdt[3]) = 3 /\ IsCode(gdt[3])
  BY <1>2, <1>3, <1>4, CodeReadsBack
<1>8. IsFlat(gdt[4]) /\ Level(gdt[4]) = 3 /\ IsData(gdt[4])
  BY <1>2, <1>3, <1>4, DataReadsBack
<1>9. /\ TssAddress \in Nat /\ TssAddress < 2 ^ 24
      /\ TssSize - 1 \in Nat /\ TssSize - 1 < 2 ^ 20
  <2>1. 2 ^ 20 < 2 ^ 24 /\ 103 < 2 ^ 20 /\ TssAddress \in 0 .. 2 ^ 20
    BY AddressAssumption
  <2>2. TssAddress \in Nat /\ TssAddress <= 2 ^ 20 /\ 2 ^ 20 \in Nat /\ 2 ^ 24 \in Nat
    BY <2>1
  <2> QED BY <2>1, <2>2 DEF TssSize
<1>10. /\ IsTss(gdt[5], TssBusy)
       /\ Base(gdt[5]) = TssAddress /\ Limit(gdt[5]) = TssSize - 1
  BY <1>2, <1>3, <1>9, TssReadsBack
<1> QED
  BY <1>5, <1>6, <1>7, <1>8, <1>10

(* A gate that is present is one that idt_set wrote.                       *)
LEMMA IInvGates ==
  ASSUME IInv, NEW v \in Vector, Present(idt[v])
  PROVE  /\ IsInterruptGate(idt[v])
         /\ GateSelector(idt[v]) = KernelCodeSelector
         /\ GateOffset(idt[v]) \in {StubAddress(n) : n \in Stub}
<1>1. idt[v] # NoDescriptor
  <2>1. 47 \in Bits
    BY DEF Bits
  <2>2. NoDescriptor[47] = 0
    BY <2>1 DEF NoDescriptor
  <2> QED BY <2>2 DEF Present
<1>2. PICK n \in Stub : idt[v] = idt_set(StubAddress(n))
  BY <1>1 DEF IInv, TypeOK
<1>3. n \in Vector
  BY DEF Stub, Vector
<1>4. /\ StubAddress(n) \in Nat /\ StubAddress(n) \div 2 ^ 16 < 2 ^ 16
  BY <1>3, StubAddressSmall
<1>5. /\ GateOffset(idt[v]) = StubAddress(n)
      /\ GateSelector(idt[v]) = 8
      /\ IsInterruptGate(idt[v])
  BY <1>2, <1>4, GateReadsBack
<1> QED
  BY <1>5 DEF KernelCodeSelector

(* What the invariant says of the segments.                                *)
LEMMA IInvSegments == IInv => SegmentsAsMeant
<1> SUFFICES ASSUME IInv PROVE SegmentsAsMeant
  OBVIOUS
<1>1. /\ KernelCodeSelector = 8 /\ UserCodeSelector = 27
      /\ KernelDataSelector = 16 /\ UserDataSelector = 35
      /\ IndexOf(8) = 1 /\ IndexOf(16) = 2 /\ IndexOf(27) = 3 /\ IndexOf(35) = 4
      /\ IndexOf(40) = 5
      /\ LevelOf(8) = 0 /\ LevelOf(16) = 0 /\ LevelOf(27) = 3 /\ LevelOf(35) = 3
  BY DEF KernelCodeSelector, UserCodeSelector, KernelDataSelector, UserDataSelector,
         IndexOf, LevelOf
<1> DEFINE Selects(s) == /\ 8 * IndexOf(s) + 7 <= loaded.gdt
                         /\ IsFlat(gdt[IndexOf(s)])
                         /\ Level(gdt[IndexOf(s)]) = LevelOf(s)
<1>2. ASSUME boot # "gdt_init"
      PROVE  /\ \A s \in {KernelCodeSelector, UserCodeSelector} :
                  Selects(s) /\ IsCode(gdt[IndexOf(s)])
             /\ \A s \in {KernelDataSelector, UserDataSelector, ss0} :
                  Selects(s) /\ IsData(gdt[IndexOf(s)])
             /\ IsTss(gdt[IndexOf(loaded.tr)], TssBusy)
             /\ Base(gdt[IndexOf(loaded.tr)]) = TssAddress
             /\ Limit(gdt[IndexOf(loaded.tr)]) = TssSize - 1
  <2>1. loaded.gdt = 47 /\ loaded.tr = 40 /\ ss0 = 16
    BY <1>2 DEF IInv, SegmentsSet
  <2>2. /\ 8 * 1 + 7 <= 47 /\ 8 * 2 + 7 <= 47 /\ 8 * 3 + 7 <= 47 /\ 8 * 4 + 7 <= 47
    OBVIOUS
  <2>3. Selects(8) /\ IsCode(gdt[1]) /\ Selects(27) /\ IsCode(gdt[3])
    BY <1>1, <1>2, <2>1, <2>2, IInvDescriptors
  <2>4. Selects(16) /\ IsData(gdt[2]) /\ Selects(35) /\ IsData(gdt[4])
    BY <1>1, <1>2, <2>1, <2>2, IInvDescriptors
  <2> HIDE DEF Selects
  <2> QED
    BY <1>1, <1>2, <2>1, <2>3, <2>4, IInvDescriptors
<1> QED
  BY <1>2, IInvGates DEF SegmentsAsMeant

(* Every selector that the kernel loads names, in the bits as the processor *)
(* reads them, the segment it is meant to, and every gate disables interrupts *)
(* and leads to a stub, wherever the linker puts the stubs and the TSS.    *)
THEOREM SegmentsReadAsMeant == Spec => []SegmentsAsMeant
  BY Invariance, IInvSegments, PTL
=============================================================================
