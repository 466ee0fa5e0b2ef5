---------------------------- MODULE KeyboardProofs --------------------------
(***************************************************************************)
(* Whatever keys are in use and however far the handler is behind them: a  *)
(* modifier does not stick, and every character is the one that was meant. *)
(*                                                                         *)
(* The handler decodes a byte long after the key that sent it was pressed, *)
(* so the invariant is about the bytes in between: a modifier's variable   *)
(* is followed through all of them to the value that it will have when     *)
(* they are read, and that value, not the present one, agrees with the     *)
(* keys (Followed).  For the characters the same path says under which     *)
(* shift each byte will be decoded (Decoded).                              *)
(***************************************************************************)
EXTENDS Keyboard, SequenceTheorems, TLAPS

(* The bytes of the modifiers and of the characters, and all bytes that a  *)
(* keyboard sends.                                                         *)
ModifierCodes == {42, 54, 29, 56}
CharacterCodes == {30, 57}

Byte == ModifierCodes \cup CharacterCodes \cup {c + Released : c \in ModifierCodes}
          \cup {c + Released : c \in CharacterCodes} \cup {Prefix}

(* What a byte makes of a modifier that has these codes,                   *)
After(codes, byte, value) ==
  IF byte \in codes THEN 1 ELSE IF byte - Released \in codes THEN 0 ELSE value

(* and the character that a byte without such a meaning stands for.        *)
Typed(byte, value) == IF value = 1 THEN kbd_us_shift[byte] ELSE kbd_us[byte]

(* s follows a modifier from one value to another through some bytes.      *)
IsPath(s, codes, b, from, to) ==
  /\ s \in [1 .. Len(b) + 1 -> {0, 1}]
  /\ s[1] = from
  /\ s[Len(b) + 1] = to
  /\ \A i \in 1 .. Len(b) : s[i + 1] = After(codes, b[i], s[i])

(* Some such path exists: read through b, the modifier goes from from to   *)
(* to.                                                                     *)
Followed(codes, b, from, to) == \E s : IsPath(s, codes, b, from, to)

(* n counts the characters in the first bytes, and m has them all, each as *)
(* it is decoded under the value that s has at its byte.                   *)
IsDecoding(n, s, b, m) ==
  /\ n \in [1 .. Len(b) + 1 -> 0 .. Len(m)]
  /\ n[1] = 0
  /\ n[Len(b) + 1] = Len(m)
  /\ \A i, j \in 1 .. Len(b) + 1 : i <= j => n[i] <= n[j]
  /\ \A i \in 1 .. Len(b) :
       IF b[i] \in CharacterCodes
       THEN n[i + 1] = n[i] + 1 /\ m[n[i + 1]] = Typed(b[i], s[i])
       ELSE n[i + 1] = n[i]

(* Read through b under a shift that goes from from to to, the characters  *)
(* are those of m.                                                         *)
Decoded(b, m, from, to) ==
  \E s, n : IsPath(s, {42, 54}, b, from, to) /\ IsDecoding(n, s, b, m)

-----------------------------------------------------------------------------
(* Reading the first byte, and sending one more                            *)

(* A modifier's variable is 0 or 1.                                        *)
LEMMA AfterFacts ==
  ASSUME NEW codes, NEW byte, NEW value \in {0, 1}
  PROVE  After(codes, byte, value) \in {0, 1}
  BY DEF After

(* What is left of a path when the first byte has been read.               *)
LEMMA PathTail ==
  ASSUME NEW b \in Seq(Byte), b # <<>>, NEW codes, NEW from, NEW to, NEW s,
         IsPath(s, codes, b, from, to)
  PROVE  IsPath([i \in 1 .. Len(Tail(b)) + 1 |-> s[i + 1]], codes, Tail(b),
                After(codes, Head(b), from), to)
<1> DEFINE t == [i \in 1 .. Len(Tail(b)) + 1 |-> s[i + 1]]
           l == Len(b)
<1>1. /\ l \in Nat \ {0} /\ Len(Tail(b)) = l - 1 /\ Head(b) = b[1]
      /\ \A i \in 1 .. l - 1 : Tail(b)[i] = b[i + 1]
  BY HeadTailProperties, EmptySeq
<1>2. /\ s \in [1 .. l + 1 -> {0, 1}] /\ s[1] = from /\ s[l + 1] = to
      /\ \A i \in 1 .. l : s[i + 1] = After(codes, b[i], s[i])
  BY DEF IsPath
<1>3. /\ t \in [1 .. l -> {0, 1}]
      /\ \A i \in 1 .. l : t[i] = s[i + 1]
  <2>1. \A i \in 1 .. l : i + 1 \in 1 .. l + 1
    BY <1>1
  <2>2. Len(Tail(b)) + 1 = l
    BY <1>1
  <2> QED BY <2>1, <2>2, <1>2
<1>4. t[1] = After(codes, Head(b), from) /\ t[l] = to
  <2>1. 1 \in 1 .. l /\ l \in 1 .. l
    BY <1>1
  <2>2. s[1 + 1] = After(codes, b[1], s[1])
    BY <2>1, <1>2
  <2> QED BY <2>1, <2>2, <1>1, <1>2, <1>3
<1>5. \A i \in 1 .. l - 1 : t[i + 1] = After(codes, Tail(b)[i], t[i])
  <2> TAKE i \in 1 .. l - 1
  <2>1. i \in 1 .. l /\ i + 1 \in 1 .. l
    BY <1>1
  <2>2. s[(i + 1) + 1] = After(codes, b[i + 1], s[i + 1])
    BY <2>1, <1>2
  <2> QED BY <2>1, <2>2, <1>1, <1>3
<1> HIDE DEF t, l
<1>6. Len(Tail(b)) + 1 = l
  BY <1>1
<1>7. IsPath(t, codes, Tail(b), After(codes, Head(b), from), to)
  BY <1>1, <1>3, <1>4, <1>5, <1>6 DEF IsPath
<1> QED
  BY <1>7 DEF t

(* A path goes on through one more byte.                                   *)
LEMMA PathAppend ==
  ASSUME NEW b \in Seq(Byte), NEW x \in Byte, NEW codes, NEW from, NEW to, NEW s,
         IsPath(s, codes, b, from, to)
  PROVE  IsPath([i \in 1 .. Len(b) + 2 |->
                   IF i <= Len(b) + 1 THEN s[i] ELSE After(codes, x, to)],
                codes, Append(b, x), from, After(codes, x, to))
<1> DEFINE t == [i \in 1 .. Len(b) + 2 |->
                   IF i <= Len(b) + 1 THEN s[i] ELSE After(codes, x, to)]
           l == Len(b)
           d == Append(b, x)
<1>1. /\ l \in Nat /\ Len(d) = l + 1 /\ d[l + 1] = x
      /\ \A i \in 1 .. l : d[i] = b[i]
  BY AppendProperties, LenProperties
<1>2. /\ s \in [1 .. l + 1 -> {0, 1}] /\ s[1] = from /\ s[l + 1] = to
      /\ \A i \in 1 .. l : s[i + 1] = After(codes, b[i], s[i])
  BY DEF IsPath
<1>3. to \in {0, 1} /\ After(codes, x, to) \in {0, 1}
  BY <1>1, <1>2, AfterFacts
<1>4. /\ t \in [1 .. l + 2 -> {0, 1}]
      /\ \A i \in 1 .. l + 1 : t[i] = s[i]
      /\ t[l + 2] = After(codes, x, to)
  <2>1. \A i \in 1 .. l + 2 : i <= l + 1 => i \in 1 .. l + 1
    BY <1>1
  <2>2. l + 2 \in 1 .. l + 2 /\ ~ (l + 2 <= l + 1)
    BY <1>1
  <2>3. \A i \in 1 .. l + 1 : i \in 1 .. l + 2 /\ i <= l + 1
    BY <1>1
  <2> QED BY <1>2, <1>3, <2>1, <2>2, <2>3
<1> HIDE DEF t, l, d
<1>5. \A i \in 1 .. l + 1 : t[i + 1] = After(codes, d[i], t[i])
  <2> TAKE i \in 1 .. l + 1
  <2>1. CASE i \in 1 .. l
    <3>1. i + 1 \in 1 .. l + 1
      BY <2>1, <1>1
    <3> QED BY <2>1, <3>1, <1>1, <1>2, <1>4
  <2>2. CASE i = l + 1
    <3>1. i + 1 = l + 2
      BY <2>2, <1>1
    <3> QED BY <2>2, <3>1, <1>1, <1>2, <1>4
  <2>3. i \in 1 .. l \/ i = l + 1
    BY <1>1
  <2> QED BY <2>1, <2>2, <2>3
<1>6. t[1] = from /\ Len(d) + 1 = l + 2
  <2>1. 1 \in 1 .. l + 1 /\ Len(d) + 1 = l + 2
    BY <1>1
  <2> QED BY <2>1, <1>2, <1>4
<1>7. IsPath(t, codes, d, from, After(codes, x, to))
  BY <1>1, <1>4, <1>5, <1>6 DEF IsPath
<1> QED
  BY <1>7 DEF t, l, d

(* The handler reads a byte: the modifier takes the value on the path.     *)
LEMMA FollowedTail ==
  ASSUME NEW b \in Seq(Byte), b # <<>>, NEW codes, NEW from, NEW to,
         Followed(codes, b, from, to)
  PROVE  Followed(codes, Tail(b), After(codes, Head(b), from), to)
  BY PathTail DEF Followed

(* The keyboard sends a byte.                                              *)
LEMMA FollowedAppend ==
  ASSUME NEW b \in Seq(Byte), NEW x \in Byte, NEW codes, NEW from, NEW to,
         Followed(codes, b, from, to)
  PROVE  Followed(codes, Append(b, x), from, After(codes, x, to))
  BY PathAppend DEF Followed

(* With nothing left to read the path has arrived.                         *)
LEMMA FollowedEmpty ==
  ASSUME NEW codes, NEW from, NEW to, Followed(codes, <<>>, from, to)
  PROVE  from = to
  BY EmptySeq DEF Followed, IsPath

(* Nothing to read changes nothing.                                        *)
LEMMA FollowedNothing ==
  ASSUME NEW codes, NEW v \in {0, 1}
  PROVE  Followed(codes, <<>>, v, v)
<1>1. IsPath([i \in 1 .. 1 |-> v], codes, <<>>, v, v)
  BY EmptySeq DEF IsPath
<1> QED
  BY <1>1 DEF Followed

(* The keyboard sends a byte that is no character.                         *)
LEMMA DecodingAppendOther ==
  ASSUME NEW b \in Seq(Byte), NEW x \in Byte \ CharacterCodes, NEW m \in Seq(Chars),
         NEW from, NEW to, Decoded(b, m, from, to)
  PROVE  Decoded(Append(b, x), m, from, After({42, 54}, x, to))
<1> DEFINE l == Len(b)
           d == Append(b, x)
<1>1. PICK s, n : IsPath(s, {42, 54}, b, from, to) /\ IsDecoding(n, s, b, m)
  BY DEF Decoded
<1> DEFINE t == [i \in 1 .. Len(b) + 2 |->
                   IF i <= Len(b) + 1 THEN s[i] ELSE After({42, 54}, x, to)]
           o == [i \in 1 .. Len(b) + 2 |-> IF i <= Len(b) + 1 THEN n[i] ELSE Len(m)]
<1>2. IsPath(t, {42, 54}, d, from, After({42, 54}, x, to))
  BY <1>1, PathAppend
<1>3. /\ l \in Nat /\ Len(d) = l + 1 /\ d[l + 1] = x /\ Len(m) \in Nat
      /\ \A i \in 1 .. l : d[i] = b[i]
  BY AppendProperties, LenProperties
<1>4. /\ n \in [1 .. l + 1 -> 0 .. Len(m)] /\ n[1] = 0 /\ n[l + 1] = Len(m)
      /\ \A i, j \in 1 .. l + 1 : i <= j => n[i] <= n[j]
      /\ \A i \in 1 .. l : IF b[i] \in CharacterCodes
                           THEN n[i + 1] = n[i] + 1 /\ m[n[i + 1]] = Typed(b[i], s[i])
                           ELSE n[i + 1] = n[i]
  BY <1>1 DEF IsDecoding
<1>5. /\ \A i \in 1 .. l + 2 : i \in 1 .. l + 1 \/ i = l + 2
      /\ \A i \in 1 .. l + 1 : i \in 1 .. l + 2 /\ i <= l + 1
      /\ l + 2 \in 1 .. l + 2 /\ ~ (l + 2 <= l + 1)
  BY <1>3
<1>6. /\ o \in [1 .. l + 2 -> 0 .. Len(m)]
      /\ \A i \in 1 .. l + 1 : o[i] = n[i] /\ t[i] = s[i]
      /\ o[l + 2] = Len(m)
  BY <1>3, <1>4, <1>5
<1> HIDE DEF l, d, t, o
<1>7. \A i, j \in 1 .. l + 2 : i <= j => o[i] <= o[j]
  <2> SUFFICES ASSUME NEW i \in 1 .. l + 2, NEW j \in 1 .. l + 2, i <= j
               PROVE  o[i] <= o[j]
    OBVIOUS
  <2>1. CASE j = l + 2
    <3>1. o[i] \in 0 .. Len(m)
      BY <1>6
    <3> QED BY <2>1, <3>1, <1>3, <1>6
  <2>2. CASE j \in 1 .. l + 1
    <3>1. i \in 1 .. l + 1
      BY <2>2, <1>3
    <3> QED BY <2>2, <3>1, <1>4, <1>6
  <2> QED BY <2>1, <2>2, <1>5
<1>8. \A i \in 1 .. l + 1 : IF d[i] \in CharacterCodes
                            THEN o[i + 1] = o[i] + 1 /\ m[o[i + 1]] = Typed(d[i], t[i])
                            ELSE o[i + 1] = o[i]
  <2> TAKE i \in 1 .. l + 1
  <2>1. CASE i \in 1 .. l
    <3>1. i + 1 \in 1 .. l + 1
      BY <2>1, <1>3
    <3>2. d[i] = b[i] /\ o[i] = n[i] /\ t[i] = s[i] /\ o[i + 1] = n[i + 1]
      BY <2>1, <3>1, <1>3, <1>6
    <3> QED BY <2>1, <3>2, <1>4
  <2>2. CASE i = l + 1
    <3>1. i + 1 = l + 2
      BY <2>2, <1>3
    <3> QED BY <2>2, <3>1, <1>3, <1>4, <1>6
  <2>3. i \in 1 .. l \/ i = l + 1
    BY <1>3
  <2> QED BY <2>1, <2>2, <2>3
<1>9. Len(d) + 1 = l + 2 /\ 1 \in 1 .. l + 1
  BY <1>3
<1>10. IsDecoding(o, t, d, m)
  BY <1>3, <1>4, <1>6, <1>7, <1>8, <1>9 DEF IsDecoding
<1> QED
  BY <1>2, <1>10 DEF Decoded, d

(* The keyboard sends a character, and means what it will be decoded to.   *)
LEMMA DecodingAppendCharacter ==
  ASSUME NEW b \in Seq(Byte), NEW x \in CharacterCodes, NEW m \in Seq(Chars),
         NEW from, NEW to, Decoded(b, m, from, to), Typed(x, to) \in Chars
  PROVE  Decoded(Append(b, x), Append(m, Typed(x, to)), from, to)
<1> DEFINE l == Len(b)
           d == Append(b, x)
           q == Len(m)
           p == Append(m, Typed(x, to))
<1>1. PICK s, n : IsPath(s, {42, 54}, b, from, to) /\ IsDecoding(n, s, b, m)
  BY DEF Decoded
<1> DEFINE t == [i \in 1 .. Len(b) + 2 |->
                   IF i <= Len(b) + 1 THEN s[i] ELSE After({42, 54}, x, to)]
           o == [i \in 1 .. Len(b) + 2 |-> IF i <= Len(b) + 1 THEN n[i] ELSE Len(m) + 1]
<1>2. IsPath(t, {42, 54}, d, from, to)
  <2>1. x \in Byte
    BY DEF Byte
  <2>2. After({42, 54}, x, to) = to
    BY DEF After, CharacterCodes, Released
  <2>3. IsPath(t, {42, 54}, d, from, After({42, 54}, x, to))
    BY <1>1, <2>1, PathAppend
  <2> HIDE DEF t, d
  <2> QED BY <2>2, <2>3
<1>3. /\ l \in Nat /\ Len(d) = l + 1 /\ d[l + 1] = x
      /\ \A i \in 1 .. l : d[i] = b[i]
  <2>1. x \in Byte
    BY DEF Byte
  <2> QED BY <2>1, AppendProperties, LenProperties
<1>11. /\ q \in Nat /\ Len(p) = q + 1 /\ p[q + 1] = Typed(x, to)
       /\ \A i \in 1 .. q : p[i] = m[i]
  BY AppendProperties, LenProperties
<1>4. /\ n \in [1 .. l + 1 -> 0 .. q] /\ n[1] = 0 /\ n[l + 1] = q
      /\ \A i, j \in 1 .. l + 1 : i <= j => n[i] <= n[j]
      /\ \A i \in 1 .. l : IF b[i] \in CharacterCodes
                           THEN n[i + 1] = n[i] + 1 /\ m[n[i + 1]] = Typed(b[i], s[i])
                           ELSE n[i + 1] = n[i]
  BY <1>1 DEF IsDecoding
<1>5. /\ \A i \in 1 .. l + 2 : i \in 1 .. l + 1 \/ i = l + 2
      /\ \A i \in 1 .. l + 1 : i \in 1 .. l + 2 /\ i <= l + 1
      /\ l + 2 \in 1 .. l + 2 /\ ~ (l + 2 <= l + 1)
  BY <1>3
<1>6. /\ o \in [1 .. l + 2 -> 0 .. q + 1]
      /\ \A i \in 1 .. l + 1 : o[i] = n[i] /\ t[i] = s[i]
      /\ o[l + 2] = q + 1
  BY <1>3, <1>4, <1>5, <1>11
<1>12. s[l + 1] = to
  BY <1>1 DEF IsPath
<1> HIDE DEF l, d, t, o, p, q
<1>7. \A i, j \in 1 .. l + 2 : i <= j => o[i] <= o[j]
  <2> SUFFICES ASSUME NEW i \in 1 .. l + 2, NEW j \in 1 .. l + 2, i <= j
               PROVE  o[i] <= o[j]
    OBVIOUS
  <2>1. CASE j = l + 2
    <3>1. o[i] \in 0 .. q + 1
      BY <1>6
    <3> QED BY <2>1, <3>1, <1>11, <1>6
  <2>2. CASE j \in 1 .. l + 1
    <3>1. i \in 1 .. l + 1
      BY <2>2, <1>3
    <3> QED BY <2>2, <3>1, <1>4, <1>6
  <2> QED BY <2>1, <2>2, <1>5
<1>8. \A i \in 1 .. l + 1 : IF d[i] \in CharacterCodes
                            THEN o[i + 1] = o[i] + 1 /\ p[o[i + 1]] = Typed(d[i], t[i])
                            ELSE o[i + 1] = o[i]
  <2> TAKE i \in 1 .. l + 1
  <2>1. CASE i \in 1 .. l
    <3>1. i + 1 \in 1 .. l + 1 /\ i \in 1 .. l + 1
      BY <2>1, <1>3
    <3>2. d[i] = b[i] /\ o[i] = n[i] /\ t[i] = s[i] /\ o[i + 1] = n[i + 1]
      BY <2>1, <3>1, <1>3, <1>6
    <3>3. n[i] \in 0 .. q /\ n[i + 1] \in 0 .. q
      BY <3>1, <1>4
    <3>4. n[i + 1] = n[i] + 1 => n[i + 1] \in 1 .. q
      BY <3>3, <1>11
    <3> QED BY <2>1, <3>2, <3>4, <1>4, <1>11
  <2>2. CASE i = l + 1
    <3>1. i + 1 = l + 2
      BY <2>2, <1>3
    <3>2. o[i + 1] = q + 1 /\ o[i] = q /\ d[i] = x /\ t[i] = to
      BY <2>2, <3>1, <1>3, <1>4, <1>6, <1>12
    <3> QED BY <3>2, <1>11
  <2>3. i \in 1 .. l \/ i = l + 1
    BY <1>3
  <2> QED BY <2>1, <2>2, <2>3
<1>9. Len(d) + 1 = l + 2 /\ 1 \in 1 .. l + 1
  BY <1>3
<1>10. IsDecoding(o, t, d, p)
  BY <1>3, <1>4, <1>6, <1>7, <1>8, <1>9, <1>11 DEF IsDecoding
<1> QED
  BY <1>2, <1>10 DEF Decoded, d, p

(* The handler reads a byte that is no character.                          *)
LEMMA DecodingTailOther ==
  ASSUME NEW b \in Seq(Byte), b # <<>>, Head(b) \notin CharacterCodes,
         NEW m \in Seq(Chars), NEW from, NEW to, Decoded(b, m, from, to)
  PROVE  Decoded(Tail(b), m, After({42, 54}, Head(b), from), to)
<1> DEFINE l == Len(b)
           d == Tail(b)
<1>1. PICK s, n : IsPath(s, {42, 54}, b, from, to) /\ IsDecoding(n, s, b, m)
  BY DEF Decoded
<1> DEFINE t == [i \in 1 .. Len(Tail(b)) + 1 |-> s[i + 1]]
           o == [i \in 1 .. Len(Tail(b)) + 1 |-> n[i + 1]]
<1>2. IsPath(t, {42, 54}, d, After({42, 54}, Head(b), from), to)
  BY <1>1, PathTail
<1>3. /\ l \in Nat \ {0} /\ Len(d) = l - 1 /\ Len(d) + 1 = l /\ Head(b) = b[1]
      /\ \A i \in 1 .. l - 1 : d[i] = b[i + 1]
  BY HeadTailProperties, EmptySeq
<1>4. /\ n \in [1 .. l + 1 -> 0 .. Len(m)] /\ n[1] = 0 /\ n[l + 1] = Len(m)
      /\ \A i, j \in 1 .. l + 1 : i <= j => n[i] <= n[j]
      /\ \A i \in 1 .. l : IF b[i] \in CharacterCodes
                           THEN n[i + 1] = n[i] + 1 /\ m[n[i + 1]] = Typed(b[i], s[i])
                           ELSE n[i + 1] = n[i]
  BY <1>1 DEF IsDecoding
<1>5. /\ \A i \in 1 .. l : i + 1 \in 1 .. l + 1
      /\ \A i \in 1 .. l - 1 : i \in 1 .. l /\ i + 1 \in 1 .. l
      /\ 1 \in 1 .. l /\ l \in 1 .. l
  BY <1>3
<1>6. /\ o \in [1 .. l -> 0 .. Len(m)]
      /\ \A i \in 1 .. l : o[i] = n[i + 1] /\ t[i] = s[i + 1]
  BY <1>3, <1>4, <1>5
<1> HIDE DEF l, d, t, o
<1>7. o[1] = 0 /\ o[l] = Len(m)
  <2>1. n[1 + 1] = n[1]
    BY <1>3, <1>4, <1>5
  <2> QED BY <2>1, <1>4, <1>5, <1>6
<1>8. \A i, j \in 1 .. l : i <= j => o[i] <= o[j]
  <2> SUFFICES ASSUME NEW i \in 1 .. l, NEW j \in 1 .. l, i <= j
               PROVE  o[i] <= o[j]
    OBVIOUS
  <2>1. i + 1 \in 1 .. l + 1 /\ j + 1 \in 1 .. l + 1 /\ i + 1 <= j + 1
    BY <1>3
  <2> QED BY <2>1, <1>4, <1>6
<1>9. \A i \in 1 .. l - 1 : IF d[i] \in CharacterCodes
                            THEN o[i + 1] = o[i] + 1 /\ m[o[i + 1]] = Typed(d[i], t[i])
                            ELSE o[i + 1] = o[i]
  <2> TAKE i \in 1 .. l - 1
  <2>1. PICK j \in 1 .. l : j = i + 1
    BY <1>5
  <2>2. o[i] = n[j] /\ o[i + 1] = n[j + 1] /\ t[i] = s[j] /\ d[i] = b[j]
    BY <2>1, <1>3, <1>5, <1>6
  <2> QED BY <2>2, <1>4
<1>10. IsDecoding(o, t, d, m)
  BY <1>3, <1>6, <1>7, <1>8, <1>9 DEF IsDecoding
<1> QED
  BY <1>2, <1>10 DEF Decoded, d

(* The handler reads a character: it is the first of those meant.          *)
LEMMA DecodingTailCharacter ==
  ASSUME NEW b \in Seq(Byte), b # <<>>, Head(b) \in CharacterCodes,
         NEW m \in Seq(Chars), NEW from, NEW to, Decoded(b, m, from, to)
  PROVE  /\ m # <<>>
         /\ Head(m) = Typed(Head(b), from)
         /\ Decoded(Tail(b), Tail(m), from, to)
<1> DEFINE l == Len(b)
           d == Tail(b)
           q == Len(m)
           p == Tail(m)
<1>1. PICK s, n : IsPath(s, {42, 54}, b, from, to) /\ IsDecoding(n, s, b, m)
  BY DEF Decoded
<1> DEFINE t == [i \in 1 .. Len(Tail(b)) + 1 |-> s[i + 1]]
           o == [i \in 1 .. Len(Tail(b)) + 1 |-> n[i + 1] - 1]
<1>2. IsPath(t, {42, 54}, d, from, to)
  <2>1. After({42, 54}, Head(b), from) = from
    BY DEF After, CharacterCodes, Released
  <2>2. IsPath(t, {42, 54}, d, After({42, 54}, Head(b), from), to)
    BY <1>1, PathTail
  <2> HIDE DEF t, d
  <2> QED BY <2>1, <2>2
<1>3. /\ l \in Nat \ {0} /\ Len(d) = l - 1 /\ Len(d) + 1 = l /\ Head(b) = b[1]
      /\ \A i \in 1 .. l - 1 : d[i] = b[i + 1]
  BY HeadTailProperties, EmptySeq
<1>4. /\ n \in [1 .. l + 1 -> 0 .. q] /\ n[1] = 0 /\ n[l + 1] = q
      /\ \A i, j \in 1 .. l + 1 : i <= j => n[i] <= n[j]
      /\ \A i \in 1 .. l : IF b[i] \in CharacterCodes
                           THEN n[i + 1] = n[i] + 1 /\ m[n[i + 1]] = Typed(b[i], s[i])
                           ELSE n[i + 1] = n[i]
  BY <1>1 DEF IsDecoding
<1>12. q \in Nat /\ s[1] = from
  BY <1>1, LenProperties DEF IsPath
<1>5. /\ \A i \in 1 .. l : i + 1 \in 1 .. l + 1 /\ 2 <= i + 1
      /\ \A i \in 1 .. l - 1 : i \in 1 .. l /\ i + 1 \in 1 .. l
      /\ 1 \in 1 .. l /\ l \in 1 .. l /\ 2 \in 1 .. l + 1
  BY <1>3
<1>13. n[2] = 1 /\ m[1] = Typed(Head(b), from)
  <2>1. n[1 + 1] = n[1] + 1 /\ m[n[1 + 1]] = Typed(b[1], s[1])
    BY <1>3, <1>4, <1>5
  <2> QED BY <2>1, <1>3, <1>4, <1>12
<1>14. m # <<>> /\ q \in Nat \ {0}
  <2>1. n[2] \in 0 .. q
    BY <1>4, <1>5
  <2> QED BY <2>1, <1>12, <1>13, EmptySeq
<1>15. /\ p \in Seq(Chars) /\ Len(p) = q - 1 /\ Head(m) = m[1]
       /\ \A i \in 1 .. q - 1 : p[i] = m[i + 1]
  BY <1>14, HeadTailProperties
<1>16. \A i \in 1 .. l : n[i + 1] \in 1 .. q /\ n[i + 1] - 1 \in 0 .. q - 1
  <2> TAKE i \in 1 .. l
  <2>1. n[2] <= n[i + 1] /\ n[i + 1] \in 0 .. q
    BY <1>4, <1>5
  <2> QED BY <2>1, <1>12, <1>13
<1>6. /\ o \in [1 .. l -> 0 .. q - 1]
      /\ \A i \in 1 .. l : o[i] = n[i + 1] - 1 /\ t[i] = s[i + 1]
  BY <1>3, <1>16
<1> HIDE DEF l, d, t, o, p, q
<1>7. o[1] = 0 /\ o[l] = Len(p)
  <2>1. PICK i \in 1 .. l : i = 1 /\ i + 1 = 2
    BY <1>5
  <2>2. o[i] = n[i + 1] - 1 /\ o[l] = n[l + 1] - 1
    BY <1>5, <1>6
  <2> QED BY <2>1, <2>2, <1>4, <1>13, <1>15
<1>8. \A i, j \in 1 .. l : i <= j => o[i] <= o[j]
  <2> SUFFICES ASSUME NEW i \in 1 .. l, NEW j \in 1 .. l, i <= j
               PROVE  o[i] <= o[j]
    OBVIOUS
  <2>1. i + 1 \in 1 .. l + 1 /\ j + 1 \in 1 .. l + 1 /\ i + 1 <= j + 1
    BY <1>3
  <2>2. n[i + 1] <= n[j + 1]
    BY <2>1, <1>4
  <2>3. PICK x \in 1 .. q : x = n[i + 1] /\ o[i] = x - 1
    BY <1>6, <1>16
  <2>4. PICK y \in 1 .. q : y = n[j + 1] /\ o[j] = y - 1
    BY <1>6, <1>16
  <2>5. x <= y
    BY <2>2, <2>3, <2>4
  <2>6. x - 1 <= y - 1
    BY <1>12, <2>5
  <2> QED BY <2>3, <2>4, <2>6
<1>9. \A i \in 1 .. l - 1 : IF d[i] \in CharacterCodes
                            THEN o[i + 1] = o[i] + 1 /\ p[o[i + 1]] = Typed(d[i], t[i])
                            ELSE o[i + 1] = o[i]
  <2> TAKE i \in 1 .. l - 1
  <2>1. PICK j \in 1 .. l : j = i + 1
    BY <1>5
  <2>2. o[i] = n[j] - 1 /\ o[j] = n[j + 1] - 1 /\ t[i] = s[j] /\ d[i] = b[j]
    BY <2>1, <1>3, <1>5, <1>6
  <2>3. n[j] \in 1 .. q /\ n[j + 1] \in 1 .. q
    BY <2>1, <1>5, <1>16
  <2>4. CASE d[i] \in CharacterCodes
    <3>1. n[j + 1] = n[j] + 1 /\ m[n[j + 1]] = Typed(b[j], s[j])
      BY <2>2, <2>4, <1>4
    <3>2. o[j] \in 1 .. q - 1 /\ o[j] + 1 = n[j + 1]
      BY <2>2, <2>3, <3>1, <1>12
    <3>3. p[o[j]] = m[n[j + 1]]
      BY <3>2, <1>15
    <3> QED BY <2>1, <2>2, <2>3, <2>4, <3>1, <3>3, <1>12
  <2>5. CASE d[i] \notin CharacterCodes
    <3>1. n[j + 1] = n[j]
      BY <2>2, <2>5, <1>4
    <3> QED BY <2>1, <2>2, <2>5, <3>1
  <2> QED BY <2>4, <2>5
<1>10. IsDecoding(o, t, d, p)
  BY <1>3, <1>6, <1>7, <1>8, <1>9, <1>15 DEF IsDecoding
<1> QED
  BY <1>2, <1>10, <1>13, <1>14, <1>15 DEF Decoded, d, p

(* With nothing left to read no character is outstanding.                  *)
LEMMA DecodedEmpty ==
  ASSUME NEW m \in Seq(Chars), NEW from, NEW to, Decoded(<<>>, m, from, to)
  PROVE  m = <<>>
<1>1. Len(<<>>) = 0
  BY EmptySeq
<1>2. Len(m) = 0
  BY <1>1 DEF Decoded, IsDecoding
<1> QED
  BY <1>2, EmptySeq

(* At the start nothing has been sent or meant.                            *)
LEMMA DecodedNothing == Decoded(<<>>, <<>>, 0, 0)
<1>1. Len(<<>>) = 0
  BY EmptySeq
<1>2. IsPath([i \in 1 .. 1 |-> 0], {42, 54}, <<>>, 0, 0)
  BY <1>1 DEF IsPath
<1>3. IsDecoding([i \in 1 .. 1 |-> 0], [i \in 1 .. 1 |-> 0], <<>>, <<>>)
  BY <1>1 DEF IsDecoding
<1> QED
  BY <1>2, <1>3 DEF Decoded

-----------------------------------------------------------------------------
(* The bytes of a key                                                      *)

(* What is to be read once a key has been pressed or released.             *)
SentBytes(b, k, bit) ==
  b \o (IF k \in Extended THEN <<Prefix>> ELSE <<>>) \o <<ScanCode[k] + bit>>

(* It is one byte more, or two.                                            *)
LEMMA SentIsAppended ==
  ASSUME NEW b \in Seq(Byte), NEW k \in AllKeys, NEW bit \in {0, Released}
  PROVE  /\ ScanCode[k] + bit \in Byte
         /\ k \notin Extended => SentBytes(b, k, bit) = Append(b, ScanCode[k] + bit)
         /\ k \in Extended =>
              SentBytes(b, k, bit) = Append(Append(b, Prefix), ScanCode[k] + bit)
<1>1. ScanCode[k] \in ModifierCodes \cup CharacterCodes
  BY DEF ScanCode, AllKeys, ModifierCodes, CharacterCodes
<1>2. ScanCode[k] + 0 = ScanCode[k]
  BY <1>1 DEF ModifierCodes, CharacterCodes
<1>3. ScanCode[k] + bit \in Byte
  BY <1>1, <1>2 DEF Byte
<1>4. \A c \in Seq(Byte) : c \o <<ScanCode[k] + bit>> = Append(c, ScanCode[k] + bit)
  BY <1>3, AppendIsConcat
<1>5. Prefix \in Byte /\ b \o <<Prefix>> = Append(b, Prefix) /\ b \o <<>> = b
      /\ Append(b, Prefix) \in Seq(Byte)
  <2>1. Prefix \in Byte
    BY DEF Byte
  <2> QED BY <2>1, AppendIsConcat, ConcatEmptySeq, AppendProperties
<1> QED
  BY <1>3, <1>4, <1>5 DEF SentBytes

(* They are bytes, and at most two more.                                   *)
LEMMA SentBytesFacts ==
  ASSUME NEW b \in Seq(Byte), NEW k \in AllKeys, NEW bit \in {0, Released}
  PROVE  /\ SentBytes(b, k, bit) \in Seq(Byte)
         /\ SentBytes(b, k, bit) # <<>>
         /\ Len(SentBytes(b, k, bit)) <= Len(b) + 2
<1>1. Prefix \in Byte /\ ScanCode[k] + bit \in Byte
  BY SentIsAppended DEF Byte
<1>2. Append(b, Prefix) \in Seq(Byte) /\ Len(Append(b, Prefix)) = Len(b) + 1
      /\ Len(b) \in Nat
  BY <1>1, AppendProperties, LenProperties
<1>3. \A c \in Seq(Byte) : /\ Append(c, ScanCode[k] + bit) \in Seq(Byte)
                           /\ Append(c, ScanCode[k] + bit) # <<>>
                           /\ Len(Append(c, ScanCode[k] + bit)) = Len(c) + 1
  BY <1>1, AppendProperties
<1>4. CASE k \notin Extended
  <2>1. SentBytes(b, k, bit) = Append(b, ScanCode[k] + bit)
    BY <1>4, SentIsAppended
  <2> QED BY <1>2, <1>3, <2>1
<1>5. CASE k \in Extended
  <2>1. SentBytes(b, k, bit) = Append(Append(b, Prefix), ScanCode[k] + bit)
    BY <1>5, SentIsAppended
  <2> QED BY <1>2, <1>3, <2>1
<1> QED
  BY <1>4, <1>5

(* The prefix means nothing to the handler.                                *)
LEMMA PrefixMeansNothing ==
  ASSUME NEW codes \in SUBSET ModifierCodes, NEW value
  PROVE  After(codes, Prefix, value) = value
  BY DEF After, Prefix, Released, ModifierCodes

(* Only the last byte of a key means something to a modifier.              *)
LEMMA SentFollowed ==
  ASSUME NEW b \in Seq(Byte), NEW k \in AllKeys, NEW bit \in {0, Released},
         NEW codes \in SUBSET ModifierCodes, NEW from, NEW to,
         Followed(codes, b, from, to)
  PROVE  Followed(codes, SentBytes(b, k, bit), from,
                  After(codes, ScanCode[k] + bit, to))
<1>1. CASE k \notin Extended
  BY <1>1, SentIsAppended, FollowedAppend
<1>2. CASE k \in Extended
  <2>1. Prefix \in Byte
    BY DEF Byte
  <2>2. Append(b, Prefix) \in Seq(Byte)
    BY <2>1, AppendProperties
  <2>3. Followed(codes, Append(b, Prefix), from, to)
    BY <2>1, FollowedAppend, PrefixMeansNothing
  <2> QED
    BY <1>2, <2>2, <2>3, SentIsAppended, FollowedAppend
<1> QED
  BY <1>1, <1>2

(* Only the last byte of a key can be a character.                         *)
LEMMA SentDecoded ==
  ASSUME NEW b \in Seq(Byte), NEW k \in AllKeys, NEW bit \in {0, Released},
         NEW m \in Seq(Chars), NEW from, NEW to, Decoded(b, m, from, to)
  PROVE  /\ ScanCode[k] + bit \notin CharacterCodes =>
              Decoded(SentBytes(b, k, bit), m, from,
                      After({42, 54}, ScanCode[k] + bit, to))
         /\ ScanCode[k] + bit \in CharacterCodes
              /\ Typed(ScanCode[k] + bit, to) \in Chars =>
              Decoded(SentBytes(b, k, bit),
                      Append(m, Typed(ScanCode[k] + bit, to)), from, to)
<1> DEFINE x == ScanCode[k] + bit
<1>1. ASSUME NEW c \in Seq(Byte), Decoded(c, m, from, to),
             SentBytes(b, k, bit) = Append(c, x)
      PROVE  /\ x \notin CharacterCodes =>
                  Decoded(SentBytes(b, k, bit), m, from, After({42, 54}, x, to))
             /\ x \in CharacterCodes /\ Typed(x, to) \in Chars =>
                  Decoded(SentBytes(b, k, bit), Append(m, Typed(x, to)), from, to)
  <2>1. x \in Byte
    BY SentIsAppended
  <2> HIDE DEF x
  <2>2. x \notin CharacterCodes => Decoded(Append(c, x), m, from, After({42, 54}, x, to))
    BY <1>1, <2>1, DecodingAppendOther
  <2>3. x \in CharacterCodes /\ Typed(x, to) \in Chars =>
          Decoded(Append(c, x), Append(m, Typed(x, to)), from, to)
    BY <1>1, DecodingAppendCharacter
  <2> QED BY <1>1, <2>2, <2>3
<1>2. CASE k \notin Extended
  <2>1. SentBytes(b, k, bit) = Append(b, x)
    BY <1>2, SentIsAppended
  <2> HIDE DEF x
  <2>2. /\ x \notin CharacterCodes =>
             Decoded(SentBytes(b, k, bit), m, from, After({42, 54}, x, to))
        /\ x \in CharacterCodes /\ Typed(x, to) \in Chars =>
             Decoded(SentBytes(b, k, bit), Append(m, Typed(x, to)), from, to)
    BY <2>1, <1>1
  <2> QED BY <2>2 DEF x
<1>3. CASE k \in Extended
  <2>1. Prefix \in Byte /\ Prefix \notin CharacterCodes
    BY DEF Byte, Prefix, CharacterCodes
  <2>2. Append(b, Prefix) \in Seq(Byte)
    BY <2>1, AppendProperties
  <2>3. After({42, 54}, Prefix, to) = to
    BY DEF After, Prefix, Released
  <2>4. Decoded(Append(b, Prefix), m, from, to)
    <3>1. Decoded(Append(b, Prefix), m, from, After({42, 54}, Prefix, to))
      BY <2>1, DecodingAppendOther
    <3> QED BY <2>3, <3>1
  <2>5. SentBytes(b, k, bit) = Append(Append(b, Prefix), x)
    BY <1>3, SentIsAppended
  <2> HIDE DEF x
  <2>6. /\ x \notin CharacterCodes =>
             Decoded(SentBytes(b, k, bit), m, from, After({42, 54}, x, to))
        /\ x \in CharacterCodes /\ Typed(x, to) \in Chars =>
             Decoded(SentBytes(b, k, bit), Append(m, Typed(x, to)), from, to)
    BY <2>2, <2>4, <2>5, <1>1
  <2> QED BY <2>6 DEF x
<1> QED
  BY <1>2, <1>3

-----------------------------------------------------------------------------
(* The inductive invariant                                                 *)

ShiftHeld(h) == IF h \cap ShiftKeys = {} THEN 0 ELSE 1

(* The variable of a modifier has value; after the bytes in b it will be   *)
(* off if none of its keys is held.                                        *)
Settled(keys, codes, h, b, value) ==
  \E to \in {0, 1} :
    /\ Followed(codes, b, value, to)
    /\ h \cap keys = {} => to = 0

(* The keys that share a variable.                                         *)
CtrlKeys == {"ctrl_l", "ctrl_r"}
AltKeys == {"alt_l", "alt_r"}

(* The type invariant with sequences in place of their ranges.             *)
WellTyped ==
  /\ held \subseteq Keys
  /\ repeats \subseteq held
  /\ bytes \in Seq(Byte)
  /\ Len(bytes) <= MaxPending
  /\ shift \in {0, 1} /\ ctrl \in {0, 1} /\ alt \in {0, 1}
  /\ meant \in Seq(Chars)
  /\ wrong \in BOOLEAN
  /\ together \in BOOLEAN

(* Every modifier is on its way to what its keys are.                      *)
ModifiersSettle ==
  /\ Settled(ShiftKeys, {42, 54}, held, bytes, shift)
  /\ Settled(CtrlKeys, {29}, held, bytes, ctrl)
  /\ Settled(AltKeys, {56}, held, bytes, alt)

(* As long as the shift keys have not been held together, shift is on its  *)
(* way to exactly what they are, and every character on the way is the one *)
(* meant.                                                                  *)
CharactersDecode ==
  /\ ShiftKeys \subseteq held => together
  /\ ~together => ~wrong /\ Decoded(bytes, meant, shift, ShiftHeld(held))

(* The inductive invariant.                                                *)
IInv == WellTyped /\ ModifiersSettle /\ CharactersDecode

(* The codes of the keys leave room for the bit of a release.              *)
LEMMA KeyCodeFacts ==
  ASSUME NEW k \in AllKeys, NEW codes \in SUBSET ModifierCodes
  PROVE  /\ ScanCode[k] + 0 = ScanCode[k]
         /\ ScanCode[k] < Released
         /\ ScanCode[k] + Released >= Released
         /\ ScanCode[k] - Released \notin codes
         /\ ScanCode[k] + Released \notin codes
         /\ (ScanCode[k] + Released) - Released = ScanCode[k]
<1>1. ScanCode[k] \in {42, 54, 29, 56, 30, 57}
  BY DEF ScanCode, AllKeys
<1> QED
  BY <1>1 DEF Released, ModifierCodes

(* What pressing a key makes of a modifier,                                *)
LEMMA KeyPressedAfter ==
  ASSUME NEW k \in AllKeys, NEW codes \in SUBSET ModifierCodes, NEW value
  PROVE  After(codes, ScanCode[k] + 0, value)
            = IF ScanCode[k] \in codes THEN 1 ELSE value
  BY KeyCodeFacts DEF After

(* and what releasing it does.                                             *)
LEMMA KeyReleasedAfter ==
  ASSUME NEW k \in AllKeys, NEW codes \in SUBSET ModifierCodes, NEW value
  PROVE  After(codes, ScanCode[k] + Released, value)
            = IF ScanCode[k] \in codes THEN 0 ELSE value
  BY KeyCodeFacts DEF After

(* Which keys belong to which codes.                                       *)
LEMMA KeyCodes ==
  ASSUME NEW k \in AllKeys
  PROVE  /\ ScanCode[k] \in {42, 54} <=> k \in ShiftKeys
         /\ ScanCode[k] \in {29} <=> k \in CtrlKeys
         /\ ScanCode[k] \in {56} <=> k \in AltKeys
         /\ ScanCode[k] + 0 \in CharacterCodes <=> k \notin Modifiers
         /\ ScanCode[k] + Released \notin CharacterCodes
         /\ ScanCode[k] + 0 = ScanCode[k]
<1> DEFINE P(j) == /\ ScanCode[j] \in {42, 54} <=> j \in ShiftKeys
                   /\ ScanCode[j] \in {29} <=> j \in CtrlKeys
                   /\ ScanCode[j] \in {56} <=> j \in AltKeys
                   /\ ScanCode[j] + 0 \in CharacterCodes <=> j \notin Modifiers
                   /\ ScanCode[j] + Released \notin CharacterCodes
                   /\ ScanCode[j] + 0 = ScanCode[j]
<1>1. /\ ScanCode["shift_l"] = 42 /\ ScanCode["shift_r"] = 54
      /\ ScanCode["ctrl_l"] = 29 /\ ScanCode["ctrl_r"] = 29
      /\ ScanCode["alt_l"] = 56 /\ ScanCode["alt_r"] = 56
      /\ ScanCode["letter"] = 30 /\ ScanCode["space"] = 57
  BY DEF ScanCode, AllKeys
<1>2. P("shift_l") /\ P("shift_r")
  BY <1>1 DEF ShiftKeys, CtrlKeys, AltKeys, CharacterCodes, Modifiers, Released
<1>3. P("ctrl_l") /\ P("ctrl_r")
  BY <1>1 DEF ShiftKeys, CtrlKeys, AltKeys, CharacterCodes, Modifiers, Released
<1>4. P("alt_l") /\ P("alt_r")
  BY <1>1 DEF ShiftKeys, CtrlKeys, AltKeys, CharacterCodes, Modifiers, Released
<1>5. P("letter") /\ P("space")
  BY <1>1 DEF ShiftKeys, CtrlKeys, AltKeys, CharacterCodes, Modifiers, Released
<1> HIDE DEF P
<1>6. P(k)
  BY <1>2, <1>3, <1>4, <1>5 DEF AllKeys
<1> QED
  BY <1>6 DEF P

(* A key pressed or released keeps each modifier settled.                  *)
LEMMA KeySettled ==
  ASSUME NEW b \in Seq(Byte), NEW k \in AllKeys, NEW codes \in SUBSET ModifierCodes,
         NEW keys, ScanCode[k] \in codes <=> k \in keys,
         NEW h, NEW value, Settled(keys, codes, h, b, value)
  PROVE  /\ Settled(keys, codes, h \cup {k}, SentBytes(b, k, 0), value)
         /\ Settled(keys, codes, h \ {k}, SentBytes(b, k, Released), value)
<1>1. PICK to \in {0, 1} : Followed(codes, b, value, to) /\ (h \cap keys = {} => to = 0)
  BY DEF Settled
<1>2. /\ Followed(codes, SentBytes(b, k, 0), value, After(codes, ScanCode[k] + 0, to))
      /\ Followed(codes, SentBytes(b, k, Released), value,
                  After(codes, ScanCode[k] + Released, to))
  BY <1>1, SentFollowed
<1>3. ScanCode[k] \in codes <=> k \in keys
  OBVIOUS
<1>6. /\ After(codes, ScanCode[k] + 0, to)
            = IF ScanCode[k] \in codes THEN 1 ELSE to
      /\ After(codes, ScanCode[k] + Released, to)
            = IF ScanCode[k] \in codes THEN 0 ELSE to
  BY KeyPressedAfter, KeyReleasedAfter
<1>7. /\ After(codes, ScanCode[k] + 0, to) = IF k \in keys THEN 1 ELSE to
      /\ After(codes, ScanCode[k] + Released, to) = IF k \in keys THEN 0 ELSE to
  BY <1>3, <1>6, Zenon
<1>4. Settled(keys, codes, h \cup {k}, SentBytes(b, k, 0), value)
  BY <1>1, <1>2, <1>7 DEF Settled
<1>5. Settled(keys, codes, h \ {k}, SentBytes(b, k, Released), value)
  BY <1>1, <1>2, <1>7 DEF Settled
<1> QED
  BY <1>4, <1>5

(* The tables hold characters.                                             *)
LEMMA TypedFacts ==
  ASSUME NEW x \in CharacterCodes, NEW value
  PROVE  Typed(x, value) \in Chars
  BY DEF CharacterCodes, Typed, kbd_us, kbd_us_shift, Chars, Zero

(* A key pressed: a shift key is on from here, a character is decoded      *)
(* under the shift that is held.                                           *)
LEMMA PressedDecoded ==
  ASSUME NEW b \in Seq(Byte), NEW k \in AllKeys, NEW m \in Seq(Chars), NEW h,
         NEW from, Decoded(b, m, from, ShiftHeld(h))
  PROVE  Decoded(SentBytes(b, k, 0),
                 IF k \in Modifiers THEN m
                 ELSE Append(m, Typed(ScanCode[k], ShiftHeld(h))),
                 from, ShiftHeld(h \cup {k}))
<1>1. CASE k \in Modifiers
  <2>1. ScanCode[k] + 0 \notin CharacterCodes
    BY <1>1, KeyCodes
  <2>2. {42, 54} \in SUBSET ModifierCodes
    BY DEF ModifierCodes
  <2>5. After({42, 54}, ScanCode[k] + 0, ShiftHeld(h))
          = IF ScanCode[k] \in {42, 54} THEN 1 ELSE ShiftHeld(h)
    <3>1. /\ ScanCode[k] + 0 = ScanCode[k]
          /\ ScanCode[k] - Released \notin {42, 54}
      BY <2>2, KeyCodeFacts, ZenonT(60)
    <3> QED BY <3>1, Zenon DEF After
  <2>6. ScanCode[k] \in {42, 54} <=> k \in ShiftKeys
    BY KeyCodes
  <2>3. After({42, 54}, ScanCode[k] + 0, ShiftHeld(h))
          = IF k \in ShiftKeys THEN 1 ELSE ShiftHeld(h)
    BY <2>5, <2>6, Zenon
  <2>4. ShiftHeld(h \cup {k}) = IF k \in ShiftKeys THEN 1 ELSE ShiftHeld(h)
    BY DEF ShiftHeld
  <2> QED BY <1>1, <2>1, <2>3, <2>4, SentDecoded
<1>2. CASE k \notin Modifiers
  <2>1. ScanCode[k] + 0 \in CharacterCodes /\ ScanCode[k] + 0 = ScanCode[k]
    BY <1>2, KeyCodes
  <2>2. k \notin ShiftKeys
    BY <1>2 DEF ShiftKeys, Modifiers
  <2>3. ShiftHeld(h \cup {k}) = ShiftHeld(h)
    BY <2>2 DEF ShiftHeld
  <2>4. Typed(ScanCode[k] + 0, ShiftHeld(h)) \in Chars
    BY <2>1, TypedFacts
  <2>5. Decoded(SentBytes(b, k, 0), Append(m, Typed(ScanCode[k] + 0, ShiftHeld(h))),
                from, ShiftHeld(h))
    BY <2>1, <2>4, SentDecoded
  <2> QED BY <1>2, <2>1, <2>3, <2>5
<1> QED
  BY <1>1, <1>2

(* A key released. With both shift keys held this is false: the release of *)
(* one turns shift off.                                                    *)
LEMMA ReleasedDecoded ==
  ASSUME NEW b \in Seq(Byte), NEW k \in AllKeys, NEW m \in Seq(Chars), NEW h,
         k \in h, ~ (ShiftKeys \subseteq h),
         NEW from, Decoded(b, m, from, ShiftHeld(h))
  PROVE  Decoded(SentBytes(b, k, Released), m, from, ShiftHeld(h \ {k}))
<1>1. ScanCode[k] + Released \notin CharacterCodes
  BY KeyCodes
<1>2. {42, 54} \in SUBSET ModifierCodes
  BY DEF ModifierCodes
<1>5. After({42, 54}, ScanCode[k] + Released, ShiftHeld(h))
        = IF ScanCode[k] \in {42, 54} THEN 0 ELSE ShiftHeld(h)
  BY <1>2, KeyReleasedAfter, ZenonT(60)
<1>6. ScanCode[k] \in {42, 54} <=> k \in ShiftKeys
  BY KeyCodes
<1>3. After({42, 54}, ScanCode[k] + Released, ShiftHeld(h))
        = IF k \in ShiftKeys THEN 0 ELSE ShiftHeld(h)
  BY <1>5, <1>6, Zenon
<1>4. ShiftHeld(h \ {k}) = IF k \in ShiftKeys THEN 0 ELSE ShiftHeld(h)
  BY DEF ShiftHeld, ShiftKeys
<1> QED
  BY <1>1, <1>3, <1>4, SentDecoded

-----------------------------------------------------------------------------
(* Its proof                                                               *)

(* The start.                                                              *)
LEMMA InitIInv == Init => IInv
<1> SUFFICES ASSUME Init PROVE IInv
  OBVIOUS
<1>1. /\ held = {} /\ bytes = <<>> /\ meant = <<>> /\ shift = 0 /\ ctrl = 0 /\ alt = 0
      /\ repeats = {} /\ wrong = FALSE /\ together = FALSE
  BY DEF Init
<1>2. WellTyped
  <2>1. bytes \in Seq(Byte) /\ meant \in Seq(Chars) /\ Len(bytes) = 0
    BY <1>1, EmptySeq
  <2>2. Len(bytes) <= MaxPending
    BY <2>1, MaxPendingAssumption
  <2> QED BY <1>1, <2>1, <2>2 DEF WellTyped
<1>3. \A codes : Followed(codes, <<>>, 0, 0)
  BY FollowedNothing
<1>4. ModifiersSettle
  BY <1>1, <1>3 DEF ModifiersSettle, Settled
<1>5. CharactersDecode
  BY <1>1, DecodedNothing DEF CharactersDecode, ShiftHeld, ShiftKeys
<1> QED
  BY <1>2, <1>4, <1>5 DEF IInv

(* Send in terms of SentBytes.                                             *)
LEMMA SendIsSentBytes ==
  ASSUME WellTyped, NEW k \in Keys, NEW bit \in {0, Released}, Send(k, bit)
  PROVE  /\ bytes' = SentBytes(bytes, k, bit)
         /\ bytes' \in Seq(Byte)
         /\ Len(bytes') <= MaxPending
<1>1. bytes' = SentBytes(bytes, k, bit) /\ Len(bytes) + 2 <= MaxPending
  BY DEF Send, SentBytes
<1>2. /\ SentBytes(bytes, k, bit) \in Seq(Byte)
      /\ Len(SentBytes(bytes, k, bit)) <= Len(bytes) + 2
  BY SentBytesFacts, KeysAssumption DEF WellTyped
<1>3. Len(bytes) \in Nat /\ Len(SentBytes(bytes, k, bit)) \in Nat /\ MaxPending \in Nat
  BY <1>2, LenProperties, MaxPendingAssumption DEF WellTyped
<1> QED
  BY <1>1, <1>2, <1>3

(* Pressing a key, and repeating one that is held.                         *)
LEMMA PressIInv ==
  ASSUME IInv, NEW k \in Keys, Press(k) \/ Repeat(k)
  PROVE  IInv'
<1> USE DEF IInv
<1>1. k \in AllKeys /\ bytes \in Seq(Byte) /\ meant \in Seq(Chars)
  BY KeysAssumption DEF WellTyped
<1>2. /\ held' = held \cup {k}
      /\ repeats' \subseteq held'
      /\ together' = (together \/ ShiftKeys \subseteq held')
      /\ UNCHANGED <<shift, ctrl, alt, wrong>>
      /\ Send(k, 0) /\ Means(k)
  BY DEF Press, Repeat, WellTyped, CharactersDecode
<1>3. /\ bytes' = SentBytes(bytes, k, 0) /\ bytes' \in Seq(Byte)
      /\ Len(bytes') <= MaxPending
  BY <1>2, SendIsSentBytes
<1>4. meant' = IF k \in Modifiers THEN meant
               ELSE Append(meant, Typed(ScanCode[k], ShiftHeld(held)))
  BY <1>2 DEF Means, Character, Typed, ShiftHeld
<1>5. meant' \in Seq(Chars)
  <2>1. k \notin Modifiers => Typed(ScanCode[k], ShiftHeld(held)) \in Chars
    BY <1>1, KeyCodes, TypedFacts
  <2> QED BY <1>1, <1>4, <2>1, AppendProperties
<1>6. WellTyped'
  BY <1>2, <1>3, <1>5 DEF WellTyped
<1>7. ModifiersSettle'
  <2>1. {42, 54} \in SUBSET ModifierCodes /\ {29} \in SUBSET ModifierCodes
        /\ {56} \in SUBSET ModifierCodes
    BY DEF ModifierCodes
  <2>2. /\ Settled(ShiftKeys, {42, 54}, held \cup {k}, SentBytes(bytes, k, 0), shift)
        /\ Settled(CtrlKeys, {29}, held \cup {k}, SentBytes(bytes, k, 0), ctrl)
        /\ Settled(AltKeys, {56}, held \cup {k}, SentBytes(bytes, k, 0), alt)
    BY <1>1, <2>1, KeySettled, KeyCodes DEF ModifiersSettle
  <2> QED BY <1>2, <1>3, <2>2 DEF ModifiersSettle
<1>8. CharactersDecode'
  <2>1. ~together' => ~together /\ ~wrong
    BY <1>2 DEF CharactersDecode, WellTyped
  <2>2. ~together' => Decoded(bytes', meant', shift', ShiftHeld(held'))
    BY <1>1, <1>2, <1>3, <1>4, <2>1, PressedDecoded DEF CharactersDecode
  <2> QED BY <1>2, <2>1, <2>2 DEF CharactersDecode
<1> QED
  BY <1>6, <1>7, <1>8

(* Releasing a key.                                                        *)
LEMMA ReleaseIInv ==
  ASSUME IInv, NEW k \in Keys, Release(k)
  PROVE  IInv'
<1> USE DEF IInv
<1>1. k \in AllKeys /\ bytes \in Seq(Byte) /\ meant \in Seq(Chars)
  BY KeysAssumption DEF WellTyped
<1>2. /\ held' = held \ {k} /\ k \in held
      /\ repeats' \subseteq held'
      /\ UNCHANGED <<shift, ctrl, alt, meant, wrong, together>>
      /\ Send(k, Released)
  BY DEF Release, WellTyped
<1>3. /\ bytes' = SentBytes(bytes, k, Released) /\ bytes' \in Seq(Byte)
      /\ Len(bytes') <= MaxPending
  BY <1>2, SendIsSentBytes
<1>4. WellTyped'
  BY <1>2, <1>3 DEF WellTyped
<1>5. ModifiersSettle'
  <2>1. {42, 54} \in SUBSET ModifierCodes /\ {29} \in SUBSET ModifierCodes
        /\ {56} \in SUBSET ModifierCodes
    BY DEF ModifierCodes
  <2>2. /\ Settled(ShiftKeys, {42, 54}, held \ {k}, SentBytes(bytes, k, Released), shift)
        /\ Settled(CtrlKeys, {29}, held \ {k}, SentBytes(bytes, k, Released), ctrl)
        /\ Settled(AltKeys, {56}, held \ {k}, SentBytes(bytes, k, Released), alt)
    BY <1>1, <2>1, KeySettled, KeyCodes DEF ModifiersSettle
  <2> QED BY <1>2, <1>3, <2>2 DEF ModifiersSettle
<1>6. CharactersDecode'
  <2>1. ~together' => Decoded(bytes', meant', shift', ShiftHeld(held'))
    BY <1>1, <1>2, <1>3, ReleasedDecoded DEF CharactersDecode
  <2> QED BY <1>2, <2>1 DEF CharactersDecode
<1> QED
  BY <1>4, <1>5, <1>6

(* The handler's three branches set a modifier as After says.              *)
LEMMA HandlerFollows ==
  ASSUME WellTyped, handle_interrupt
  PROVE  /\ shift' = After({42, 54}, Head(bytes), shift)
         /\ ctrl' = After({29}, Head(bytes), ctrl)
         /\ alt' = After({56}, Head(bytes), alt)
         /\ IF Head(bytes) \in CharacterCodes THEN PassOn(Typed(Head(bytes), shift))
            ELSE UNCHANGED <<meant, wrong>>
<1> DEFINE x == Head(bytes)
<1>1. x \in Byte
  BY HeadTailProperties DEF WellTyped, handle_interrupt
<1>2. \/ x \in CharacterCodes
      \/ x \in ModifierCodes
      \/ /\ x \in Int /\ x >= Released
         /\ \A c \in ModifierCodes : x # c
         /\ \A c \in CharacterCodes : x # c
  BY <1>1 DEF Byte, ModifierCodes, CharacterCodes, Released, Prefix
<1>3. CASE x \in CharacterCodes
  <2>1. /\ ~ (x >= Released) /\ x \notin {42, 54, 29, 56}
        /\ x - Released \notin {42, 54} /\ x - Released \notin {29}
        /\ x - Released \notin {56}
    BY <1>3 DEF CharacterCodes, Released
  <2>2. UNCHANGED <<shift, ctrl, alt>> /\ PassOn(Typed(x, shift))
    BY <2>1 DEF handle_interrupt, Typed
  <2> HIDE DEF x
  <2>3. /\ shift' = After({42, 54}, x, shift)
        /\ ctrl' = After({29}, x, ctrl)
        /\ alt' = After({56}, x, alt)
    BY <2>1, <2>2 DEF After
  <2> QED BY <1>3, <2>2, <2>3 DEF x
<1>4. CASE x \in ModifierCodes
  <2>1. /\ ~ (x >= Released) /\ x \in {42, 54, 29, 56} /\ x \notin CharacterCodes
        /\ x - Released \notin {42, 54} /\ x - Released \notin {29}
        /\ x - Released \notin {56}
    BY <1>4 DEF ModifierCodes, CharacterCodes, Released
  <2>2. SetModifier(x, 1) /\ UNCHANGED <<meant, wrong>>
    BY <2>1 DEF handle_interrupt
  <2> HIDE DEF x
  <2>3. /\ shift' = After({42, 54}, x, shift)
        /\ ctrl' = After({29}, x, ctrl)
        /\ alt' = After({56}, x, alt)
    BY <2>1, <2>2 DEF After, SetModifier
  <2> QED BY <2>1, <2>2, <2>3 DEF x
<1>5. CASE x \notin CharacterCodes /\ x \notin ModifierCodes
  <2>1. /\ x >= Released /\ ~ (x < Released) /\ x \notin {42, 54, 29, 56}
    BY <1>2, <1>5 DEF ModifierCodes, Released
  <2>2. SetModifier(x - Released, 0) /\ UNCHANGED <<meant, wrong>>
    BY <2>1 DEF handle_interrupt
  <2> HIDE DEF x
  <2>3. /\ shift' = After({42, 54}, x, shift)
        /\ ctrl' = After({29}, x, ctrl)
        /\ alt' = After({56}, x, alt)
    BY <2>1, <2>2 DEF After, SetModifier
  <2> QED BY <1>5, <2>2, <2>3 DEF x
<1> QED
  BY <1>3, <1>4, <1>5

(* handle_interrupt.                                                       *)
LEMMA HandlerIInv ==
  ASSUME IInv, handle_interrupt
  PROVE  IInv'
<1> USE DEF IInv
<1> DEFINE x == Head(bytes)
<1>1. /\ bytes \in Seq(Byte) /\ bytes # <<>> /\ bytes' = Tail(bytes)
      /\ meant \in Seq(Chars)
      /\ UNCHANGED <<held, repeats, together>>
  BY DEF handle_interrupt, WellTyped
<1>2. /\ shift' = After({42, 54}, x, shift)
      /\ ctrl' = After({29}, x, ctrl)
      /\ alt' = After({56}, x, alt)
      /\ IF x \in CharacterCodes THEN PassOn(Typed(x, shift))
         ELSE UNCHANGED <<meant, wrong>>
  BY HandlerFollows
<1>3. Tail(bytes) \in Seq(Byte) /\ Len(Tail(bytes)) <= MaxPending
  <2>1. Len(Tail(bytes)) = Len(bytes) - 1 /\ Tail(bytes) \in Seq(Byte)
    BY <1>1, HeadTailProperties
  <2>2. Len(bytes) \in Nat /\ MaxPending \in Nat
    BY <1>1, LenProperties, MaxPendingAssumption
  <2> QED BY <2>1, <2>2 DEF WellTyped
<1> HIDE DEF x
<1>4. shift' \in {0, 1} /\ ctrl' \in {0, 1} /\ alt' \in {0, 1}
  BY <1>2, AfterFacts DEF WellTyped
<1>5. meant' \in Seq(Chars) /\ wrong' \in BOOLEAN
  <2>1. meant # <<>> => Tail(meant) \in Seq(Chars)
    BY <1>1, HeadTailProperties
  <2>2. CASE x \in CharacterCodes
    <3>1. PassOn(Typed(x, shift))
      BY <1>2, <2>2
    <3>2. wrong' = (wrong \/ meant = <<>> \/ Typed(x, shift) # Head(meant))
      BY <3>1 DEF PassOn
    <3>3. wrong' \in BOOLEAN
      BY <3>2
    <3>4. meant' = IF meant = <<>> THEN meant ELSE Tail(meant)
      BY <3>1 DEF PassOn
    <3> QED BY <1>1, <2>1, <3>3, <3>4
  <2>3. CASE x \notin CharacterCodes
    BY <1>1, <1>2, <2>3 DEF WellTyped
  <2> QED BY <2>2, <2>3
<1>6. WellTyped'
  BY <1>1, <1>3, <1>4, <1>5 DEF WellTyped
<1>7. ModifiersSettle'
  <2>1. ASSUME NEW keys, NEW codes, NEW value, Settled(keys, codes, held, bytes, value)
        PROVE  Settled(keys, codes, held, Tail(bytes), After(codes, x, value))
    BY <1>1, <2>1, FollowedTail DEF Settled, x
  <2>2. /\ Settled(ShiftKeys, {42, 54}, held, Tail(bytes), After({42, 54}, x, shift))
        /\ Settled(CtrlKeys, {29}, held, Tail(bytes), After({29}, x, ctrl))
        /\ Settled(AltKeys, {56}, held, Tail(bytes), After({56}, x, alt))
    BY <2>1 DEF ModifiersSettle
  <2> QED BY <1>1, <1>2, <2>2 DEF ModifiersSettle
<1>8. CharactersDecode'
  <2> SUFFICES ASSUME ~together
               PROVE  ~wrong' /\ Decoded(Tail(bytes), meant', shift', ShiftHeld(held))
    BY <1>1 DEF CharactersDecode
  <2>1. ~wrong /\ Decoded(bytes, meant, shift, ShiftHeld(held))
    BY DEF CharactersDecode
  <2>2. CASE x \in CharacterCodes
    <3>1. /\ meant # <<>> /\ Head(meant) = Typed(x, shift)
          /\ Decoded(Tail(bytes), Tail(meant), shift, ShiftHeld(held))
      BY <1>1, <2>1, <2>2, DecodingTailCharacter DEF x
    <3>2. /\ wrong' = (wrong \/ meant = <<>> \/ Typed(x, shift) # Head(meant))
          /\ meant' = Tail(meant)
      BY <1>2, <2>2, <3>1 DEF PassOn
    <3>3. shift' = shift
      BY <1>2, <2>2 DEF After, CharacterCodes, Released
    <3>4. ~wrong'
      BY <2>1, <3>1, <3>2
    <3> QED BY <3>1, <3>2, <3>3, <3>4
  <2>3. CASE x \notin CharacterCodes
    <3>1. Decoded(Tail(bytes), meant, After({42, 54}, x, shift), ShiftHeld(held))
      BY <1>1, <2>1, <2>3, DecodingTailOther DEF x
    <3> QED BY <1>2, <2>1, <2>3, <3>1
  <2> QED BY <2>2, <2>3
<1> QED
  BY <1>6, <1>7, <1>8

(* Every step keeps the invariant,                                         *)
LEMMA NextIInv == IInv /\ [Next]_vars => IInv'
<1> SUFFICES ASSUME IInv, [Next]_vars PROVE IInv'
  OBVIOUS
<1>1. CASE UNCHANGED vars
  BY <1>1 DEF vars, IInv, WellTyped, ModifiersSettle, CharactersDecode
<1> QED
  BY <1>1, PressIInv, ReleaseIInv, HandlerIInv DEF Next

(* so it holds in every state.                                             *)
LEMMA Invariance == Spec => []IInv
  BY InitIInv, NextIInv, PTL DEF Spec

(* The type invariant of keyboard.c's variables and of the bytes on the    *)
(* way.                                                                    *)
THEOREM TypeCorrect == Spec => []TypeOK
<1>1. IInv => TypeOK
  <2> SUFFICES ASSUME IInv PROVE TypeOK
    OBVIOUS
  <2>1. bytes \in Seq(Byte) /\ meant \in Seq(Chars)
    BY DEF IInv, WellTyped
  <2>2. \A b \in ToSet(bytes) : b \in 0 .. 255
    <3>1. \A b \in Byte : b \in 0 .. 255
      BY DEF Byte, ModifierCodes, CharacterCodes, Released, Prefix
    <3>2. ToSet(bytes) \subseteq Byte
      BY <2>1, LenProperties, ElementOfSeq DEF ToSet
    <3> QED BY <3>1, <3>2
  <2>3. ToSet(meant) \subseteq Chars
    BY <2>1, LenProperties, ElementOfSeq DEF ToSet
  <2> QED BY <2>2, <2>3 DEF IInv, WellTyped, TypeOK
<1> QED
  BY <1>1, Invariance, PTL

(* With nothing left to read and no modifier held, shift, ctrl and alt are *)
(* off, whatever the order in which the left and right keys went down and  *)
(* up: SetModifier of handle_interrupt misses no release.                  *)
THEOREM ModifiersNeverStick == Spec => []NoStuckModifier
<1>1. IInv => NoStuckModifier
  <2> SUFFICES ASSUME IInv, bytes = <<>>, held \cap Modifiers = {}
               PROVE  shift = 0 /\ ctrl = 0 /\ alt = 0
    BY DEF NoStuckModifier
  <2>1. held \cap ShiftKeys = {} /\ held \cap CtrlKeys = {} /\ held \cap AltKeys = {}
    BY DEF Modifiers, ShiftKeys, CtrlKeys, AltKeys
  <2>2. ASSUME NEW keys, NEW codes, NEW value, held \cap keys = {},
               Settled(keys, codes, held, bytes, value)
        PROVE  value = 0
    BY <2>2, FollowedEmpty DEF Settled
  <2> QED BY <2>1, <2>2 DEF IInv, ModifiersSettle
<1> QED
  BY <1>1, Invariance, PTL

(* handle_interrupt passes on exactly the characters meant, each in the    *)
(* case of the shift keys when it was pressed, unless the two shift keys   *)
(* were held at the same time.                                             *)
THEOREM EveryCharacterAsMeant == Spec => []DecodedAsTyped
<1>1. IInv => DecodedAsTyped
  BY DecodedEmpty DEF IInv, WellTyped, CharactersDecode, DecodedAsTyped
<1> QED
  BY <1>1, Invariance, PTL
=============================================================================
