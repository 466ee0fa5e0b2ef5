------------------------------- MODULE Keyboard -----------------------------
(***************************************************************************)
(* src/src/device/keyboard.c: the scan codes of a PS/2 keyboard and the    *)
(* interrupt handler that turns them into characters.                      *)
(*                                                                         *)
(* A key sends a byte when it is pressed, and again and again while it is  *)
(* the last one pressed and held, and another byte when it is released;    *)
(* the extended keys (here right ctrl and alt) put the byte E0 in front of *)
(* each.  The keyboard's own buffer holds the bytes until the handler      *)
(* reads them, one per interrupt, so the handler may run well after the    *)
(* keys have moved on.                                                     *)
(***************************************************************************)
EXTENDS Integers, Sequences, SequencesExt

CONSTANTS
  Keys,        \* the keys in use, a subset of AllKeys
  MaxPending   \* how many bytes the keyboard can be ahead of the handler

ASSUME MaxPendingAssumption == MaxPending \in Nat \ {0, 1}

AllKeys == {"shift_l", "shift_r", "ctrl_l", "ctrl_r", "alt_l", "alt_r",
            "letter", "space"}

ASSUME KeysAssumption == Keys \subseteq AllKeys

Extended == {"ctrl_r", "alt_r"}

(* The byte of each key, without the bit that marks a release.  A right    *)
(* ctrl or alt has the byte of the left one.                               *)
ScanCode ==
  [k \in AllKeys |->
     CASE k = "shift_l" -> 42 [] k = "shift_r" -> 54
       [] k \in {"ctrl_l", "ctrl_r"} -> 29
       [] k \in {"alt_l", "alt_r"} -> 56
       [] k = "letter" -> 30 [] k = "space" -> 57]

Released == 128    \* the top bit
Prefix == 224      \* E0
Zero == "zero"     \* no character

(* One letter and the space bar stand for the tables: kbd_us_shift has an  *)
(* entry for the letter, and none for the space.                           *)
kbd_us == [c \in {30, 57} |-> IF c = 30 THEN "a" ELSE " "]
kbd_us_shift == [c \in {30, 57} |-> IF c = 30 THEN "A" ELSE Zero]

Chars == {"a", "A", " ", Zero}

VARIABLES
  held,      \* the keys held down
  repeats,   \* the last key pressed if it is still held, as a set
  bytes,     \* bytes sent and not yet read
  shift, ctrl, alt,
  meant,     \* characters the keys stood for when pressed, not yet decoded
  wrong,     \* a character other than the one meant has been passed on
  together   \* both shift keys have been held down at the same time

vars == <<held, repeats, bytes, shift, ctrl, alt, meant, wrong, together>>

Init ==
  /\ held = {}
  /\ repeats = {}
  /\ bytes = <<>>
  /\ shift = 0 /\ ctrl = 0 /\ alt = 0
  /\ meant = <<>>
  /\ wrong = FALSE
  /\ together = FALSE

-----------------------------------------------------------------------------
(* The keyboard                                                            *)

ShiftKeys == {"shift_l", "shift_r"}
Modifiers == {"shift_l", "shift_r", "ctrl_l", "ctrl_r", "alt_l", "alt_r"}

Send(k, bit) ==
  LET code == <<ScanCode[k] + bit>>
  IN /\ Len(bytes) + 2 <= MaxPending
     /\ bytes' = bytes \o (IF k \in Extended THEN <<Prefix>> ELSE <<>>) \o code

(* What a key types with the shift keys as they are when it is pressed.    *)
Character(k) ==
  IF held \cap ShiftKeys # {} THEN kbd_us_shift[ScanCode[k]]
  ELSE kbd_us[ScanCode[k]]

Means(k) ==
  meant' = IF k \in Modifiers THEN meant ELSE Append(meant, Character(k))

Press(k) ==
  /\ k \notin held
  /\ held' = held \cup {k}
  /\ together' = (together \/ ShiftKeys \subseteq held')
  /\ repeats' = {k}
  /\ Send(k, 0)
  /\ Means(k)
  /\ UNCHANGED <<shift, ctrl, alt, wrong>>

Repeat(k) ==
  /\ k \in repeats
  /\ Send(k, 0)
  /\ Means(k)
  /\ UNCHANGED <<held, repeats, shift, ctrl, alt, wrong, together>>

Release(k) ==
  /\ k \in held
  /\ held' = held \ {k}
  /\ repeats' = repeats \ {k}
  /\ Send(k, Released)
  /\ UNCHANGED <<shift, ctrl, alt, meant, wrong, together>>

-----------------------------------------------------------------------------
(* The handler                                                             *)

(* Variant: stores the scan code.                                          *)
SetModifierToCode(code, value) ==
  /\ shift' = IF code \in {42, 54} THEN value * code ELSE shift
  /\ ctrl' = IF code = 29 THEN value * code ELSE ctrl
  /\ alt' = IF code = 56 THEN value * code ELSE alt

(* Variant: knows the right shift key only when it is pressed.             *)
SetModifierLeftRelease(code, value) ==
  /\ shift' = IF code = 42 \/ (code = 54 /\ value = 1) THEN value ELSE shift
  /\ ctrl' = IF code = 29 THEN value ELSE ctrl
  /\ alt' = IF code = 56 THEN value ELSE alt

(* Variant: the release of any key ends shift.                             *)
SetModifierAnyRelease(code, value) ==
  /\ shift' = IF code \in {42, 54} \/ value = 0 THEN value ELSE shift
  /\ ctrl' = IF code = 29 THEN value ELSE ctrl
  /\ alt' = IF code = 56 THEN value ELSE alt

SetModifier(code, value) ==
  /\ shift' = IF code \in {42, 54} THEN value ELSE shift
  /\ ctrl' = IF code = 29 THEN value ELSE ctrl
  /\ alt' = IF code = 56 THEN value ELSE alt

PassOn(ch) ==
  /\ wrong' = (wrong \/ meant = <<>> \/ ch # Head(meant))
  /\ meant' = IF meant = <<>> THEN meant ELSE Tail(meant)

handle_interrupt ==
  /\ bytes # <<>>
  /\ bytes' = Tail(bytes)
  /\ LET scancode == Head(bytes)
     IN \/ /\ scancode >= Released
           /\ SetModifier(scancode - Released, 0)
           /\ UNCHANGED <<meant, wrong>>
        \/ /\ scancode \in {42, 54, 29, 56}
           /\ SetModifier(scancode, 1)
           /\ UNCHANGED <<meant, wrong>>
        \/ /\ scancode < Released /\ scancode \notin {42, 54, 29, 56}
           /\ PassOn(IF shift = 1 THEN kbd_us_shift[scancode]
                                  ELSE kbd_us[scancode])
           /\ UNCHANGED <<shift, ctrl, alt>>
  /\ UNCHANGED <<held, repeats, together>>

Next ==
  \/ handle_interrupt
  \/ \E k \in Keys : Press(k) \/ Repeat(k) \/ Release(k)

Spec == Init /\ [][Next]_vars

-----------------------------------------------------------------------------
(* Properties                                                              *)

TypeOK ==
  /\ held \subseteq Keys
  /\ repeats \subseteq held
  /\ Len(bytes) <= MaxPending
  /\ \A b \in ToSet(bytes) : b \in 0 .. 255
  /\ shift \in {0, 1} /\ ctrl \in {0, 1} /\ alt \in {0, 1}
  /\ ToSet(meant) \subseteq Chars
  /\ wrong \in BOOLEAN
  /\ together \in BOOLEAN

(* No modifier sticks: when the handler has caught up and no key is held,  *)
(* none is on, in whatever order the left and the right key of a modifier  *)
(* were pressed and released, extended keys and repeats included.          *)
NoStuckModifier ==
  bytes = <<>> /\ held \cap Modifiers = {} => shift = 0 /\ ctrl = 0 /\ alt = 0

(* Each character passed on is the one of the key with the shift keys as   *)
(* they were when it was pressed, however far the handler is behind, and   *)
(* none is lost: as long as the two shift keys, which share a variable,    *)
(* have not been held down at the same time.                               *)
DecodedAsTyped ==
  ~together => ~wrong /\ (bytes = <<>> => meant = <<>>)
=============================================================================
