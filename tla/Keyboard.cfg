SPECIFICATION Spec
CONSTANTS
  Keys = {"shift_l", "shift_r", "ctrl_l", "ctrl_r", "letter", "space"}
  MaxPending = 4
INVARIANTS
  TypeOK
  NoStuckModifier
  DecodedAsTyped
