CONSTANTS
  HoldTime = 1
  CooldownTime = 2
  MaxTime = 4
  MaxMessages = 2
SPECIFICATION Spec
INVARIANTS KeysReleased GroupFires
PROPERTIES OnlyOverlapsRepeat
