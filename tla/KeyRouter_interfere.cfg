\* A movement key of each player, and a keyboard that closes gaps.
CONSTANTS
  NumSlots = 2
  Pressable = {26, 82}
  Compact = TRUE
SPECIFICATION KeysSpec
INVARIANTS HeldKeysRouted
