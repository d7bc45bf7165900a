SPECIFICATION PayloadSpec
CONSTANTS
  None = None
  Offsets = {0, 1, 2, 4, 6, 7, 8, 9, 12, 13, 16, 24}
  Lengths = {1, 2, 4, 6, 16}
INVARIANTS
  DecodeInvertsBuild
  BuiltIsAccepted
CHECK_DEADLOCK FALSE
