SPECIFICATION Spec
CONSTANTS
  MaxDepth = 6
  Inputs <- MCInputs
  Foreign <- MCForeign
INVARIANTS
  RoundTrip
  LosslessOrRefused
  WritesInside
  HeaderLengths
CHECK_DEADLOCK FALSE
