SPECIFICATION BatchSpec
CONSTANTS
  table = table
  chain = chain
  rule = rule
  Undecodable = Undecodable
  NoBody = NoBody
  Bodies <- MCBodies
  SizeOf <- MCSizeOf
  KindOf <- MCKindOf
  FamilyOf <- MCFamilyOf
  SeqLimit = 5
INVARIANTS BatchTypeOK Framing Numbering AckWindow
CHECK_DEADLOCK FALSE
