SPECIFICATION FairSpec
CONSTANTS
  table = table
  rule = rule
  Undecodable = Undecodable
  NoBody = NoBody
  Bodies <- MCBodies
  SizeOf <- MCSizeOf
  KindOf <- MCKindOf
  FamilyOf <- MCFamilyOf
  SeqLimit = 4
  MaxSize = 63
  Errnos = {1, 2}
INVARIANTS TypeOK ReportsFirstError SocketReleased AllAcksRead
PROPERTIES Atomic NonEmptyReturns
CHECK_DEADLOCK FALSE
