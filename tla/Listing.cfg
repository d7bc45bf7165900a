SPECIFICATION Spec
CONSTANTS
  Undecodable = Undecodable
  NoBody = NoBody
  NoName = "?"
  Bodies <- MCBodies
  Queries <- MCQueries
  MaxSize = 75
  FilterSize = 16
  Errnos = {1}
  Opaque <- MCOpaque
  Initial <- MCInitial
  ObjLen = 24
  ChunkLen = 2
  MaxGen = 3
INVARIANTS TypeOK WholeDump Snapshot FailureIsReal SocketReleased
PROPERTY Returns
CHECK_DEADLOCK FALSE
