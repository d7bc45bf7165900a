SPECIFICATION Spec
CONSTANTS
  NoName = NoName
  Chains <- Chained
  Ports <- MCPorts
  Ips <- MCIps
  Nets <- MCNets
  Names <- MCNames
  Indexes <- MCIndexes
  Sizes <- MCSizes
  LogPrefixes <- MCLogPrefixes
  Packets <- MCPackets
  MaxCalls = 3
INVARIANTS
  RegistersFed
  NoLengthMismatch
  MatchesDocumentation
  DivergencesAreReal
CHECK_DEADLOCK FALSE
