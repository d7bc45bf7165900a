SPECIFICATION Spec
CONSTANTS
  Packets <- MCPackets
  lo <- MClo
  LoIndex = 1
  MaxRuns = 4
  MaxPackets = 3
INVARIANTS
  InboundAsCommented
  OutboundAccepted
  CounterExact
  LogsExact
PROPERTY
  StopRemoves
CHECK_DEADLOCK FALSE
