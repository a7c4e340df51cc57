SPECIFICATION Spec
CONSTANTS
  Node = {"p", "f"}
  Peers <- MCPair
  Producers = {"p","f"}
  Confirmations = 2
  Deposits = {}
  MaxDev = 2
  MaxBlocks = 3
  MaxFaults = 0
CHECK_DEADLOCK FALSE \* the bounds on blocks and transactions are reached
PROPERTIES SyncReturns
