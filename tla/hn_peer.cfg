SPECIFICATION Spec
CONSTANTS
  Node = {"p", "f"}
  Peers <- MCPairOrMutual
  Producers = {"p"}
  Confirmations = 2
  Deposits = {"d"}
  MaxDev = 2
  MaxBlocks = 2
  MaxFaults = 1
CHECK_DEADLOCK FALSE \* the bounds on blocks and transactions are reached
PROPERTY PeersConverge
