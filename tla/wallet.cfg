\* A wallet that scans and pays while the node adopts, produces and reorganises; and two
\* parties that mint, pay and spend notes through every assignment of the circuit.
CONSTANTS
  Parts = {"wallet", "circuit"}
  SC_TX_FEE = 1
  R_TARGET = 1
  STATE_RETENTION_BLOCKS = 2
  ProofMode = "DevStub"
  MAX_MEMPOOL_TXS = 2
  MAX_BLOCK_TRANSFERS = 2
  PeerBlock <- MCPeerBlock
  Amounts = {1}
  Recipients = {"other", "own"}
  Journal <- MCTwoNotes
  Imports = {2}
  MaxHeight = 3
  MaxReorg = 2
  MaxForeign = 2
  MaxCommands = 3
  MaxLosses = 1
CHECK_DEADLOCK FALSE \* the bounds on blocks and commands are reached
SPECIFICATION PartsSpec
INVARIANTS
  
  ScanIsPublished
  
  CircuitIsSound
