\* A payment whose answer is lost, and the payments after it.
CONSTANTS
  Parts = {"wallet"}
  SC_TX_FEE = 1
  R_TARGET = 1
  STATE_RETENTION_BLOCKS = 2
  ProofMode = "DevStub"
  MAX_MEMPOOL_TXS = 3
  MAX_BLOCK_TRANSFERS = 2
  PeerBlock <- MCPeerBlock
  Amounts = {1}
  Recipients = {"other"}
  Journal <- MCFourNotes
  Imports = {}
  MaxHeight = 4
  MaxReorg = 0
  MaxForeign = 1
  MaxCommands = 4
  MaxLosses = 1
CHECK_DEADLOCK FALSE \* the bounds on blocks and commands are reached
SPECIFICATION PartsSpec
INVARIANT
  CandidateApplies
