\* Genuine and forged bodies, a future timestamp and an invalid block in every
\* order.
CONSTANTS
  a1 = a1
  a2 = a2
  b1 = b1
  b2 = b2
  g = g
  Block <- ForkBlocks
  Genesis = g
  Parent <- MixedParent
  Path <- MCPath
  Work <- ForkWork
  SumWork <- MCSumWork
  Rank <- ForkRank
  Fault <- MixedFault
  Ts <- MixedTs
  Bodies = {"good", "forged"}
  ErgoHeight = {1}
  MaxNow = 1
  MAX_FUTURE_DRIFT = 1
  STATE_RETENTION_BLOCKS = 1
  L_FINAL = 2
SPECIFICATION Spec
INVARIANTS
  DeadPrefix
  NoReadyLeftBehind
