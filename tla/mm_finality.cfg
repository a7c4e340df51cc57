\* Shares and genuine bodies of two tying branches in every order, with anchors
\* and one is_final approval; switching by two blocks runs the undo ring dry.
CONSTANTS
  a1 = a1
  a2 = a2
  b1 = b1
  b2 = b2
  g = g
  Block <- ForkBlocks
  Genesis = g
  Parent <- ForkParent
  Path <- MCPath
  Work <- ForkWork
  SumWork <- MCSumWork
  Rank <- ForkRank
  Fault <- NoFault
  Ts <- ZeroTs
  Bodies = {"good"}
  ErgoHeight = {1, 2}
  MaxNow = 0
  MAX_FUTURE_DRIFT = 1
  STATE_RETENTION_BLOCKS = 1
  L_FINAL = 2
SPECIFICATION Spec
INVARIANTS
  HeaviestTip
  CursorOnTip
  FinalityStable
PROPERTY ImplementsTipChoice
