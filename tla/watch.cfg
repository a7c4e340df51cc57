\* Every order of Ergo blocks, served blocks and failing sources around one
\* fork, with one approval.
CONSTANTS
  a = a
  b1 = b1
  b2 = b2
  g = g
  e1 = e1
  e2 = e2
  e3 = e3
  e4 = e4
  f2 = f2
  f3 = f3
  f4 = f4
  NoHeader = NoHeader
  NoBlock = NoBlock
  Block <- MCBlock
  Genesis = g
  Parent <- MCParent
  Path <- MCPath
  Work <- MCWork
  SumWork <- MCSumWork
  Rank <- MCRank
  Fault <- MCFault
  Ts <- MCTs
  Bodies = {"good"}
  ErgoHeight = {1, 2, 3, 4}
  MaxNow = 0
  MAX_FUTURE_DRIFT = 1
  STATE_RETENTION_BLOCKS = 1
  L_FINAL = 2
  Header <- MCHeader
  ErgoParent <- MCErgoParent
  Height <- MCHeight
  ErgoAnc <- MCErgoAnc
  Commits <- MCCommits
  Refused = {}
  START = 1
  PAGE = 2
  K_LAG = 2
  N_MINT = 2
  MaxReorg = 2
SPECIFICATION WatchSpec
INVARIANTS
  CommitmentsKept
  AnchorIsInclusion
  ApprovedIsSettled
PROPERTY CommittedActivates
