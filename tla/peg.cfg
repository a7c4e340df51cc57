SPECIFICATION Spec
CONSTANTS
  V_CAP = 8
  T_DELAY = 1
  FEE_FLOOR = 1
  FEE_BPS = 5000
  N_MINT = 3
  REFUND_MARGIN = 1
  Authority = TRUE
  Wallets <- MCOneWallet
  LockShapes = {"split"}
  Dests = {"point", "short"}
  Timeouts = {4}
  V0 = 3
  Burned <- MCBurned
  RootHeight = 2
  Samples <- MCSamples
  MaxReorg = 1
  FollowerLag = 2
  MaxHeight = 6
  MaxTxs = 3
  MaxForks = 1
  MaxMints = 2
CHECK_DEADLOCK FALSE \* the bounds on blocks and transactions are reached
INVARIANTS
  MintedIsAbsorbed
  VerdictAgrees
  
