\* Peer blocks on every branch, production, pools and one clean crash; and the ledger
\* alone over a chain of four blocks, applied and rolled back in every order.
CONSTANTS
  pay = pay
  exit = exit
  exit2 = exit2
  box = box
  Spend <- MCSpend
  Inputs <- MCInputs
  OutValue <- MCOutValue
  Withdraw <- MCWithdraw
  Deposit <- MCDeposit
  DepositAmount <- MCDepositAmount
  GenesisAlloc <- MCGenesisAlloc
  GENESIS_POT = 3
  FLAT_FEE = 1
  COINBASE_BASE = 2
  COINBASE_PER_TX = 1
  PEG_FEE_PERCENT = 1
  ROOT_WINDOW = 2
  DAA_WINDOW = 1
  NextNbits <- MCNextNbits
  MaxBlocks = 5
  MaxCrashes = 1
  TornWrites = FALSE
  FundTimes = {1}
  Stamps <- MCStamps
  MaxHeight = 4
  MaxSpends = 1
  MaxPegIns = 2
  Anchors = {0, 1}
  Timestamps = {1, 2}
  Lies <- MCLies
SPECIFICATION PartsSpec
INVARIANTS
  CanonicalIsHeaviest
  LogRebuildsTree
  
  LedgerConserves
  LedgerRollsBack
