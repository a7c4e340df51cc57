\* Blocks, reorganisations, deposits, proofs and releases; batches of exits; the digest
\* table over two values; the commands of the bridge.
CONSTANTS
  pay = pay
  exit = exit
  exit2 = exit2
  exit3 = exit3
  box = box
  w1 = w1
  w2 = w2
  Spend <- MCSpend
  Inputs <- MCInputs
  OutValue <- MCOutValue
  Withdraw <- MCWithdraw
  Deposit <- MCDeposit
  DepositAmount <- MCDepositAmount
  GenesisAlloc <- MCGenesisAlloc
  GENESIS_POT = 3
  FLAT_FEE = 1
  COINBASE_BASE = 2
  COINBASE_PER_TX = 1
  PEG_FEE_PERCENT = 1
  ROOT_WINDOW = 2
  DAA_WINDOW = 2
  NextNbits <- MCNextNbits
  PEGOUT_DELAY = 1
  A_MIN = 1
  PEGIN_CONFIRMATIONS = 1
  HEADERS = 1
  MAX_BATCH = 2
  MaxBlocks = 4
  MaxErgo = 3
  MaxReceipts = 2
  MaxReorgs = 1
  GenesisTime = 1
  Offers <- MCOffers
CHECK_DEADLOCK FALSE \* the bounds on blocks, headers and receipts are reached
SPECIFICATION PartsSpec
INVARIANTS
  VaultFollowsLedger
  RipeSettles
  SeamIsExact
  
  DigestBinds
  
