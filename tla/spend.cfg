\* Spends of two transactions; two wallets on a chain of two blocks; the inputs of AuxPow.
SPECIFICATION PartsSpec
CONSTANTS
  DEPTH = 3
  P = 17
  N_LIMBS = 2
  LIMB_BOUND = 2
  ROOT_WINDOW = 4
  PegFee = 1
  Nks <- MCNks
  Rhos <- MCRhos
  Recipients <- MCRecipients
  Limb = {0, 1, 2, 16}
  Fees = {0, 1}
  Funded <- MCFunded
  MaxTxs = 2
CHECK_DEADLOCK FALSE \* the bounds on transactions and blocks are reached
INVARIANTS
  SpendsAreSound
  HonestSpendsProve
  WalletIsSound
  SharesAreWork
  DifficultyIsSteady
