----------------------------- MODULE MCHnSettlement -----------------------------
(***************************************************************************)
(* Instances for TLC, in one run, of the three ways value leaves the       *)
(* hash-native chain and of the table they speak through: HnSettlement     *)
(* over a transfer and a peg-out that compete for the two allocations and  *)
(* a peg-out of what either leaves and of a deposited note; settlers that  *)
(* race to aggregate batches of three exits and a transfer; the commands   *)
(* of the devnet bridge; and every filling of the digest table.  `part`    *)
(* says which of them behaves; they share no state.                        *)
(***************************************************************************)
EXTENDS HnSettlement

CONSTANTS pay, exit, exit2, exit3, box, w1, w2

MCSpend == {pay, exit, exit2}
MCInputs == [s \in MCSpend |->
  IF s = exit2 THEN {Out(exit, 2), Mint(box)} ELSE {Alloc(1), Alloc(2)}]
MCOutValue == [s \in MCSpend |->
  CASE s = pay -> <<5, 4>> [] s = exit -> <<4, 5>> [] s = exit2 -> <<4, 3>>]
MCWithdraw == [s \in MCSpend |-> IF s = pay THEN 0 ELSE 3]
MCDeposit == {box}
MCDepositAmount == [d \in MCDeposit |-> 4]
MCGenesisAlloc == <<5, 5>>

\* Harder when the window went by at once.
MCNextNbits(view) ==
  IF Len(view) = DAA_WINDOW + 1 /\ view[1][1] = view[Len(view)][1] THEN 2 ELSE 1

Offer(t, p, age, d, ts, lie) ==
  [txs |-> t, pegouts |-> p, age |-> age, pegins |-> d, ts |-> ts, lie |-> lie]

Honest == <<0, 0, 0, 0>>

\* Empty blocks; a transfer; a transfer and the peg-out it competes with; the
\* peg-out against a fresh and an old root, with the deposit, and misstated.
MCOffers ==
  {Offer(<<>>, <<>>, 0, <<>>, 1, Honest), Offer(<<>>, <<>>, 0, <<>>, 2, Honest),
   Offer(<<pay>>, <<>>, 0, <<>>, 2, Honest),
   Offer(<<pay>>, <<exit>>, 0, <<>>, 2, Honest),
   Offer(<<>>, <<exit>>, 0, <<box>>, 2, Honest),
   Offer(<<>>, <<exit>>, 2, <<>>, 2, Honest),
   Offer(<<>>, <<exit2>>, 0, <<>>, 2, Honest)}
  \cup {Offer(<<>>, <<exit>>, 0, <<>>, 2, lie) :
          lie \in {<<0, 0, 1, 0>>, <<0, 0, 0, 1>>}}
--------------------------------------------------------------------------------
VARIABLES
  part,                                               \* "epoch" | "batch" | "table" | "bridge"
  spends, journals, batchVault, batchPaid,            \* BatchSettlement
  table,                                              \* a filling of the digest table
  boxes, nextId, pending, blocks, fetched, written, payments   \* DevnetBridge

(* Batches *)

BatchExit == {exit, exit2, exit3}
BatchAmount == [s \in BatchExit |-> IF s = exit3 THEN 100 ELSE 250]
BatchRecipient == [s \in BatchExit |-> IF s = exit THEN "alice" ELSE "bob"]

Said(s, amount, recipient_prop) == [s |-> s, amount |-> amount, recipient_prop |-> recipient_prop]
AsAsked(s) == Said(s, BatchAmount[s], BatchRecipient[s])

\* Batches of one to three as their users asked; one repeated; one to another recipient,
\* one of another amount, and a transfer taken for an exit.
BatchesTried ==
  {<<AsAsked(exit)>>, <<AsAsked(exit), AsAsked(exit2)>>, <<AsAsked(exit3), AsAsked(exit2)>>,
   <<AsAsked(exit), AsAsked(exit2), AsAsked(exit3)>>,
   <<AsAsked(exit), AsAsked(exit2), AsAsked(exit)>>,
   <<Said(exit, 250, "bob"), AsAsked(exit2)>>,
   <<Said(exit, 100, "alice"), AsAsked(exit2)>>,
   <<Said(pay, 100, "bob"), AsAsked(exit2)>>}

Batching == INSTANCE BatchSettlement WITH
  Transfer <- {pay}, Exit <- BatchExit, Amount <- BatchAmount, Recipient <- BatchRecipient,
  Batches <- BatchesTried, MaxBlocks <- 3, MaxJournals <- 2, DEPTH <- 4,
  chain <- spends, vault <- batchVault, paid <- batchPaid

(* The digest table *)

Digest == INSTANCE DigestTable WITH DIGEST_EF <- 2, D <- 2, MinHeight <- 2, Field <- {0, 1}

Filling ==
  [w : Digest!Witness, matrix : [Digest!Rows -> Digest!Row], publics : Digest!Row]

(* The bridge *)

BridgeAmount == [w \in {w1, w2} |-> 2]
BridgeRecipient == [w \in {w1, w2} |-> w]

Bridge == INSTANCE DevnetBridge WITH
  FEE_NANOERG <- 1, BOX_ERG <- 1, WalletErg <- <<6, 6>>, SUPPLY <- 8, FUNDING <- 4, DEPOSIT <- 2,
  VAULT_ERG <- 5, Withdrawal <- {w1, w2}, Amount <- BridgeAmount, Recipient <- BridgeRecipient,
  MaxBlocks <- 2, MaxPending <- 2, MaxBoxes <- 16, MaxReceipts <- 2,
  chain <- blocks, receipts <- written

batchVars == <<spends, journals, batchVault, batchPaid>>
bridgeVars == <<boxes, nextId, pending, blocks, fetched, written, payments>>

NoBatches ==
  spends = <<>> /\ journals = {} /\ batchVault = [root |-> <<>>, counter |-> 0] /\ batchPaid = <<>>

PartsInit ==
  /\ Init /\ Bridge!BridgeInit
  /\ \/ part \in {"epoch", "bridge"} /\ NoBatches /\ table = <<>>
     \/ part = "batch" /\ Batching!BatchInit /\ table = <<>>
     \/ part = "table" /\ NoBatches /\ \E f \in Filling : table = <<f>>

PartsNext ==
  \/ part = "epoch" /\ Next /\ UNCHANGED <<part, batchVars, table, bridgeVars>>
  \/ part = "batch" /\ Batching!BatchNext /\ UNCHANGED <<part, vars, table, bridgeVars>>
  \/ part = "bridge" /\ Bridge!BridgeNext /\ UNCHANGED <<part, vars, batchVars, table>>

PartsSpec == PartsInit /\ [][PartsNext]_<<part, vars, batchVars, table, bridgeVars>>

--------------------------------------------------------------------------------
(* Properties *)

\* What the vault settles is a ledger nodes accept, and it holds what that ledger owes
\* (HnSettlement).
VaultFollowsLedger == part = "epoch" => SettledIsLedger /\ VaultCovers

\* Every ripe withdrawal of a chain nodes accept can be settled (HnSettlement).
RipeSettles == part = "epoch" => RipeIsSettleable

\* The windows the guest derives at the seam are the node's (HnSettlement).
SeamIsExact == part = "epoch" => SeamIsNodeState

\* A root proof names one list of entries, the vault pays each exit once as its user
\* asked, and its root stays the chain's, whoever settles (BatchSettlement).
BatchPaysBurns ==
  part = "batch" => Batching!RootNamesEntries /\ Batching!PaidIsBurned /\ Batching!VaultRootIsChain

\* A proof whose constraints hold surfaces exactly the digest its circuit computed,
\* whatever its prover put into the columns it may choose, and the honest columns
\* satisfy them (digest.rs:20-30).
DigestBinds ==
  \A i \in DOMAIN table :
    LET f == table[i]
        honest == Digest!Execute(f.w)
    IN /\ Digest!Accepts(f.w, f.matrix, f.publics) => f.publics = honest
       /\ Digest!Accepts(f.w, Digest!TraceToMatrix(honest), honest)

\* The bridge's vault releases no withdrawal twice and accounts for what it released
\* (DevnetBridge).
BridgeAccounts == part = "bridge" => Bridge!PaidOnce /\ Bridge!VaultAccounts
===============================================================================
