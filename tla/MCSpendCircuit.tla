----------------------------- MODULE MCSpendCircuit -----------------------------
(***************************************************************************)
(* Instances for TLC, in one run, of what stands between a wallet and the  *)
(* chain: SpendCircuit over a tree of 8 leaves, amounts of two limbs of    *)
(* one bit and a field of 17 elements, of which a prover tries as limbs    *)
(* the canonical ones, the first that is not, and -1; two wallets of one   *)
(* seed, one in the node's process and one over HTTP, and a stranger; and  *)
(* the inputs of the checks of auxiliary proof of work.  `part` says which *)
(* of them behaves; they share no state.                                   *)
(***************************************************************************)
EXTENDS SpendCircuit

MCNks == {<<"alice">>, <<"bob">>}
MCRhos == {<<"r1">>, <<"r2">>, <<"r3">>, <<"r4">>, <<"r5">>, <<"r6">>, <<"r7">>, <<"r8">>,
           <<"r9">>, <<"r10">>}
MCRecipients == {<<"x">>}
MCFunded ==
  <<[value |-> 3, nk |-> <<"alice">>, rho |-> <<"r1">>],
    [value |-> 1, nk |-> <<"alice">>, rho |-> <<"r2">>],
    [value |-> 2, nk |-> <<"bob">>, rho |-> <<"r3">>],
    [value |-> 1, nk |-> <<"bob">>, rho |-> <<"r4">>]>>
--------------------------------------------------------------------------------
VARIABLES
  part,                                                       \* "spend" | "wallet" | "auxpow"
  outputs, spent, tip, pool, made, notes, cursor, call, ownSpends,   \* HnWallet
  input                                                       \* AuxPowInputs

WalletSeed == [w \in {"local", "remote"} |-> "ours"]
WalletGenesis == <<[owner |-> "ours", value |-> 3], [owner |-> "ours", value |-> 2],
                   [owner |-> "ours", value |-> 0]>>

Wallet == INSTANCE HnWallet WITH
  Wallets <- {"local", "remote"}, Remote <- {"remote"}, SeedOf <- WalletSeed,
  Strangers <- {"other"}, COINBASE_MATURITY <- 1, ROOT_WINDOW <- 2, Coinbase <- 2, FlatFee <- 1,
  PegFee <- 1, Amounts <- {1}, Genesis <- WalletGenesis, MaxHeight <- 2, MaxTxs <- 2

Share == INSTANCE AuxPowInputs WITH
  MM_COMMITMENT_VERSION <- 1, MAX_DIFFICULTY <- 2, A_MIN <- 2, MAX_VALUE <- 2

walletVars == <<outputs, spent, tip, pool, made, notes, cursor, call, ownSpends>>

PartsInit ==
  /\ Init /\ Wallet!Init
  /\ \/ part \in {"spend", "wallet"} /\ input = [kind |-> "none"]
     \/ part = "auxpow" /\ Share!InputInit

PartsNext ==
  \/ part = "spend" /\ Next /\ UNCHANGED <<part, walletVars, input>>
  \/ part = "wallet" /\ Wallet!Next /\ UNCHANGED <<part, vars, input>>

PartsSpec == PartsInit /\ [][PartsNext]_<<part, vars, walletVars, input>>

--------------------------------------------------------------------------------
(* Properties *)

\* No accepted spend makes value or takes a note of others (SpendCircuit).
SpendsAreSound == part = "spend" => TypeOK /\ ValueConserved /\ SpentByHolder

\* An honest spend satisfies the circuit against every tree a node can have, and the
\* tree, its frontier and its paths agree on the root (SpendCircuit).
HonestSpendsProve == part = "spend" => HonestProves /\ FrontierIsTree

\* A wallet holds only notes it can spend, never spends one twice, and misses none of
\* its own scanning beside the chain (HnWallet).
WalletIsSound ==
  part = "wallet" =>
    Wallet!TypeOK /\ Wallet!NotesAreOurs /\ Wallet!OwnTxsDisjoint /\ Wallet!ScanFinds

\* Accepted shares, proofs, anchors and bytes are what an honest miner made, each solve
\* counted once (AuxPowInputs).
SharesAreWork ==
  part = "auxpow" =>
    Share!WorkIsReal /\ Share!ProvenIsLeaf /\ Share!AnchorBuried /\ Share!CodecExact

\* The next difficulty follows the solve times and is moved by no clock beyond its
\* clamps (AuxPowInputs).
DifficultyIsSteady == part = "auxpow" => Share!DifficultyIsSteady
================================================================================
