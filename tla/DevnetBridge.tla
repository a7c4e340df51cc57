----------------------------- MODULE DevnetBridge -----------------------------
(***************************************************************************)
(* The bridge tools on the devnet: minting the two tokens, deploying and   *)
(* funding the single-withdrawal vault, deposits, and releases proved by   *)
(* `settle prove` from a live node.  Several commands run at once, each    *)
(* builds its transaction from boxes it looked up earlier, and the node    *)
(* refuses one whose inputs are gone; the chain may drop its last block.   *)
(* A state root stands for the blocks it commits to.                       *)
(***************************************************************************)
EXTENDS Naturals, FiniteSetsExt, SequencesExt

CONSTANTS
  FEE_NANOERG, BOX_ERG,       \* ERG of a fee output and of a token-carrying box
  WalletErg,                  \* ERG of the wallet's boxes at the start
  SUPPLY, FUNDING, DEPOSIT,   \* USE minted, put into the vault box, and deposited
  VAULT_ERG,                  \* ERG the vault box starts with
  Withdrawal, Amount, Recipient,
  MaxBlocks, MaxPending, MaxBoxes, MaxReceipts

VARIABLES
  boxes,     \* the unspent boxes
  nextId,    \* id of the next box
  pending,   \* transactions built and signed, not submitted yet
  chain,     \* the blocks of the hash-native node: each the withdrawals it records
  fetched,   \* the blocks a running `settle prove` fetched, and its arguments, or none
  receipts,  \* what `settle prove` has written
  payments   \* the withdrawals released so far

bridgeVars == <<boxes, nextId, pending, chain, fetched, receipts, payments>>

None == <<>>

\* R4 and R5 are set on a vault box only; a deposit carries its destination instead.
Candidate(at, erg, nft, use) == [at |-> at, erg |-> erg, nft |-> nft, use |-> use, r4 |-> None, r5 |-> 0]

FeeCandidate == Candidate("fee", FEE_NANOERG, 0, 0)

Erg(bs) == FoldLeft(LAMBDA s, b : s + b.erg, 0, bs)
Nft(bs) == FoldLeft(LAMBDA s, b : s + b.nft, 0, bs)
Use(bs) == FoldLeft(LAMBDA s, b : s + b.use, 0, bs)

Build(ins, outs, minted, receipt) ==
  /\ Cardinality(pending) < MaxPending
  /\ nextId + Len(outs) <= MaxBoxes
  /\ pending' = pending \cup {[ins |-> ins, outs |-> outs, minted |-> minted, receipt |-> receipt]}
  /\ UNCHANGED <<boxes, nextId, chain, fetched, receipts, payments>>

Recorded(blocks) == UNION {blocks[h].withdrawals : h \in 1..Len(blocks)}

BridgeInit ==
  /\ boxes = {[id |-> i] @@ Candidate("wallet", WalletErg[i], 0, 0) : i \in DOMAIN WalletErg}
  /\ nextId = Len(WalletErg) + 1
  /\ pending = {} /\ receipts = {}
  /\ chain = <<[withdrawals |-> {}]>>
  /\ fetched = None
  /\ payments = <<>>

-----------------------------------------------------------------------------
(* The hash-native chain                                                   *)

\* Withdrawals burn what was pegged in, so nothing happens here before the vault is.
Deployed == \E v \in boxes : v.at = "vault" /\ v.nft = 1

ProduceBlock ==
  /\ Len(chain) < MaxBlocks
  /\ Deployed
  /\ \E new \in SUBSET (Withdrawal \ Recorded(chain)) : chain' = Append(chain, [withdrawals |-> new])
  /\ UNCHANGED <<boxes, nextId, pending, fetched, receipts, payments>>

DropBlock ==
  /\ Len(chain) > 1
  /\ chain' = Front(chain)
  /\ UNCHANGED <<boxes, nextId, pending, fetched, receipts, payments>>

-----------------------------------------------------------------------------
(* Wallet commands: each looks its boxes up, builds and has the node sign  *)

ErgBoxes == {b \in boxes : b.at = "wallet" /\ b.nft = 0 /\ b.use = 0 /\ b.erg > FEE_NANOERG}

\* The first of the node's listing.
PickErgBox == {b \in ErgBoxes : \A o \in ErgBoxes : b.id <= o.id}

MintOutputs(b, nft, use) ==
  <<Candidate("wallet", b.erg - FEE_NANOERG, nft, use), FeeCandidate>>

MintToken(nft, use) ==
  \E b \in PickErgBox : Build(<<b>>, MintOutputs(b, nft, use), [nft |-> nft, use |-> use], None)

\* Mutant: the change output carries ERG alone.
ErgChange(ins, erg, nft, use) == Candidate("wallet", Erg(ins) - erg - FEE_NANOERG, 0, 0)

Change(ins, erg, nft, use) ==
  Candidate("wallet", Erg(ins) - erg - FEE_NANOERG, Nft(ins) - nft, Use(ins) - use)

\* Send from the wallet's boxes to `dest`; refuses what they do not cover.
BuildSend(ins, dest) ==
  /\ Erg(ins) >= dest.erg + FEE_NANOERG
  /\ Nft(ins) >= dest.nft /\ Use(ins) >= dest.use
  /\ Build(ins, <<dest, Change(ins, dest.erg, dest.nft, dest.use), FeeCandidate>>,
           [nft |-> 0, use |-> 0], None)

WalletBoxes == {b \in boxes : b.at = "wallet"}

\* R4 = the root the vault starts from, R5 = 0.
DeployVault ==
  \E n, u \in WalletBoxes :
    /\ n # u /\ n.nft = 1
    /\ BuildSend(<<n, u>>, [Candidate("vault", VAULT_ERG, 1, FUNDING) EXCEPT !.r4 = chain])

DepositCmd ==
  \E u \in WalletBoxes :
    BuildSend(<<u>>, Candidate("vault", BOX_ERG, 0, DEPOSIT))

-----------------------------------------------------------------------------
(* `settle prove`: two requests to the node, then the proof                *)

\* prev_root, prev_height and counter_next are read off the vault box.
FetchBlocks ==
  /\ Cardinality(receipts) < MaxReceipts
  /\ fetched = None
  /\ \E v \in boxes :
       /\ v.at = "vault" /\ v.nft = 1
       /\ fetched' = <<[blocks |-> chain, prev_root |-> v.r4, counter_next |-> v.r5 + 1]>>
  /\ UNCHANGED <<boxes, nextId, pending, chain, receipts, payments>>

\* The pre-epoch and the epoch blocks, if the former rebuild to `prev_root`.
SplitLeaves(blocks, prev_height, sealed_tip) ==
  <<SubSeq(blocks, 1, prev_height), SubSeq(blocks, prev_height + 1, sealed_tip)>>

\* The guest: the burn is among the epoch's leaves, and the roots are what they are.
GuestProves(split, w) == w \in Recorded(split[2])

Statement(split, f, w) ==
  [of |-> w, prev_root |-> f.prev_root, new_root |-> split[1] \o split[2],
   amount |-> Amount[w], counter |-> f.counter_next, recipient |-> Recipient[w]]

\* An assertion fails, or every attempt at the proof.
ProverFails == receipts' = receipts

Prove(w) ==
  LET f == fetched[1]
      hn_height == CHOOSE h \in 1..Len(chain) : w \in chain[h].withdrawals
  IN
  /\ fetched # None
  /\ w \in Recorded(chain)
  /\ fetched' = None
  /\ \/ \E sealed_tip \in hn_height..Len(f.blocks) :
            LET split == SplitLeaves(f.blocks, Len(f.prev_root), sealed_tip) IN
            /\ hn_height > Len(f.prev_root)
            /\ w \in f.blocks[hn_height].withdrawals
            /\ split[1] = f.prev_root
            /\ GuestProves(split, w)
            /\ receipts' = receipts \cup {Statement(split, f, w)}
     \/ ProverFails
  /\ UNCHANGED <<boxes, nextId, pending, chain, payments>>

-----------------------------------------------------------------------------
(* Releases                                                                *)

ReleaseOutputs(v, r) ==
  <<[Candidate("vault", v.erg - FEE_NANOERG - BOX_ERG, 1, v.use - r.amount)
       EXCEPT !.r4 = r.new_root, !.r5 = v.r5 + 1],
    Candidate(r.recipient, BOX_ERG, 0, r.amount), FeeCandidate>>

\* The operator runs `release` with a receipt and the vault box of the moment.
Release ==
  \E r \in receipts, v \in boxes :
    /\ v.at = "vault" /\ v.nft = 1
    /\ v.use >= r.amount
    /\ v.erg >= FEE_NANOERG + BOX_ERG   \* below, the subtraction wraps to an amount the node refuses
    /\ Build(<<v>>, ReleaseOutputs(v, r), [nft |-> 0, use |-> 0], <<r>>)

\* The journal the contract rebuilds from the transaction.
JournalExpr(v, nv, rec) ==
  [prev_root |-> v.r4, new_root |-> nv.r4, amount |-> rec.use, counter |-> v.r5 + 1, recipient |-> rec.at]

VaultBody(t) ==
  LET v == t.ins[1] nv == t.outs[1] rec == t.outs[2] IN
  /\ v.nft = 1 /\ nv.nft = 1 /\ nv.at = "vault"
  /\ nv.r5 = v.r5 + 1
  /\ rec.use > 0
  /\ Len(t.outs) = 3 /\ t.outs[3].nft = 0 /\ t.outs[3].use = 0
  /\ t.receipt # None
  /\ LET journal == JournalExpr(v, nv, rec) IN
     \A field \in DOMAIN journal : t.receipt[1][field] = journal[field]

NodeAccepts(t) ==
  /\ ToSet(t.ins) \subseteq boxes
  /\ Erg(t.ins) = Erg(t.outs)
  /\ Nft(t.outs) <= Nft(t.ins) + t.minted.nft /\ Use(t.outs) <= Use(t.ins) + t.minted.use
  /\ (\E b \in ToSet(t.ins) : b.at = "vault") => VaultBody(t)

\* A transaction the node refuses is an error of the command, which ends.
Submit(t) ==
  /\ pending' = pending \ {t}
  /\ IF NodeAccepts(t)
     THEN /\ boxes' = (boxes \ ToSet(t.ins)) \cup
                         {[id |-> nextId + i - 1] @@ t.outs[i] : i \in DOMAIN t.outs}
          /\ nextId' = nextId + Len(t.outs)
          /\ payments' = IF t.receipt = None THEN payments ELSE Append(payments, t.receipt[1].of)
     ELSE UNCHANGED <<boxes, nextId, payments>>
  /\ UNCHANGED <<chain, fetched, receipts>>

BridgeNext ==
  \/ ProduceBlock \/ DropBlock
  \/ MintToken(1, 0) \/ MintToken(0, SUPPLY)
  \/ DeployVault \/ DepositCmd
  \/ FetchBlocks \/ (\E w \in Withdrawal : Prove(w))
  \/ Release
  \/ \E t \in pending : Submit(t)

-----------------------------------------------------------------------------
(* Properties                                                              *)

\* No withdrawal is released twice, however receipts are kept, retried and raced and
\* whatever the chain does to the block that recorded it (vault.rs:25-29).
PaidOnce == IsInjective(payments)

\* The vault box accounts for what was released: its counter is the number of
\* releases, its USE what they left of the funding, the history under its root
\* records each of them, and each was paid in full to its own recipient; no unit of
\* USE is lost on the way (txbuild.rs:223-289, vault.rs:216-240).
VaultAccounts ==
  LET paid == {payments[i] : i \in DOMAIN payments} IN
  /\ \A v \in boxes :
       v.at = "vault" /\ v.nft = 1 =>
         /\ v.r5 = Len(payments)
         /\ v.use + FoldLeft(LAMBDA s, w : s + Amount[w], 0, payments) = FUNDING
         /\ paid \subseteq Recorded(v.r4)
  /\ \A w \in paid : \E b \in boxes : b.at = Recipient[w] /\ b.use = Amount[w]
  /\ MapThenSumSet(LAMBDA b : b.use, boxes) % SUPPLY = 0
================================================================================
