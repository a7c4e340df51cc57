------------------------------ MODULE HnSettlement ------------------------------
(***************************************************************************)
(* The settlement loop: hash-native blocks, the Ergo chain they are        *)
(* merge-mined with, the prover, and the vault box.  Blocks come from any  *)
(* producer, honest or not (Lies), the branch may reorganise under the     *)
(* prover, a receipt may be kept and presented at any time and more than   *)
(* once.  The vault is deployed on the genesis prefix.                     *)
(***************************************************************************)
EXTENDS HnEpoch

CONSTANTS
  MaxBlocks,     \* bound on the blocks above the genesis prefix
  MaxErgo,       \* bound on the Ergo headers after deployment
  MaxReceipts,   \* bound on the receipts proven
  MaxReorgs,     \* bound on the blocks that lose to another branch
  GenesisTime,
  Offers         \* what producers put in a block: spends, the age of the root
                 \* they prove against, deposits, time, and errors
                 \* <<coinbase, pot, shielded, nbits>> in its claims

ASSUME SettlementAssumption ==
  /\ {MaxBlocks, MaxErgo, MaxReceipts, MaxReorgs, GenesisTime} \subseteq Nat
  /\ Offers \subseteq [txs : Seq(Spend), pegouts : Seq(Spend), age : Nat,
                      pegins : Seq(Deposit), ts : Nat, lie : Int \X Int \X Int \X Int]

VARIABLES
  chain,      \* blocks of the branch, genesis prefix first
  ergo,       \* canonical Ergo headers [hn, deposits]
  vault,      \* registers of the vault box
  receipts,   \* journals proven so far
  reorgs      \* bound counter

\* Observers: blocks released and withdrawals paid by the vault so far.
VARIABLES settled, paid

vars == <<chain, ergo, vault, receipts, reorgs, settled, paid>>

--------------------------------------------------------------------------------
(* The node's view of a branch *)

\* What a block claims its successor's parent state to be; for an honest block,
\* apply_block's result.
Claimed(st, block) ==
  [ApplyBlock(st, block) EXCEPT !.pot = block.pot_after,
                                !.shielded_total = block.shielded_after]

StateAfter(blocks) == FoldLeft(Claimed, NewState, blocks)

StateAt(i) == StateAfter(SubSeq(chain, 1, i))

ParentId(blocks) ==
  IF blocks = <<>> THEN GENESIS_HEADER_ID ELSE HeaderId(Last(blocks))

\* A node accepts a block on st: apply_block, and the header fields that
\* ingest_block links by.
NodeAccepts(st, parent_id, block) ==
  /\ ValidBlock(st, block)
  /\ block.height = st.height
  /\ block.prev_header_id = parent_id
  /\ block.state_root = st.tree \o NewLeaves(st, block)

\* A node accepts every block of a branch.
NodeValid(blocks) ==
  FoldLeft(LAMBDA acc, block :
      [ok |-> acc.ok /\ NodeAccepts(acc.st, acc.id, block),
       st |-> Claimed(acc.st, block),
       id |-> HeaderId(block)],
    [ok |-> TRUE, st |-> NewState, id |-> GENESIS_HEADER_ID], blocks).ok

Genesis ==
  FoldLeft(LAMBDA blocks, amount :
      LET st == StateAfter(blocks)
      IN Append(blocks, Sealed(AssembleGenesis(st, GenesisTime), ParentId(blocks), st)),
    <<>>, GenesisAlloc)

Init ==
  /\ chain = Genesis
  /\ \E deposits \in SUBSET Deposit :
       ergo = << [hn |-> GENESIS_HEADER_ID, deposits |-> deposits] >>
  /\ vault = [R4 |-> StateAfter(Genesis).tree, R5 |-> 0, R6 |-> {},
              R7 |-> ParentId(Genesis)]
  /\ receipts = {}
  /\ reorgs = 0
  /\ settled = <<>>
  /\ paid = <<>>

--------------------------------------------------------------------------------
(* Actions *)

Misstated(block, lie) ==
  [block EXCEPT !.coinbase_amount = @ + lie[1],
                !.pot_after = @ + lie[2],
                !.shielded_after = @ + lie[3],
                !.sc_nbits = @ + lie[4]]

Filler ==
  [txs |-> <<>>, pegouts |-> <<>>, age |-> 0, pegins |-> <<>>, ts |-> Last(chain).timestamp_ms,
   lie |-> <<0, 0, 0, 0>>]

\* Proven spends against the root of age blocks ago.
TxsOf(spends, age) ==
  [i \in DOMAIN spends |-> [spend |-> spends[i],
                           root |-> chain[Max({1, Len(chain) - age})].state_root]]

Proven(txs) == \A i \in DOMAIN txs : CircuitVerifies(txs[i])

\* A block by any producer, its share paid for in real work.  Bound: only fillers
\* go on top of a block that nodes refuse.
MineBlock ==
  LET st == StateAt(Len(chain))
  IN /\ Len(chain) < Len(GenesisAlloc) + MaxBlocks
     /\ \E o \in IF NodeValid(chain) THEN Offers ELSE {Filler} :
          LET txs == TxsOf(o.txs, o.age)
              pegouts == TxsOf(o.pegouts, o.age)
              block == AssembleReward(st, txs, pegouts, o.pegins, 0, o.ts)
          IN /\ Proven(txs \o pegouts)
             /\ chain' = Append(chain, Sealed(Misstated(block, o.lie), ParentId(chain), st))
     /\ UNCHANGED <<ergo, vault, receipts, reorgs, settled, paid>>

\* The tip loses to another branch.  Bound: only once something was proven.
Reorg ==
  /\ receipts # {}
  /\ Len(chain) > Len(GenesisAlloc)
  /\ reorgs < MaxReorgs
  /\ chain' = Front(chain)
  /\ reorgs' = reorgs + 1
  /\ UNCHANGED <<ergo, vault, receipts, settled, paid>>

\* An Ergo block: it carries the share of the tip.
ErgoBlock ==
  /\ Len(ergo) <= MaxErgo
  /\ ergo' = Append(ergo, [hn |-> HeaderId(Last(chain)), deposits |-> {}])
  /\ UNCHANGED <<chain, vault, receipts, reorgs, settled, paid>>

\* The witness for blocks k + 1 .. e of the branch.
Witness(k, e) ==
  [tip_id_prev |-> HeaderId(chain[k]),
   seam |-> [i \in 1 .. Min({k, SEAM_LEN}) |-> Header(chain[k + 1 - i])],
   blocks |-> SubSeq(chain, k + 1, e)]

SealedTips == {k \in DOMAIN chain : HeaderId(chain[k]) = vault.R7}

\* A proof of a suffix over the newest Ergo header, the last to leave the window.
Prove ==
  \E k \in SealedTips :
  \E e \in k + 1 .. Len(chain) :
    LET w == Witness(k, e)
        ref == Len(ergo)
        journal == Journal(w, vault.R6, ref, vault.R5 + Len(Withdrawals(w)))
    IN /\ Cardinality(receipts) < MaxReceipts
       /\ GuestAccepts(w, vault.R6, ergo, ref)
       /\ receipts' = receipts \cup {[journal |-> journal, blocks |-> w.blocks]}
       /\ UNCHANGED <<chain, ergo, vault, reorgs, settled, paid>>

\* A release transaction spends the vault box with a receipt.
Release ==
  \E r \in receipts :
    /\ VaultReleases(vault, r.journal, ergo)
    /\ vault' = Successor(vault, r.journal)
    /\ settled' = settled \o r.blocks
    /\ paid' = paid \o r.journal.withdrawals
    /\ UNCHANGED <<chain, ergo, receipts, reorgs>>

Next == MineBlock \/ Reorg \/ ErgoBlock \/ Prove \/ Release

Spec == Init /\ [][Next]_vars
--------------------------------------------------------------------------------
(* Properties *)

Ledger == Genesis \o settled

DepositsOn(headers) == UNION {headers[i].deposits : i \in DOMAIN headers}

\* What the vault has settled is a ledger every node accepts, block by block, and
\* its registers are that ledger's state: the guest's checks leave no block in
\* that apply_block would refuse, over any number of settlements (verify.rs: the
\* guest's accepted set stays a subset of the node's).
SettledIsLedger ==
  LET st == StateAfter(Ledger)
  IN /\ NodeValid(Ledger)
     /\ vault.R4 = st.tree
     /\ vault.R5 = Len(paid)
     /\ vault.R6 = {NullifierKey(n) : n \in st.nullifiers}
                     \cup {PeginUsedKey(d) : d \in st.used_pegins}
     /\ vault.R7 = ParentId(Ledger)
     /\ paid = [i \in DOMAIN st.pending_withdrawals |-> st.pending_withdrawals[i].spend]

Issued == Total(GenesisAlloc) + GENESIS_POT

\* The vault holds what the settled pool still owes beyond what genesis issued:
\* every deposit a settled block minted is on Ergo, once, and every release was
\* funded by a burn (verify_pegin_backing, verify_epoch's conservation).
VaultCovers ==
  LET st == StateAfter(Ledger)
      held == MapThenSumSet(LAMBDA d : DepositAmount[d], DepositsOn(ergo))
      released == Total([i \in DOMAIN paid |-> Withdraw[paid[i]]])
  IN held - released >= st.pot + st.shielded_total - Issued

\* A settlement of blocks k + 1 .. e that needs nothing more than Ergo blocks.
Settleable(k, e) ==
  LET w == Witness(k, e)
  IN /\ RootProofVerifies(w) /\ VerifyEpoch(w)
     /\ FreshNullifiers(w, vault.R6)
     /\ Len(Withdrawals(w)) \in 1 .. MAX_BATCH

ClockRuns == \A i \in 2 .. Len(chain) : chain[i].timestamp_ms >= chain[i - 1].timestamp_ms

\* Once every withdrawal a node recorded above the vault's tip is PEGOUT_DELAY
\* blocks old, some suffix settles them: the guest refuses no chain that nodes
\* accept, as long as block times do not go back (hn/params.rs pegout_delay:
\* the blocks a recorded withdrawal waits before it is settleable).
RipeIsSettleable ==
  \A k \in SealedTips :
    LET pegouts == {i \in k + 1 .. Len(chain) : chain[i].pegouts # <<>>}
    IN /\ pegouts # {}
       /\ \A i \in pegouts : i + PEGOUT_DELAY <= Len(chain)
       /\ ClockRuns
       /\ NodeValid(chain)
       => \E e \in k + 1 .. Len(chain) : Settleable(k, e)

\* The window and difficulty the guest derives from headers alone for the newest
\* block are the node's, wherever the suffix starts (seam_anchor_window, the node's
\* recent_roots and daa_view).
SeamIsNodeState ==
  NodeValid(chain) =>
    LET st == StateAt(Len(chain) - 1)
    IN \A k \in Len(GenesisAlloc) .. Len(chain) - 1 :
         LET w == Witness(k, Len(chain))
         IN /\ RootsAt(w, Len(w.blocks)) = st.recent_roots
            /\ DaaViewAt(w, Len(w.blocks)) = st.daa_view

===============================================================================
