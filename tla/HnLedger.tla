------------------------------- MODULE HnLedger -------------------------------
(***************************************************************************)
(* The hash-native pool state and its transition function                  *)
(* (aegis-node/src/hn/state.rs, params.rs, mint.rs): validate_tx,          *)
(* apply_block and rollback as operators on a state record.                *)
(*                                                                         *)
(* A note commitment is a token that names where the note comes from, its  *)
(* nullifier is the same token (one nullifier per note), and a Merkle root *)
(* is the sequence of leaves it commits to: the hashes are injective and   *)
(* nothing else about them matters here.  The spend circuit is external: a *)
(* proof verifies when both inputs are leaves under the claimed root, and  *)
(* the values balance (BalanceAssumption).                                 *)
(***************************************************************************)
EXTENDS Integers, Sequences, FiniteSets, SequencesExt

CONSTANTS
  Spend,            \* the 2-in/2-out spends wallets may build
  Inputs,           \* the two notes a spend consumes
  OutValue,         \* values of its two outputs
  Withdraw,         \* amount its burn output funds; 0 when out0 is not a burn
  Deposit,          \* devnet vault deposits (box ids)
  DepositAmount,
  GenesisAlloc,     \* params.genesis: pinned amounts, one block each
  GENESIS_POT,
  FLAT_FEE,
  COINBASE_BASE,
  COINBASE_PER_TX,
  PEG_FEE_PERCENT,
  ROOT_WINDOW,      \* params.root_window
  DAA_WINDOW,       \* params.daa_window
  NextNbits(_)      \* daa.rs next_nbits over the (timestamp, nbits) view

--------------------------------------------------------------------------------
(* Notes *)

Alloc(i) == <<"alloc", i>>
Mint(d) == <<"mint", d>>
Coinbase(h) == <<"coinbase", h>>
Out(s, j) == <<"out", s, j>>

PegFee(amount) == Max({(amount * PEG_FEE_PERCENT) \div 100, 1})

CoinbaseAmount(pot, n) == Min({COINBASE_BASE + COINBASE_PER_TX * n, pot})

\* Value of a note other than a coinbase, fixed by where it comes from.
NoteValue(n) ==
  CASE n[1] = "alloc" -> GenesisAlloc[n[2]]
    [] n[1] = "mint" -> DepositAmount[n[2]] - PegFee(DepositAmount[n[2]])
    [] n[1] = "out" -> OutValue[n[2]][n[3]]

SpendableNotes ==
  {Alloc(i) : i \in DOMAIN GenesisAlloc} \cup {Mint(d) : d \in Deposit}
    \cup {Out(s, j) : s \in Spend, j \in 1 .. 2}

BurnValue(s) == Withdraw[s] + PegFee(Withdraw[s])

ASSUME LedgerAssumption ==
  /\ Inputs \in [Spend -> SUBSET SpendableNotes]
  /\ \A s \in Spend : Cardinality(Inputs[s]) = 2
  /\ OutValue \in [Spend -> Nat \X Nat]
  /\ Withdraw \in [Spend -> Nat]
  /\ DepositAmount \in [Deposit -> Nat]
  /\ GenesisAlloc \in Seq(Nat)
  /\ {GENESIS_POT, FLAT_FEE, COINBASE_BASE, COINBASE_PER_TX,
      PEG_FEE_PERCENT} \subseteq Nat
  /\ {ROOT_WINDOW, DAA_WINDOW} \subseteq Nat \ {0}

\* What the circuit proves of a spend besides membership: inputs pay for the
\* outputs and the flat fee, and the output a peg-out names is the burn note of
\* amount and fee.
ASSUME BalanceAssumption ==
  \A s \in Spend :
    /\ \E n, m \in Inputs[s] :
         /\ n # m /\ Inputs[s] = {n, m}
         /\ NoteValue(n) + NoteValue(m) = OutValue[s][1] + OutValue[s][2] + FLAT_FEE
    /\ Withdraw[s] > 0 => OutValue[s][1] = BurnValue(s)

--------------------------------------------------------------------------------
(* State: HnState.  `tree` stands for cm_leaves, the NoteTree and `outputs`. *)

Leaf(note, value) == [note |-> note, value |-> value]

LeafType == [note : SpendableNotes \cup ({"coinbase"} \X Nat), value : Nat]

TxType == [spend : Spend, root : Seq(LeafType)]

NewState ==
  [tree |-> <<>>, nullifiers |-> {}, recent_roots |-> << <<>> >>, height |-> 0,
   anchor_height |-> 0, daa_view |-> <<>>, pot |-> GENESIS_POT,
   shielded_total |-> 0, used_pegins |-> {}, pending_withdrawals |-> <<>>]

Notes(tree) == {tree[i].note : i \in DOMAIN tree}

ExpectedNbits(st) == NextNbits(st.daa_view)

\* SpendCircuit::verify on tx = [spend, root].
CircuitVerifies(tx) == Inputs[tx.spend] \subseteq Notes(tx.root)

ValidateTx(st, tx, pending) ==
  /\ tx.root \in ToSet(st.recent_roots)
  /\ Inputs[tx.spend] \cap (st.nullifiers \cup pending) = {}
  /\ CircuitVerifies(tx)

--------------------------------------------------------------------------------
(* Blocks *)

Spends(block) == block.txs \o block.pegouts

SpentBy(txs) == UNION {Inputs[txs[i].spend] : i \in DOMAIN txs}

\* The sums of the first i numbers of s.
Totals(s) ==
  LET sum[i \in 0 .. Len(s)] == IF i = 0 THEN 0 ELSE sum[i - 1] + s[i]
  IN sum

Total(s) == Totals(s)[Len(s)]

Fees(block) == FLAT_FEE * Len(Spends(block))
PegOutOutflow(block) ==
  Total([i \in DOMAIN block.pegouts |-> Withdraw[block.pegouts[i].spend]])
PegOutFees(block) ==
  Total([i \in DOMAIN block.pegouts |-> PegFee(Withdraw[block.pegouts[i].spend])])
BurnTotal(block) ==
  Total([i \in DOMAIN block.pegouts |-> BurnValue(block.pegouts[i].spend)])
PegInInflow(block) == Total([i \in DOMAIN block.pegins |-> DepositAmount[block.pegins[i]]])
PegInFees(block) ==
  Total([i \in DOMAIN block.pegins |-> PegFee(DepositAmount[block.pegins[i]])])

ExpectedCoinbase(st, block) == CoinbaseAmount(st.pot, Len(Spends(block)))

PotNext(st, block) ==
  st.pot + Fees(block) + PegOutFees(block) + PegInFees(block)
    - ExpectedCoinbase(st, block)

ShieldedNext(st, block) ==
  st.shielded_total + ExpectedCoinbase(st, block)
    + (PegInInflow(block) - PegInFees(block)) - (Fees(block) + BurnTotal(block))

\* Transfers, then peg-outs; `seen` grows through both.
ValidSpends(st, block) ==
  LET all == Spends(block)
  IN \A i \in DOMAIN all :
       /\ ValidateTx(st, all[i], SpentBy(SubSeq(all, 1, i - 1)))
       /\ i > Len(block.txs) => Withdraw[all[i].spend] > 0

ValidPegIns(st, block) ==
  \A i \in DOMAIN block.pegins :
    /\ block.pegins[i] \notin st.used_pegins
    /\ block.pegins[i] \notin ToSet(SubSeq(block.pegins, 1, i - 1))
    /\ DepositAmount[block.pegins[i]] > PegFee(DepositAmount[block.pegins[i]])

\* Mutant: the miner's own coinbase amount is taken on trust.
ValidRewardTrustsMiner(st, block) ==
  /\ st.height >= Len(GenesisAlloc)
  /\ block.pot_after = PotNext(st, block)
  /\ block.shielded_after = ShieldedNext(st, block)

\* Pot-funded block, only after the genesis prefix.
ValidReward(st, block) ==
  /\ st.height >= Len(GenesisAlloc)
  /\ block.coinbase_amount = ExpectedCoinbase(st, block)
  /\ block.pot_after = PotNext(st, block)
  /\ ShieldedNext(st, block) >= 0
  /\ PegOutOutflow(block) <= st.shielded_total + st.pot + PegInInflow(block)
  /\ ShieldedNext(st, block) + PotNext(st, block)
       = st.shielded_total + st.pot + PegInInflow(block) - PegOutOutflow(block)
  /\ block.shielded_after = ShieldedNext(st, block)

\* Pinned genesis allocation, only inside the genesis prefix.
ValidGenesis(st, block) ==
  /\ st.height < Len(GenesisAlloc)
  /\ Spends(block) = <<>>
  /\ block.pegins = <<>>
  /\ block.coinbase_amount = GenesisAlloc[st.height + 1]
  /\ block.pot_after = st.pot
  /\ block.shielded_after = st.shielded_total + block.coinbase_amount

\* The checks of apply_block, all made before any mutation.
ValidBlock(st, block) ==
  /\ block.prev_root = st.tree
  /\ block.anchor >= st.anchor_height
  /\ block.sc_nbits = ExpectedNbits(st)
  /\ ValidSpends(st, block)
  /\ ValidPegIns(st, block)
  /\ IF block.coinbase_is_reward THEN ValidReward(st, block)
                                 ELSE ValidGenesis(st, block)

\* Two leaves for each spend, one for each peg-in, and the coinbase.
OutLeaves(block) ==
  [k \in 1 .. 2 * Len(Spends(block)) |->
     LET s == Spends(block)[(k + 1) \div 2].spend
         j == IF k % 2 = 1 THEN 1 ELSE 2
     IN Leaf(Out(s, j), OutValue[s][j])]
MintLeaves(block) ==
  [i \in DOMAIN block.pegins |->
     Leaf(Mint(block.pegins[i]), NoteValue(Mint(block.pegins[i])))]
CoinLeaf(st, block) ==
  Leaf(IF block.coinbase_is_reward THEN Coinbase(st.height) ELSE Alloc(st.height + 1),
       block.coinbase_amount)

\* The leaves a block appends, in this order.
NewLeaves(st, block) ==
  OutLeaves(block) \o MintLeaves(block) \o <<CoinLeaf(st, block)>>

\* Push onto a window that holds at most n entries.
Slide(window, x, n) ==
  IF Len(window) = n THEN Append(Tail(window), x) ELSE Append(window, x)
Evicted(window, n) == IF Len(window) = n THEN <<Head(window)>> ELSE <<>>

\* The mutation half of apply_block.
ApplyBlock(st, block) ==
  LET tree == st.tree \o NewLeaves(st, block)
  IN [tree |-> tree,
      nullifiers |-> st.nullifiers \cup SpentBy(Spends(block)),
      recent_roots |-> Slide(st.recent_roots, tree, ROOT_WINDOW),
      height |-> st.height + 1,
      anchor_height |-> block.anchor,
      daa_view |-> Slide(st.daa_view, <<block.timestamp_ms, block.sc_nbits>>,
                         DAA_WINDOW + 1),
      pot |-> IF block.coinbase_is_reward THEN PotNext(st, block) ELSE st.pot,
      shielded_total |->
        IF block.coinbase_is_reward THEN ShieldedNext(st, block)
                                    ELSE st.shielded_total + block.coinbase_amount,
      used_pegins |-> st.used_pegins \cup ToSet(block.pegins),
      pending_withdrawals |->
        st.pending_withdrawals \o
          [i \in DOMAIN block.pegouts |->
             [spend |-> block.pegouts[i].spend,
              amount |-> Withdraw[block.pegouts[i].spend],
              hn_height |-> st.height]]]

\* HnBlockUndo
UndoOf(st, block) ==
  [leaf_count |-> Len(st.tree),
   added_nullifiers |-> SpentBy(Spends(block)),
   height |-> st.height,
   anchor_height |-> st.anchor_height,
   pot |-> st.pot,
   shielded_total |-> st.shielded_total,
   added_pegins |-> ToSet(block.pegins),
   withdrawal_count |-> Len(st.pending_withdrawals),
   evicted_root |-> Evicted(st.recent_roots, ROOT_WINDOW),
   evicted_daa |-> Evicted(st.daa_view, DAA_WINDOW + 1)]

\* Mutant: the evicted root is not put back.
RollbackShortWindow(st, undo) ==
  [tree |-> SubSeq(st.tree, 1, undo.leaf_count),
   nullifiers |-> st.nullifiers \ undo.added_nullifiers,
   recent_roots |-> Front(st.recent_roots),
   height |-> undo.height,
   anchor_height |-> undo.anchor_height,
   daa_view |-> undo.evicted_daa \o Front(st.daa_view),
   pot |-> undo.pot,
   shielded_total |-> undo.shielded_total,
   used_pegins |-> st.used_pegins \ undo.added_pegins,
   pending_withdrawals |-> SubSeq(st.pending_withdrawals, 1, undo.withdrawal_count)]

Rollback(st, undo) ==
  [tree |-> SubSeq(st.tree, 1, undo.leaf_count),
   nullifiers |-> st.nullifiers \ undo.added_nullifiers,
   recent_roots |-> undo.evicted_root \o Front(st.recent_roots),
   height |-> undo.height,
   anchor_height |-> undo.anchor_height,
   daa_view |-> undo.evicted_daa \o Front(st.daa_view),
   pot |-> undo.pot,
   shielded_total |-> undo.shielded_total,
   used_pegins |-> st.used_pegins \ undo.added_pegins,
   pending_withdrawals |-> SubSeq(st.pending_withdrawals, 1, undo.withdrawal_count)]

--------------------------------------------------------------------------------
(* Block assembly, as the producer does it (chain.rs) *)

\* A block on st before its reward or allocation is filled in.
Skeleton(st, is_reward, txs, pegouts, pegins, anchor, ts) ==
  [prev_root |-> st.tree, anchor |-> anchor, timestamp_ms |-> ts,
   sc_nbits |-> ExpectedNbits(st), txs |-> txs, pegouts |-> pegouts,
   pegins |-> pegins, coinbase_is_reward |-> is_reward, coinbase_amount |-> 0,
   pot_after |-> st.pot, shielded_after |-> st.shielded_total]

\* produce_block_anchored up to the point where the block is applied.
AssembleReward(st, txs, pegouts, pegins, anchor, ts) ==
  LET b == Skeleton(st, TRUE, txs, pegouts, pegins, anchor, ts)
  IN [b EXCEPT !.coinbase_amount = ExpectedCoinbase(st, b),
               !.pot_after = PotNext(st, b),
               !.shielded_after = ShieldedNext(st, b)]

\* fund, up to the same point.
AssembleGenesis(st, ts) ==
  [Skeleton(st, FALSE, <<>>, <<>>, <<>>, 0, ts) EXCEPT
     !.coinbase_amount = GenesisAlloc[st.height + 1],
     !.shielded_after = @ + GenesisAlloc[st.height + 1]]

===============================================================================
