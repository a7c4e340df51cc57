-------------------------------- MODULE HnState --------------------------------
(***************************************************************************)
(* HnState as a state machine: blocks are applied and, in the reverse      *)
(* order, rolled back with the undo record apply_block returned            *)
(* (aegis-node/src/hn/state.rs).  Blocks come from any producer: besides   *)
(* honest ones, blocks whose claimed coinbase, pot or shielded total is    *)
(* off by an entry of Lies.                                                *)
(***************************************************************************)
EXTENDS HnLedger

CONSTANTS
  MaxHeight,   \* bound on the chain length
  MaxSpends,   \* bound on the transfers and on the peg-outs of a block
  MaxPegIns,   \* bound on the peg-ins of a block
  Anchors,     \* devnet heights blocks may be anchored to
  Timestamps,
  Lies         \* errors <<coinbase, pot, shielded>> in the claims of a block

VARIABLES
  ledger,  \* the HnState
  undos    \* HnBlockUndo records, newest last

\* Observer: the states the undo records lead back to.
VARIABLE past

ledgerVars == <<ledger, undos, past>>

LedgerInit ==
  /\ ledger = NewState
  /\ undos = <<>>
  /\ past = <<>>

\* apply_block: an invalid block is an error and leaves the state alone.
Apply(block) ==
  /\ ValidBlock(ledger, block)
  /\ ledger' = ApplyBlock(ledger, block)
  /\ undos' = Append(undos, UndoOf(ledger, block))
  /\ past' = Append(past, ledger)

Misstated(block, lie) ==
  [block EXCEPT !.coinbase_amount = @ + lie[1],
                !.pot_after = @ + lie[2],
                !.shielded_after = @ + lie[3]]

\* Proven spends, anchored to any root this branch had, in the window or not.
ProvenTxs ==
  {tx \in [spend : Spend, root : {past[i].tree : i \in DOMAIN past} \cup {ledger.tree}] :
     CircuitVerifies(tx)}

ApplyReward ==
  /\ ledger.height < MaxHeight
  /\ \E txs, pegouts \in BoundedSeq(ProvenTxs, MaxSpends),
        pegins \in BoundedSeq(Deposit, MaxPegIns),
        anchor \in Anchors, ts \in Timestamps, lie \in Lies :
       Apply(Misstated(AssembleReward(ledger, txs, pegouts, pegins, anchor, ts), lie))

ApplyGenesis ==
  /\ ledger.height < Len(GenesisAlloc)
  /\ \E ts \in Timestamps, lie \in Lies :
       Apply(Misstated(AssembleGenesis(ledger, ts), lie))

RollbackTip ==
  /\ undos # <<>>
  /\ ledger' = Rollback(ledger, Last(undos))
  /\ undos' = Front(undos)
  /\ past' = Front(past)

LedgerNext == ApplyReward \/ ApplyGenesis \/ RollbackTip

LedgerSpec == LedgerInit /\ [][LedgerNext]_ledgerVars
--------------------------------------------------------------------------------
(* Properties *)

\* Types of HnState; the u64 balances never go below zero.
LedgerTypeOK ==
  /\ ledger.tree \in Seq(LeafType)
  /\ ledger.nullifiers \subseteq SpendableNotes
  /\ \A i \in DOMAIN ledger.recent_roots : ledger.recent_roots[i] \in Seq(LeafType)
  /\ ledger.height \in Nat
  /\ ledger.anchor_height \in Nat
  /\ ledger.daa_view \in Seq(Nat \X Nat)
  /\ ledger.pot \in Nat
  /\ ledger.shielded_total \in Nat
  /\ ledger.used_pegins \subseteq Deposit
  /\ Len(undos) = Len(past)

\* Every nullifier is of a note in the tree and no note is in it twice, so a
\* spent note cannot be paid out again: a deposit is minted at most once, a spend
\* lands at most once, and a deposit is marked used exactly while its note is
\* there (validate_tx, the peg-in loop and the used set of apply_block).
NotesUnique ==
  /\ \A i, j \in DOMAIN ledger.tree : ledger.tree[i].note = ledger.tree[j].note => i = j
  /\ ledger.nullifiers \subseteq Notes(ledger.tree)
  /\ \A d \in Deposit : d \in ledger.used_pegins <=> Mint(d) \in Notes(ledger.tree)

UnspentValue ==
  Total([i \in DOMAIN ledger.tree |->
           IF ledger.tree[i].note \in ledger.nullifiers THEN 0 ELSE ledger.tree[i].value])

WithdrawnBurns ==
  LET w == ledger.pending_withdrawals
  IN Total([i \in DOMAIN w |-> w[i].amount + PegFee(w[i].amount)])

\* The public shielded_total is what the unspent notes are worth, less the burn
\* notes of recorded withdrawals, although no validator sees a note's value
\* (conservation replay of apply_block).
PoolMatchesNotes == ledger.shielded_total = UnspentValue - WithdrawnBurns

\* Issued at genesis so far.
Issued == Total(SubSeq(GenesisAlloc, 1, Min({ledger.height, Len(GenesisAlloc)})))

\* What the minted deposits brought in: by NotesUnique those marked used, each once.
Brought(leaf) == IF leaf.note[1] = "mint" THEN DepositAmount[leaf.note[2]] ELSE 0
Deposited == Total([i \in DOMAIN ledger.tree |-> Brought(ledger.tree[i])])

\* Pot and pool together hold the genesis issuance plus what came in through
\* deposits less what withdrawals took out, across rollbacks too: the coinbase
\* and every fee only move value (I1 conservation of apply_block and rollback).
Conservation ==
  ledger.pot + ledger.shielded_total =
    GENESIS_POT + Issued + Deposited
      - Total([i \in DOMAIN ledger.pending_withdrawals |-> ledger.pending_withdrawals[i].amount])

\* No note is in the tree twice, the shielded total is what the unspent notes are
\* worth, and pot and pool hold exactly what came in.
LedgerConserves == LedgerTypeOK /\ NotesUnique /\ PoolMatchesNotes /\ Conservation

\* Rolling back returns the exact state the block was applied to, the entries
\* that slid out of the root and DAA windows included (rollback).
RollbackExact ==
  undos # <<>> => Rollback(ledger, Last(undos)) = Last(past)

\* The acceptance window holds the roots of the newest ROOT_WINDOW states of this
\* branch and no other, through any mix of blocks and rollbacks: a root of an
\* abandoned branch never becomes an anchor again (recent_roots).
WindowIsRecent ==
  LET roots == Append([i \in DOMAIN past |-> past[i].tree], ledger.tree)
      n == Min({ROOT_WINDOW, Len(roots)})
  IN ledger.recent_roots = SubSeq(roots, Len(roots) - n + 1, Len(roots))

\* A rollback leads back to the very state the block was applied to, and the window
\* of accepted roots is that of this branch alone.
LedgerRollsBack == RollbackExact /\ WindowIsRecent

===============================================================================
