------------------------------- MODULE MmLedger --------------------------------
(***************************************************************************)
(* The legacy (curve-tree) shielded ledger: ShieldedState, the state half  *)
(* of Chain::try_extend and of block production, and the mempool           *)
(* (aegis-node/src/state.rs, chain.rs, mempool.rs, proof.rs), as operators *)
(* on records.  The header checks of try_extend (link, time, difficulty)   *)
(* are MmForkChoice!Verdict.                                               *)
(*                                                                         *)
(* A note commitment is the note [nf, value, owner]: the commitment hides  *)
(* but is injective, and the nullifier nf does not depend on the value.    *)
(* The tree root is the sequence of leaves, the nullifier digest the       *)
(* sequence of what was folded into it.  The circuit is external: a proof  *)
(* verifies when its inputs are leaves of the anchor it was built for, it  *)
(* balances at the consensus fee, and its nullifiers are the inputs'.      *)
(***************************************************************************)
EXTENDS Integers, Sequences, FiniteSets, SequencesExt, FiniteSetsExt

CONSTANTS
  SC_TX_FEE,
  R_TARGET,                \* coinbase target per unit of traffic
  STATE_RETENTION_BLOCKS,
  ProofMode,               \* "Real", or "DevStub" on the dev network
  MAX_MEMPOOL_TXS,
  MAX_BLOCK_TRANSFERS

ASSUME MmLedgerAssumption ==
  /\ {SC_TX_FEE, R_TARGET, MAX_MEMPOOL_TXS, MAX_BLOCK_TRANSFERS} \subseteq Nat
  /\ STATE_RETENTION_BLOCKS \in Nat \ {0}
  /\ ProofMode \in {"Real", "DevStub"}

Total(f(_), s) == FoldLeft(LAMBDA acc, x : acc + f(x), 0, s)
Joined(f(_), s) == FoldLeft(LAMBDA acc, x : acc \o f(x), <<>>, s)

Note(nf, value, owner) == [nf |-> nf, value |-> value, owner |-> owner]

--------------------------------------------------------------------------------
(* ShieldedState.  A block is [transfers, peg_mints, coinbase] and, once       *)
(* sealed, the header's commitments; coinbase is <<>> (DevStub) or <<note>>.   *)

NewState == [leaves |-> <<>>, nullifiers |-> {}, peg_used |-> {}, pot |-> 0,
             digest |-> <<>>]

Nullifiers(transfers) == Joined(LAMBDA tx : tx.nullifiers, transfers)

PotAfterFees(pot, n) == pot + SC_TX_FEE * n

\* coinbase_reward of the pot after fees.
ExpectedCoinbaseValue(pot, n) == Min({R_TARGET * (1 + n), PotAfterFees(pot, n)})

\* Fresh on the chain and within the block.
Fresh(st, transfers) ==
  LET nfs == Nullifiers(transfers)
  IN /\ IsInjective(nfs)
     /\ ToSet(nfs) \cap st.nullifiers = {}

\* Peg-mints need a validation context, which the node never configures.
Applies(st, block) ==
  /\ Fresh(st, block.transfers)
  /\ block.peg_mints = <<>>

NewLeaves(block) == Joined(LAMBDA tx : tx.outputs, block.transfers) \o block.coinbase

ApplyBlock(st, block) ==
  LET nfs == Nullifiers(block.transfers)
      n == Len(block.transfers)
      draw == IF block.coinbase = <<>> THEN 0 ELSE ExpectedCoinbaseValue(st.pot, n)
  IN [st EXCEPT !.nullifiers = @ \cup ToSet(nfs),
                !.digest = IF nfs = <<>> THEN @ ELSE Append(@, nfs),
                !.leaves = @ \o NewLeaves(block),
                !.pot = PotAfterFees(@, n) - draw]

BlockUndo(st, block) ==
  [added_nullifiers |-> Nullifiers(block.transfers), prev_pot |-> st.pot,
   prev_digest |-> st.digest, prev_leaf_count |-> Len(st.leaves)]

\* Mutant: the leaves of the block stay in the tree.
RollbackKeepsLeaves(st, undo) ==
  [st EXCEPT !.nullifiers = @ \ ToSet(undo.added_nullifiers), !.pot = undo.prev_pot,
             !.digest = undo.prev_digest]

Rollback(st, undo) ==
  [st EXCEPT !.nullifiers = @ \ ToSet(undo.added_nullifiers),
             !.pot = undo.prev_pot,
             !.digest = undo.prev_digest,
             !.leaves = SubSeq(@, 1, undo.prev_leaf_count)]

--------------------------------------------------------------------------------
(* Proofs *)

\* verify_shielded_transfer against the tree of all leaves.
VerifyTransfer(leaves, tx) ==
  /\ tx.anchor = leaves
  /\ ToSet(tx.inputs) \subseteq ToSet(leaves)
  /\ tx.nullifiers = [i \in DOMAIN tx.inputs |-> tx.inputs[i].nf]
  /\ Total(LAMBDA n : n.value, tx.inputs)
       = Total(LAMBDA n : n.value, tx.outputs) + SC_TX_FEE

--------------------------------------------------------------------------------
(* Chain: blocks above genesis, the state, and the undo ring.                  *)

Genesis == [blocks |-> <<>>, st |-> NewState, undo |-> <<>>]

\* The header's commitments to the state after the block.
Commitment(st) == [digest |-> st.digest, pot |-> st.pot, root |-> st.leaves]

Seal(st, block) == block @@ [commitment |-> Commitment(ApplyBlock(st, block))]

ProofsHold(st, block) ==
  \/ ProofMode = "DevStub"
  \/ \A i \in DOMAIN block.transfers : VerifyTransfer(st.leaves, block.transfers[i])

\* The mint proof binds the note to the expected reward.
CoinbaseHolds(st, block) ==
  \A i \in DOMAIN block.coinbase :
    block.coinbase[i].value = ExpectedCoinbaseValue(st.pot, Len(block.transfers))

Extends(chain, block) ==
  /\ ProofsHold(chain.st, block)
  /\ CoinbaseHolds(chain.st, block)
  /\ Applies(chain.st, block)
  /\ block.commitment = Commitment(ApplyBlock(chain.st, block))

TryExtend(chain, block) ==
  LET ring == Append(chain.undo, BlockUndo(chain.st, block))
  IN [blocks |-> Append(chain.blocks, block),
      st |-> ApplyBlock(chain.st, block),
      undo |-> IF Len(ring) > STATE_RETENTION_BLOCKS THEN Tail(ring) ELSE ring]

RollbackTip(chain) ==
  [blocks |-> Front(chain.blocks),
   st |-> Rollback(chain.st, Last(chain.undo)),
   undo |-> Front(chain.undo)]

\* Rewind to the fork point and extend along the other branch (switch_to).
RollbackTo(chain, height) ==
  FoldLeft(LAMBDA c, i : RollbackTip(c), chain, [i \in 1 .. Len(chain.blocks) - height |-> i])

--------------------------------------------------------------------------------
(* Mempool: a set of transfers, keyed by the bytes of the transfer.            *)

PoolNullifiers(pool) == UNION {ToSet(tx.nullifiers) : tx \in pool}

\* The two nullifiers are looked up one by one before either is inserted.
AdmitVerdict(pool, view, tx) ==
  CASE tx \in pool -> "duplicate"
    [] tx \notin pool /\ Cardinality(pool) >= MAX_MEMPOOL_TXS -> "full"
    [] OTHER ->
         IF ToSet(tx.nullifiers) \cap view.spent # {} THEN "spent"
         ELSE IF ToSet(tx.nullifiers) \cap PoolNullifiers(pool) # {} THEN "conflict"
         ELSE IF view.leaves = <<>> THEN "no_anchor"
         ELSE IF VerifyTransfer(view.leaves, tx) THEN "new"
         ELSE "invalid"

Admitted(verdict) == verdict \in {"new", "duplicate"}

\* Mutant: inclusion does not verify again.
SelectAny(pool, leaves) ==
  LET ordered == SetToSeq(pool)
  IN SubSeq(ordered, 1, Min({Len(ordered), MAX_BLOCK_TRANSFERS}))

SelectForBlock(pool, leaves) ==
  LET live == {tx \in pool : leaves # <<>> /\ VerifyTransfer(leaves, tx)}
      ordered == SetToSeq(live)   \* id order: a hash, so any order
  IN SubSeq(ordered, 1, Min({Len(ordered), MAX_BLOCK_TRANSFERS}))

EvictSpent(pool, spent) == {tx \in pool : ToSet(tx.nullifiers) \cap spent = {}}
===============================================================================
