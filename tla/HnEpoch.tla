-------------------------------- MODULE HnEpoch --------------------------------
(***************************************************************************)
(* What the settlement proof says and what the vault accepts               *)
(* (engine/src/epoch, settlement/methods/guest-epoch, bridge-tools):       *)
(* verify_epoch over a suffix of hash-native blocks, the share, anchor and *)
(* peg-in backing checks of the guest, and the release predicate of the    *)
(* vault box, as operators.                                                *)
(*                                                                         *)
(* A header id is the header it hashes, parent id inside; a sparse Merkle  *)
(* root is the set of its keys; a journal is the record of its fields.     *)
(* Each loop of verify_epoch stops at the first failed check, so the       *)
(* verdict is the conjunction of the checks of every block, each against   *)
(* the header before it.                                                   *)
(***************************************************************************)
EXTENDS HnLedger

CONSTANTS
  PEGOUT_DELAY,
  A_MIN,                 \* depth of the tip's anchor below ergo_ref
  PEGIN_CONFIRMATIONS,   \* depth of a deposit below ergo_ref
  HEADERS,               \* length of CONTEXT.headers
  MAX_BATCH              \* withdrawals of one release

ASSUME EpochAssumption ==
  /\ {PEGOUT_DELAY, A_MIN, PEGIN_CONFIRMATIONS, MAX_BATCH} \subseteq Nat
  /\ HEADERS \in Nat \ {0}

\* Mutant: long enough for the anchor window only.
SeamLenRoots == ROOT_WINDOW

SEAM_LEN == Max({ROOT_WINDOW, DAA_WINDOW + 1})

GENESIS_HEADER_ID == <<>>

--------------------------------------------------------------------------------
(* Headers.  A header is a block without the Ergo header it is anchored to.   *)

Header(block) == [f \in DOMAIN block \ {"anchor"} |-> block[f]]

HeaderId(block) == <<Header(block)>>

\* The fields a node adds to the block it assembled.
Sealed(block, parent_id, st) ==
  block @@ [height |-> st.height, prev_header_id |-> parent_id,
            state_root |-> st.tree \o NewLeaves(st, block)]

--------------------------------------------------------------------------------
(* The seam: headers of settled blocks, newest first.  A witness is           *)
(* [tip_id_prev, seam, blocks].                                               *)

ReachesGenesis(seam) == Last(seam).prev_header_id = GENESIS_HEADER_ID

SeamHolds(w) ==
  /\ w.seam # <<>>
  /\ HeaderId(w.seam[1]) = w.tip_id_prev
  /\ \A i \in 1 .. Len(w.seam) - 1 :
       /\ w.seam[i].prev_header_id = HeaderId(w.seam[i + 1])
       /\ w.seam[i].height = w.seam[i + 1].height + 1
  /\ Len(w.seam) = SEAM_LEN \/ ReachesGenesis(w.seam)

LastN(s, n) == SubSeq(s, Max({1, Len(s) - n + 1}), Len(s))

SeamAnchorWindow(seam) ==
  LET roots == [i \in DOMAIN seam |-> Reverse(seam)[i].state_root]
  IN LastN((IF ReachesGenesis(seam) THEN << <<>> >> ELSE <<>>) \o roots, ROOT_WINDOW)

\* The header before block i: the sealed tip, then the suffix itself.
Parent(w, i) == IF i = 1 THEN w.seam[1] ELSE w.blocks[i - 1]

RootsAt(w, i) ==
  LastN(SeamAnchorWindow(w.seam)
          \o [j \in 1 .. i - 1 |-> w.blocks[j].state_root], ROOT_WINDOW)

\* next_nbits reads the last DAA_WINDOW + 1 entries.
DaaViewAt(w, i) ==
  LET headers == Reverse(w.seam) \o SubSeq(w.blocks, 1, i - 1)
      view == [j \in DOMAIN headers |-> <<headers[j].timestamp_ms, headers[j].sc_nbits>>]
  IN LastN(view, DAA_WINDOW + 1)

--------------------------------------------------------------------------------
(* verify_epoch *)

LinkHolds(w, i) ==
  LET block == w.blocks[i]
      parent == Parent(w, i)
  IN /\ block.coinbase_is_reward
     /\ block.prev_header_id = HeaderId(parent)
     /\ block.height = parent.height + 1
     /\ block.timestamp_ms >= parent.timestamp_ms
     /\ block.sc_nbits = NextNbits(DaaViewAt(w, i))
     /\ block.prev_root = parent.state_root

\* Mutant: the seen set is fresh for every block.
SpentBeforeInBlock(w, i, j) == SpentBy(SubSeq(Spends(w.blocks[i]), 1, j - 1))

\* All nullifiers of the suffix, in order, before spend j of block i.
SpentBefore(w, i, j) ==
  UNION {SpentBy(Spends(w.blocks[k])) : k \in 1 .. i - 1}
    \cup SpentBy(SubSeq(Spends(w.blocks[i]), 1, j - 1))

SpendsHold(w, i) ==
  \A j \in DOMAIN Spends(w.blocks[i]) :
    LET tx == Spends(w.blocks[i])[j]
    IN /\ tx.root \in ToSet(RootsAt(w, i))
       /\ Inputs[tx.spend] \cap SpentBefore(w, i, j) = {}
       /\ j > Len(w.blocks[i].txs) => Withdraw[tx.spend] > 0

PegInsHold(w, i) ==
  \A j \in DOMAIN w.blocks[i].pegins :
    LET d == w.blocks[i].pegins[j] IN DepositAmount[d] > PegFee(DepositAmount[d])

\* The value state a header commits to, as the ledger operators read it.
ValueOf(header) ==
  [pot |-> header.pot_after, shielded_total |-> header.shielded_after,
   tree |-> header.state_root, height |-> header.height + 1]

EconomicsHold(w, i) ==
  LET st == ValueOf(Parent(w, i))
      block == w.blocks[i]
  IN /\ block.coinbase_amount = ExpectedCoinbase(st, block)
     /\ block.pot_after = PotNext(st, block)
     /\ ShieldedNext(st, block) >= 0
     /\ block.shielded_after = ShieldedNext(st, block)
     /\ block.state_root = st.tree \o NewLeaves(st, block)

\* Mutant: one block too many.
MaturedLate(w) ==
  \A i \in DOMAIN w.blocks :
    w.blocks[i].pegouts # <<>> => Last(w.blocks).height > w.blocks[i].height + PEGOUT_DELAY

Matured(w) ==
  \A i \in DOMAIN w.blocks :
    w.blocks[i].pegouts # <<>> => Last(w.blocks).height >= w.blocks[i].height + PEGOUT_DELAY

AllSpends(w) == FlattenSeq([i \in DOMAIN w.blocks |-> Spends(w.blocks[i])])

VerifyEpoch(w) ==
  /\ w.blocks # <<>>
  /\ SeamHolds(w)
  /\ \A i \in DOMAIN w.blocks :
       /\ LinkHolds(w, i)
       /\ SpendsHold(w, i)
       /\ PegInsHold(w, i)
       /\ EconomicsHold(w, i)
  /\ Matured(w)
  /\ AllSpends(w) # <<>>

--------------------------------------------------------------------------------
(* The settled set R6: nullifiers and used deposits under separate domains.   *)

NullifierKey(n) == <<"nf", n>>
PeginUsedKey(d) == <<"pegin", d>>

SuffixPegins(w) == FlattenSeq([i \in DOMAIN w.blocks |-> w.blocks[i].pegins])

NullifierKeys(w) == {NullifierKey(n) : n \in SpentBy(AllSpends(w))}
PeginKeys(w) == {PeginUsedKey(d) : d \in ToSet(SuffixPegins(w))}

\* verify_insert for every nullifier of the suffix.
FreshNullifiers(w, settled) == NullifierKeys(w) \cap settled = {}

\* Every peg-in exhibits a deposit at least PEGIN_CONFIRMATIONS below ergo_ref,
\* each at most once, here or in an earlier settlement.
PegInsBacked(w, settled, ergo, ref) ==
  /\ \A i, j \in DOMAIN SuffixPegins(w) :
       SuffixPegins(w)[i] = SuffixPegins(w)[j] => i = j
  /\ PeginKeys(w) \cap settled = {}
  /\ \A d \in ToSet(SuffixPegins(w)) :
       \E h \in 1 .. ref - PEGIN_CONFIRMATIONS : d \in ergo[h].deposits

\* The last block is committed by an ancestor of ergo_ref at depth A_MIN or more.
AnchorLinked(w, ergo, ref) ==
  \E h \in 1 .. ref - A_MIN : ergo[h].hn = HeaderId(Last(w.blocks))

\* The aggregated root proof: its digest is that of the suffix's own spends, so
\* each of them is proven.
RootProofVerifies(w) ==
  \A i \in DOMAIN AllSpends(w) : CircuitVerifies(AllSpends(w)[i])

Withdrawals(w) ==
  FlattenSeq([i \in DOMAIN w.blocks |->
    [j \in DOMAIN w.blocks[i].pegouts |-> w.blocks[i].pegouts[j].spend]])

\* The guest: main.  ergo_ref and counter_next are settler inputs.
GuestAccepts(w, settled, ergo, ref) ==
  /\ RootProofVerifies(w)
  /\ VerifyEpoch(w)
  /\ FreshNullifiers(w, settled)
  /\ AnchorLinked(w, ergo, ref)
  /\ PegInsBacked(w, settled, ergo, ref)

Journal(w, settled, ref, counter) ==
  [prev_root |-> w.blocks[1].prev_root,
   new_root |-> Last(w.blocks).state_root,
   settled_in |-> settled,
   settled_out |-> settled \cup NullifierKeys(w) \cup PeginKeys(w),
   tip_id_prev |-> w.tip_id_prev,
   tip_id_new |-> HeaderId(Last(w.blocks)),
   ergo_ref |-> ref,
   counter_next |-> counter,
   withdrawals |-> Withdrawals(w)]

\* The vault box rebuilds the journal from its own registers, its successor's,
\* the oldest of CONTEXT.headers and the recipients.
VaultReleases(vault, journal, ergo) ==
  /\ journal.prev_root = vault.R4
  /\ journal.settled_in = vault.R6
  /\ journal.tip_id_prev = vault.R7
  /\ journal.ergo_ref = Max({1, Len(ergo) - HEADERS + 1})
  /\ Len(journal.withdrawals) \in 1 .. MAX_BATCH
  /\ journal.counter_next = vault.R5 + Len(journal.withdrawals)

\* The successor vault.
Successor(vault, journal) ==
  [R4 |-> journal.new_root,
   R5 |-> vault.R5 + Len(journal.withdrawals),
   R6 |-> journal.settled_out,
   R7 |-> journal.tip_id_new]

===============================================================================
