-------------------------------- MODULE PegIn ----------------------------------
(***************************************************************************)
(* The legacy peg, both ends of it.  The Ergo chain carries locks, merges  *)
(* into the vault, refunds, posted burns and payouts that the contracts of *)
(* PegContracts accept, and may lose its last blocks to a heavier branch.  *)
(* A sidechain node follows it header by header (ergo_follow.rs), takes    *)
(* from a proof-of-work proof the part of the followed chain that is       *)
(* settled (pegmint.rs) and mints against receipts whose lock and          *)
(* consolidation lie in that part (pegmint_steps.rs, state.rs).            *)
(*                                                                         *)
(* External to the code: NiPoPoW validity (a proof is a chain the network  *)
(* mined, of which it shows a sample of headers), box ids, Merkle proofs   *)
(* (a transaction is in the block that holds it) and the Ergo rules.       *)
(***************************************************************************)
EXTENDS PegContracts

CONSTANTS
    Wallets,        \* the USE of each box the depositor starts with
    LockShapes,     \* shapes of a lock: "plain", "fee", "split"
    Dests,          \* what R4 of a receipt may hold
    Timeouts,       \* R8 of a receipt, above the height of its lock
    V0,             \* the USE in the vault at deployment
    Burned,         \* burn id -> the USE burned on the sidechain
    RootHeight,     \* where the follower's chain starts
    Samples,        \* heights a proof may show besides its first and last
    MaxReorg,       \* the deepest loss of Ergo blocks
    FollowerLag,    \* how far a follower on a lost branch may trail the tip
    MaxHeight, MaxTxs, MaxForks, MaxMints   \* bounds of the model

ASSUME PegInAssumption ==
    /\ {V0, RootHeight, MaxReorg, FollowerLag,
        MaxHeight, MaxTxs, MaxForks, MaxMints} \subseteq Nat
    /\ Wallets \in Seq(Nat) /\ LockShapes \subseteq {"plain", "fee", "split"}
    /\ Burned \in [DOMAIN Burned -> Nat]

VARIABLES
    ergo,       \* the best Ergo chain: blocks [id, tx], id = <<height, fork>>
    stale,      \* the chain the last reorganisation replaced
    followed,   \* Follower: the best chain of the headers ingested so far
    anchor,     \* PegConfig.anchor.settled_view of the sidechain node
    minted,     \* the peg-mint leaves of the sidechain, in order
    peg_used,   \* receipt box ids minted against
    pot,        \* peg fees credited to the emission pot
    undo        \* BlockUndo of each sidechain block that minted

ergoVars == <<ergo, stale>>
mintVars == <<minted, peg_used, pot, undo>>
vars == <<ergoVars, followed, anchor, mintVars>>

-----------------------------------------------------------------------------
(* Ergo: boxes, transactions, chain *)

Use(n) == [id |-> "USE", amount |-> n]
One(t) == [id |-> t, amount |-> 1]

Wallet(n)    == [script |-> "depositor", tokens |-> <<Use(n)>>]
Vault(n)     == [script |-> "PegVault", tokens |-> <<One("VaultNFT"), Use(n)>>]
FeePotBox(n) == [script |-> "FeePot", tokens |-> <<Use(n)>>]
Receipt(n, dest, timeout) ==
  [script |-> "DepositReceipt", tokens |-> <<Use(n)>>, R4 |-> dest, R8 |-> timeout]
Intent(b)    == [script |-> "UnlockIntent", tokens |-> <<>>,
                 R4 |-> b, R5 |-> Burned[b], R6 |-> "claimant"]
Redeemed(s, b) == [script |-> "DoubleRedeem", tokens |-> <<One("DoubleRedeemNFT")>>,
                   R4 |-> s, R5 |-> b]
StateBox(h, burns, at) ==
  [script |-> "SideChainState", tokens |-> <<One("StateNFT")>>,
   R4 |-> h, R6 |-> burns, R7 |-> at]

Tx(inputs, data, outputs) ==
  [inputs |-> inputs, data |-> data, outputs |-> outputs, signers |-> {}]
Spend(inputs, outputs) == Tx(inputs, <<>>, outputs)
Signed(tx) == [tx EXCEPT !.signers = {"depositor"}]
NoTx == Tx(<<>>, <<>>, <<>>)

GenesisBlock ==
  [id |-> <<1, 0>>,
   tx |-> Tx(<<>>, <<>>,
             <<Vault(V0), Redeemed({}, "none"), StateBox(0, <<>>, 0)>>
                \o [i \in DOMAIN Wallets |-> Wallet(Wallets[i])])]

(* box_id: a box is named by its block's transaction and its index. *)
BoxId(block, i) == Append(block.id, i)
Box(block, i) ==
  LET out == block.tx.outputs[i]
  IN  [r \in DOMAIN out \union {"id", "creation"} |->
         CASE r = "id"       -> BoxId(block, i)
           [] r = "creation" -> block.id[1]
           [] OTHER          -> out[r]]

(* The unspent boxes of a chain, by id. *)
Utxo(chain) ==
  LET made  == UNION {{<<h, i>> : i \in DOMAIN chain[h].tx.outputs} :
                       h \in DOMAIN chain}
      spent == UNION {ToSet(chain[h].tx.inputs) : h \in DOMAIN chain}
      free  == {p \in made : BoxId(chain[p[1]], p[2]) \notin spent}
  IN  [id \in {BoxId(chain[p[1]], p[2]) : p \in free} |-> Box(chain[id[1]], id[3])]

WithScript(u, script) == {id \in DOMAIN u : u[id].script = script}
Only(u, script) == CHOOSE id \in WithScript(u, script) : TRUE

Accepted(u, tx, height) ==
  ErgoAccepts([inputs  |-> [i \in DOMAIN tx.inputs |-> u[tx.inputs[i]]],
               data    |-> [i \in DOMAIN tx.data |-> u[tx.data[i]]],
               outputs |-> tx.outputs,
               signers |-> tx.signers], height)

(* What its owner may do with a wallet box: lock it, in one receipt or two. *)
LockOuts(shape, n, dest, timeout) ==
  LET r(a) == Receipt(a, dest, timeout)
  IN  CASE shape = "plain" -> <<r(n)>>
        [] shape = "fee"   -> <<r(n - 1), FeePotBox(1)>>
        [] shape = "split" -> <<r(1), r(n - 2), FeePotBox(1)>>

Locks(u, height) ==
  {Signed(Spend(<<w>>, LockOuts(shape, u[w].tokens[1].amount, dest, height + t))) :
     w \in WithScript(u, "depositor"), shape \in LockShapes, dest \in Dests, t \in Timeouts}

(* Anyone's unsigned merge of locked boxes, the vault taking all or less than all. *)
Absorbable(u) == WithScript(u, "DepositReceipt") \union WithScript(u, "FeePot")
Merges(u) ==
  LET v      == Only(u, "PegVault")
      sum(s) == u[v].tokens[2].amount + SumFunction([id \in s |-> UseOf(u[id])])
      some   == (SUBSET Absorbable(u)) \ {{}}
  IN  {Spend(<<v>> \o SetToSeq(s), <<Vault(sum(s))>>) : s \in some}
        \union {Spend(<<v>> \o SetToSeq(s), <<Vault(sum(s) - 1), Wallet(1)>>) : s \in some}

Refunds(u) == {Signed(Spend(<<r>>, <<Wallet(UseOf(u[r]))>>)) :
                 r \in WithScript(u, "DepositReceipt")}

(* A burn is posted, claimed by an intent and paid. *)
Posts(u, height) ==
  LET s == Only(u, "SideChainState")
  IN  {Spend(<<s>>, <<StateBox(u[s].R4 + 1, u[s].R6 @@ (b :> Burned[b]), height)>>) :
         b \in DOMAIN Burned \ DOMAIN u[s].R6}
Intents(u) == {Spend(<<>>, <<Intent(b)>>) :
                 b \in {c \in DOMAIN Burned :
                          \A id \in WithScript(u, "UnlockIntent") : u[id].R4 # c}}
Payouts(u) ==
  LET v == Only(u, "PegVault")
      d == Only(u, "DoubleRedeem")
  IN  {LET b == u[i].R4
       IN  Tx(<<v, i, d>>, <<Only(u, "SideChainState")>>,
              <<Vault(u[v].tokens[2].amount - n), Redeemed(u[d].R4 \union {b}, b),
                [script |-> "claimant", tokens |-> <<Use(n)>>]>>) :
         i \in WithScript(u, "UnlockIntent"),
         n \in {Burned[b] - VaultFee(Burned[b]) : b \in DOMAIN Burned}}

\* Ergo's rule for an output: every token in it is there.
Holds(out) == \A k \in DOMAIN out.tokens : out.tokens[k].amount > 0

Txs(u, height) ==
  {tx \in Locks(u, height) \union Merges(u) \union Refunds(u)
            \union Posts(u, height) \union Intents(u) \union Payouts(u) :
      (\A i \in DOMAIN tx.outputs : Holds(tx.outputs[i])) /\ Accepted(u, tx, height)}

TxCount(chain) == Cardinality({h \in DOMAIN chain : chain[h].tx # NoTx}) - 1
Fork == IF stale = <<>> THEN 0 ELSE Last(stale).id[2] + 1

(* A node may be any way behind on the best chain, as one that catches up  *)
(* from genesis is; one that holds a lost branch polls within FollowerLag. *)
OnBestChain(chain) == followed = SubSeq(chain, 1, Len(followed))
WithinLag(chain) == OnBestChain(chain) \/ Len(followed) + FollowerLag >= Len(chain)

(* The network mines a block on the best chain. *)
MineErgo ==
  \E tx \in {NoTx} \union (IF TxCount(ergo) < MaxTxs THEN Txs(Utxo(ergo), Len(ergo) + 1)
                                                     ELSE {}) :
    /\ Len(ergo) < MaxHeight
    /\ ergo' = Append(ergo, [id |-> <<Len(ergo) + 1, Fork>>, tx |-> tx])
    /\ WithinLag(ergo')
    /\ UNCHANGED <<stale, followed, anchor, mintVars>>

(* A branch one block heavier replaces the last d blocks; its first block *)
(* may carry another transaction. *)
ReorgErgo ==
  \E d \in 1 .. MaxReorg :
    LET kept == SubSeq(ergo, 1, Len(ergo) - d)
        fork == Last(ergo).id[2] + 1
        new(h, tx) == [id |-> <<h, fork>>, tx |-> tx]
    IN  /\ Len(ergo) > d /\ Len(ergo) < MaxHeight /\ fork <= MaxForks
        /\ \E tx \in {NoTx} \union (IF TxCount(kept) < MaxTxs
                                    THEN Txs(Utxo(kept), Len(kept) + 1) ELSE {}) :
              ergo' = kept \o [i \in 1 .. d + 1 |->
                                 new(Len(kept) + i, IF i = 1 THEN tx ELSE NoTx)]
        /\ stale' = ergo /\ WithinLag(ergo')
        /\ UNCHANGED <<followed, anchor, mintVars>>

-----------------------------------------------------------------------------
(* The sidechain node: follower, settled view, peg-mints *)

(* Follower::apply_header: the tip moves to a header only when its branch *)
(* has strictly more work than the followed one. *)
Follow ==
  /\ Len(followed) < Len(ergo)
  /\ followed' = SubSeq(ergo, 1, Len(followed) + 1)
  /\ UNCHANGED <<ergoVars, anchor, mintVars>>

(* SettledView::height_of, as membership of a block at its own height. *)
Settled(view, block) ==
  LET h == block.id[1]
  IN  h \in RootHeight .. Len(view) /\ view[h].id = block.id

(* check_comparative_objectivity over the headers a proof shows. *)
Comparable(view, headers) ==
  LET above == {b \in headers : b.id[1] >= RootHeight}
  IN  above # {} /\ \A b \in above : Settled(view, b)

(* The height that a proof of `chain` settles, and the follower's view up to *)
(* there. *)
HRef(chain) == Len(chain) - N_MINT
CaughtUpAnyway(follower, chain) == follower # <<>>
CaughtUp(follower, chain) == Len(follower) >= HRef(chain)
ViewAt(follower, chain) == SubSeq(follower, 1, Min({HRef(chain), Len(follower)}))
AnchoredDepth(chain) == Len(chain) - 1 >= N_MINT

(* The verdict on the settled part of a proof that shows heights `shown` of *)
(* `chain`: "defer" is NotCaughtUp, every error of another kind a rejection. *)
ComparativePolicy(follower, chain, shown) ==
  CASE ~CaughtUp(follower, chain) -> "defer"
    [] CaughtUp(follower, chain) ->
         IF Comparable(ViewAt(follower, chain),
                       {chain[h] : h \in {s \in shown : s <= HRef(chain)}})
         THEN "accept" ELSE "reject"

(* Steps 1 to 4 of a peg-mint: depth before anything the follower knows. *)
VerifyErgoChainComparative(chain, shown, follower) ==
  IF AnchoredDepth(chain) THEN ComparativePolicy(follower, chain, shown) ELSE "reject"

(* The block of an inclusion is in the settled view; that its transaction is *)
(* in the block, which the proof shows from the header, is so here. *)
CheckInclusion(block, view) == Settled(view, block)

(* receipt_steps 6 to 8. *)
ReceiptSteps(proof, used) ==
  LET receipt == proof.lock.tx.outputs[proof.out]
      cons    == proof.cons.tx
  IN  /\ cons.inputs[proof.inp] = BoxId(proof.lock, proof.out)
      /\ Carries(cons.outputs[1], 1, "VaultNFT")
      /\ receipt.script = "DepositReceipt"
      /\ Carries(receipt, 1, "USE") /\ receipt.tokens[1].amount > 0
      /\ receipt.R4 \in {"point", "garbage33"}
      /\ BoxId(proof.lock, proof.out) \notin used

VerifyUnsettled(proof, view, used) ==
  /\ CheckInclusion(proof.lock, view)
  /\ ReceiptSteps(proof, used)

VerifyPegmint(proof, view, used) ==
  /\ CheckInclusion(proof.lock, view) /\ CheckInclusion(proof.cons, view)
  /\ ReceiptSteps(proof, used)

(* The whole verifier: the receipt is looked at once the chain is accepted. *)
VerifyPegmintFull(chain, shown, proof, follower, used) ==
  LET verdict == VerifyErgoChainComparative(chain, shown, follower)
  IN  IF verdict = "accept" /\ ~VerifyPegmint(proof, ViewAt(follower, chain), used)
      THEN "reject" ELSE verdict

(* PegParams::peg_fee, and the credit of one mint. *)
PegFee(n) == LET bps == (n * FEE_BPS) \div 10000
             IN  IF bps > FEE_FLOOR THEN bps ELSE FEE_FLOOR

PotCredit(proof) ==
  LET outs == proof.lock.tx.outputs
      pots == {i \in DOMAIN outs : outs[i].script = "FeePot"}
      paid == SumFunction([i \in pots |-> UseOf(outs[i])])
      due  == PegFee(UseOf(outs[proof.out]))
  IN  IF paid < due THEN paid ELSE due

(* What consensus applies for an accepted proof. *)
Effect(proof) ==
  [box_id |-> BoxId(proof.lock, proof.out),
   note_value |-> proof.lock.tx.outputs[proof.out].tokens[1].amount,
   sc_dest |-> proof.lock.tx.outputs[proof.out].R4,
   pot_credit |-> PotCredit(proof)]

(* Every claim about two blocks of a chain that names an output and an input. *)
Claims(chain) ==
  UNION {{[lock |-> chain[l], out |-> o, cons |-> chain[c], inp |-> i] :
            o \in DOMAIN chain[l].tx.outputs, i \in DOMAIN chain[c].tx.inputs} :
         l \in DOMAIN chain, c \in DOMAIN chain}

(* set_peg_config: the node resolves the anchor once and holds it. *)
SetPegConfig(chain, shown) ==
  /\ VerifyErgoChainComparative(chain, shown, followed) = "accept"
  /\ anchor' = ViewAt(followed, chain)
  /\ UNCHANGED <<ergoVars, followed, mintVars>>

(* apply_block, its peg-mints: each is verified against the used set with *)
(* the block's own additions, one failure rejects the block. *)
Verified(proofs, used) ==
  \A i \in DOMAIN proofs :
    /\ VerifyPegmint(proofs[i], anchor,
                     used \union {Effect(proofs[j]).box_id : j \in 1 .. i - 1})
    /\ Effect(proofs[i]).sc_dest = "point"

ApplyBlock(proofs) ==
  LET effects == [i \in DOMAIN proofs |-> Effect(proofs[i])]
      ids     == {effects[i].box_id : i \in DOMAIN effects}
  IN  /\ Len(minted) + Len(proofs) <= MaxMints
      /\ Verified(proofs, peg_used)
      /\ minted' = minted \o effects
      /\ peg_used' = peg_used \union ids
      /\ pot' = pot + SumFunction([i \in DOMAIN effects |-> effects[i].pot_credit])
      /\ undo' = Append(undo, [added_box_ids |-> ids, prev_pot |-> pot,
                               prev_leaf_count |-> Len(minted)])
      /\ UNCHANGED <<ergoVars, followed, anchor>>

(* rollback of the newest block that minted. *)
RollbackBlock ==
  /\ undo # <<>>
  /\ peg_used' = peg_used \ Last(undo).added_box_ids
  /\ pot' = Last(undo).prev_pot
  /\ minted' = SubSeq(minted, 1, Last(undo).prev_leaf_count)
  /\ undo' = Front(undo)
  /\ UNCHANGED <<ergoVars, followed, anchor>>

-----------------------------------------------------------------------------
Init ==
  /\ ergo = <<GenesisBlock>> /\ stale = <<>>
  /\ followed = <<GenesisBlock>> /\ anchor = <<>>
  /\ minted = <<>> /\ peg_used = {} /\ pot = 0 /\ undo = <<>>

Shown(chain) == {{1, Len(chain)} \union s : s \in Samples}

Next ==
  \/ MineErgo
  \/ ReorgErgo
  \/ Follow
  \/ \E chain \in {ergo, stale} \ {<<>>} : \E shown \in Shown(chain) :
        SetPegConfig(chain, shown \intersect DOMAIN chain)
  \/ \E chain \in {ergo, stale, followed} :
       \/ \E p \in Claims(chain) : ApplyBlock(<<p>>)
       \/ \E p, q \in {c \in Claims(chain) : VerifyPegmint(c, anchor, peg_used)} :
             ApplyBlock(<<p, q>>)
  \/ RollbackBlock

Spec == Init /\ [][Next]_vars

-----------------------------------------------------------------------------
(* Properties *)

(* The transactions of a chain that spend the vault. *)
VaultTxs(chain) == {h \in DOMAIN chain : chain[h].tx.inputs # <<>>
                                          /\ Carries(chain[h].tx.outputs[1], 1, "VaultNFT")}

(* The receipts and fee pots that such transactions of a chain spend. *)
AbsorbedIds(chain) ==
  {id \in UNION {ToSet(chain[h].tx.inputs) : h \in VaultTxs(chain)} :
     chain[id[1]].tx.outputs[id[3]].script \in {"DepositReceipt", "FeePot"}}
AmountOf(chain, id) == UseOf(chain[id[1]].tx.outputs[id[3]])

(* I1 and I2: no receipt is minted twice, and each minted receipt is one the *)
(* vault absorbed on the Ergo chain as it stands now, for the amount minted: *)
(* neither a refund nor a merge that a reorganisation took back. *)
MintedIsAbsorbed ==
  /\ \A i, j \in DOMAIN minted : minted[i].box_id = minted[j].box_id => i = j
  /\ \A i \in DOMAIN minted :
       /\ minted[i].box_id \in AbsorbedIds(ergo)
       /\ AmountOf(ergo, minted[i].box_id) = minted[i].note_value

(* The claim of one proof, and the answer of a node that follows all of Ergo. *)
HonestClaims(chain) ==
  {p \in Claims(chain) : p.out \in DOMAIN p.lock.tx.outputs /\ ReceiptSteps(p, {})}

(* Once a node does not defer a proof of the best chain, its answer is the *)
(* one of every node that has followed more (pegmint.rs: the verdict is *)
(* time-invariant, NotCaughtUp the only answer that may change). *)
VerdictAgrees ==
  \A shown \in Shown(ergo) : \A p \in HonestClaims(ergo) :
    LET answer(f) == VerifyPegmintFull(ergo, shown \intersect DOMAIN ergo, p, f, {})
    IN  answer(followed) \in {"defer", answer(ergo)}

(* The vault holds what it started with, everything it ever absorbed and *)
(* nothing else, less one payout for each redeemed burn. *)
VaultLedger(chain) ==
  LET u == Utxo(chain)
      absorbed == AbsorbedIds(chain)
  IN  u[Only(u, "PegVault")].tokens[2].amount
        = V0 + SumFunction([id \in absorbed |-> AmountOf(chain, id)])
             - SumFunction([b \in u[Only(u, "DoubleRedeem")].R4 |->
                              Burned[b] - VaultFee(Burned[b])])

(* A receipt the vault has absorbed can be minted once it is settled: the *)
(* depositor has no refund any more (DepositReceipt.es). *)
ConsolidatedIsMintable(chain) ==
  \A id \in {i \in AbsorbedIds(chain) :
               chain[i[1]].tx.outputs[i[3]].script = "DepositReceipt"} :
    \E p \in HonestClaims(chain) : /\ BoxId(p.lock, p.out) = id
                                   /\ Effect(p).sc_dest = "point"

(* What a deposit leaves on Ergo: value the vault accounts for, and receipts *)
(* that can only be minted. *)
VaultIsAccounted == VaultLedger(ergo) /\ ConsolidatedIsMintable(ergo)
================================================================================
