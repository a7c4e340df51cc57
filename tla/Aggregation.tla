------------------------------ MODULE Aggregation ------------------------------
(***************************************************************************)
(* Recursive aggregation (engine/recursion): client spend proofs are       *)
(* verified in circuit, one leaf each, and folded two by two into one root *)
(* proof whose aegis/digest table surfaces the root of a tree of leaf      *)
(* digests; the guest recomputes that root from the entries it journals    *)
(* (engine/src/settlement_digest.rs, engine/src/epoch/digest.rs).          *)
(*                                                                         *)
(* A digest is the tuple of what was hashed.  A recursive proof is a       *)
(* record: the hash its own commitments use, the digest it surfaces (none: *)
(* <<>>) and the client proofs it attests.  A client proof is the record   *)
(* of its public values.                                                   *)
(***************************************************************************)
EXTENDS Integers, Sequences, SequencesExt, FiniteSetsExt

--------------------------------------------------------------------------------
(* Native digests *)

CircuitSponge(inputs) == <<"sponge", inputs>>

RecipientCommit(recipient_prop) == <<"recipient", recipient_prop>>

LeafDigest(entry) ==
  CircuitSponge(<<entry.amount, RecipientCommit(entry.recipient_prop), entry.nf0, entry.cm0>>)

SpendLeafDigest(s) == CircuitSponge(<<s.root, s.nf0, s.nf1, s.cm0, s.cm1, s.fee>>)

IDENTITY_PREIMAGE == <<"aegis-settle-identity-v1">>

IdentityDigest == CircuitSponge(IDENTITY_PREIMAGE)

Fold2(left, right) == CircuitSponge(<<left, right>>)

Log2(n) == CHOOSE k \in 0 .. n : 2 ^ k = n

\* The least power of two from n.
NextPowerOfTwo(n) == 2 ^ (CHOOSE k \in 0 .. n : 2 ^ k >= n /\ \A j \in 0 .. k - 1 : 2 ^ j < n)

\* Mutant: padded with the last leaf, as the first pipeline does.
ResizeWithLast(leaves, filler) ==
  [i \in 1 .. NextPowerOfTwo(Len(leaves)) |->
     IF i <= Len(leaves) THEN leaves[i] ELSE Last(leaves)]

\* Pad with the filler to a power of two.
Resize(leaves, filler) ==
  [i \in 1 .. NextPowerOfTwo(Len(leaves)) |-> IF i <= Len(leaves) THEN leaves[i] ELSE filler]

\* What the nodes of the next level of a tree join.
Paired(level) == [i \in 1 .. Len(level) \div 2 |-> <<level[2 * i - 1], level[2 * i]>>]

FoldTree(leaves) ==
  LET level[k \in 0 .. Log2(Len(leaves))] ==
        IF k = 0 THEN leaves
        ELSE LET pairs == Paired(level[k - 1])
             IN  [i \in DOMAIN pairs |-> Fold2(pairs[i][1], pairs[i][2])]
  IN  level[Log2(Len(leaves))][1]

WithdrawalsRoot(entries) ==
  FoldTree(Resize([i \in DOMAIN entries |-> LeafDigest(entries[i])], IdentityDigest))

EpochSpendRoot(spends) ==
  FoldTree(Resize([i \in DOMAIN spends |-> SpendLeafDigest(spends[i])], IdentityDigest))

--------------------------------------------------------------------------------
(* Layers: what a prover that finishes has proved *)

ProveDigestCircuit(digest, attests) ==
  [config |-> "plain", digest |-> digest, attests |-> attests]

ProveDigestCircuitSha(digest, attests) ==
  [config |-> "sha", digest |-> digest, attests |-> attests]

ToyLeaf(seeds) == ProveDigestCircuit(CircuitSponge(seeds), <<>>)

IdentityLeaf == ToyLeaf(IDENTITY_PREIMAGE)

\* Layer 1 that surfaces nothing.
Layer1(client) == ProveDigestCircuit(<<>>, <<client>>)

\* Layer 1 over all public values of the client proof.
Layer1Digest(client) ==
  ProveDigestCircuit(CircuitSponge(<<client.root, client.nf0, client.nf1, client.cm0, client.cm1>>),
                     <<client>>)

\* The amount and recipient are declared, the nullifier and commitment proven.
Layer1Settlement(client, amount, recipient_prop) ==
  ProveDigestCircuit(
    CircuitSponge(<<amount, RecipientCommit(recipient_prop), client.nf0, client.cm0>>), <<client>>)

\* The fee is declared, the rest proven.
Layer1Epoch(client, fee) ==
  ProveDigestCircuit(
    CircuitSponge(<<client.root, client.nf0, client.nf1, client.cm0, client.cm1, fee>>), <<client>>)

\* The public values of a proof's aegis/digest entry.
DigestPublics(proof) == proof.digest

\* Both children are verified in circuit, their digests folded and surfaced.
BuildAggPair(left, right) ==
  [digest |-> Fold2(DigestPublics(left), DigestPublics(right)), attests |-> left.attests \o right.attests]

AggPairDigest(left, right) ==
  LET b == BuildAggPair(left, right) IN ProveDigestCircuit(b.digest, b.attests)

AggPairSettlementSha(left, right) ==
  LET b == BuildAggPair(left, right) IN ProveDigestCircuitSha(b.digest, b.attests)

AggregateTreeDigest(proofs) ==
  LET level[k \in 0 .. Log2(Len(proofs))] ==
        IF k = 0 THEN proofs
        ELSE LET pairs == Paired(level[k - 1])
             IN  [i \in DOMAIN pairs |-> AggPairDigest(pairs[i][1], pairs[i][2])]
  IN  level[Log2(Len(proofs))][1]

AggregateSettlement(leaves) == AggregateTreeDigest(Resize(leaves, IdentityLeaf))

\* The two proofs below the root are plain, the root is proved under SHA-256.
\* One leaf has no such node.
CanAggregateSha(leaves) == Len(leaves) >= 2

AggregateSettlementSha(leaves) ==
  LET padded == Resize(leaves, IdentityLeaf)
      half == Len(padded) \div 2
  IN  AggPairSettlementSha(AggregateTreeDigest(SubSeq(padded, 1, half)),
                           AggregateTreeDigest(SubSeq(padded, half + 1, Len(padded))))

\* The first pipeline: no digest, padded with the last proof.
AggregateTree(proofs) ==
  LET join(left, right) == ProveDigestCircuit(<<>>, left.attests \o right.attests)
      level[k \in 0 .. Log2(Len(proofs))] ==
        IF k = 0 THEN proofs
        ELSE LET pairs == Paired(level[k - 1])
             IN  [i \in DOMAIN pairs |-> join(pairs[i][1], pairs[i][2])]
  IN  level[Log2(Len(proofs))][1]

AggregateSpends(clients) ==
  AggregateTree(Resize([i \in DOMAIN clients |-> Layer1(clients[i])], Layer1(Last(clients))))

--------------------------------------------------------------------------------
(* Verification of a root proof: whether it verifies, and what it surfaces *)

VerifyRoot(root) == root.config = "plain"

VerifyRootProof(root) == [ok |-> VerifyRoot(root), digest |-> DigestPublics(root)]

VerifyRootProofSha(root) == [ok |-> root.config = "sha", digest |-> DigestPublics(root)]

================================================================================
