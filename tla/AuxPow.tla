-------------------------------- MODULE AuxPow --------------------------------
(***************************************************************************)
(* Auxiliary proof of work: a share ties a block to the work of an Ergo    *)
(* candidate through the candidate's extension section.  The same check    *)
(* exists three times (auxpow.rs for the legacy chain, hn/auxpow.rs for    *)
(* the hash-native chain, epoch/share.rs in the settlement guest); here    *)
(* with the batch Merkle proof it rests on, the anchor walk of epoch/      *)
(* anchor.rs, and the witness codec.  Hashes are terms; a header's nonce   *)
(* is a number, and `found` says which (message, nonce) clears what.       *)
(***************************************************************************)
EXTENDS Naturals, FiniteSetsExt, SequencesExt

CONSTANTS
  MM_COMMITMENT_VERSION,
  MAX_DIFFICULTY,     \* the largest whose target is not zero
  A_MIN,              \* Ergo blocks an anchor is buried under
  MAX_VALUE           \* the longest value one length byte can tell

-----------------------------------------------------------------------------
(* Batch Merkle proofs                                                     *)

LeafDigest(field) == <<"leaf", field.key, field.value>>

InternalHashPair(left, right) == <<"node", left, right>>
InternalHashLeftOnly(left) == <<"node", left>>

NoDigest == <<>>

\* An absent sibling leaves the digest alone on its side, whichever that is.
CombineWithProofEntry(entry, leaf) ==
  IF entry.digest = NoDigest THEN InternalHashLeftOnly(leaf)
  ELSE IF entry.side = "left" THEN InternalHashPair(entry.digest, leaf)
  ELSE InternalHashPair(leaf, entry.digest)

\* The pair of positions each index is in.
Pairs(a) == [i \in DOMAIN a |-> LET low == 2 * (a[i] \div 2) IN <<low, low + 1>>]

\* One level: neighbours that are both proven hash together, the others take the next
\* entry of the proof.  `out` is empty and `short` set when the entries run out.
RECURSIVE Level(_, _, _, _, _)
Level(b, e, m, i, out) ==
  IF i > Len(b) THEN [out |-> out, left |-> m, short |-> FALSE]
  ELSE IF i < Len(b) /\ b[i] = b[i + 1]
  THEN Level(b, e, m, i + 2, Append(out, InternalHashPair(e[i][2], e[i + 1][2])))
  ELSE IF m = <<>> THEN [out |-> <<>>, left |-> m, short |-> TRUE]
  ELSE Level(b, e, Tail(m), i + 1, Append(out, CombineWithProofEntry(Head(m), e[i][2])))

RECURSIVE LoopReduce(_, _, _)
LoopReduce(a, e, m) ==
  LET b == Pairs(a)
      level == Level(b, e, m, 1, <<>>)
      firsts == SelectSeq([i \in DOMAIN b |-> i], LAMBDA i : i = 1 \/ b[i] # b[i - 1])
      a_new == [k \in DOMAIN firsts |-> b[firsts[k]][1] \div 2]
      pairs == Min({Len(a_new), Len(level.out)})
  IN
  IF ~level.short /\ (level.left # <<>> \/ Len(level.out) > 1) /\ a_new # <<>>
  THEN LoopReduce(a_new, [k \in 1..pairs |-> <<a_new[k], level.out[k]>>], level.left)
  ELSE level.out

VerifyBatchMerkleProof(proof, expected_root) ==
  \/ proof.indices = <<>> /\ proof.proofs = <<>>
  \/ LET e == SortSeq(proof.indices, LAMBDA x, y : x[1] < y[1])
     IN LoopReduce([i \in DOMAIN e |-> e[i][1]], e, proof.proofs) = <<expected_root>>

-----------------------------------------------------------------------------
(* Shares                                                                  *)

\* What the nonce is searched for: the header without its solution.
PowMessage(header) ==
  [height |-> header.height, extension_root |-> header.extension_root, parent_id |-> header.parent_id]

CheckPow(found, header, sc_nbits) ==
  \E hit \in found :
    hit.msg = PowMessage(header) /\ hit.nonce = header.nonce /\ hit.clears >= sc_nbits

FieldIncluded(w) ==
  /\ Len(w.proof.indices) = 1
  /\ w.proof.indices[1][2] = LeafDigest(w.field)
  /\ VerifyBatchMerkleProof(w.proof, w.header.extension_root)

IsCommitment(field) ==
  field.key = "mm" /\ Len(field.value) = 2 /\ field.value[1] = MM_COMMITMENT_VERSION

VerifyShare(found, w, header_id, sc_nbits) ==
  /\ w.header.solution = "v2"
  /\ FieldIncluded(w)
  /\ IsCommitment(w.field)
  /\ w.field.value[2] = header_id
  /\ sc_nbits <= MAX_DIFFICULTY
  /\ CheckPow(found, w.header, sc_nbits)

HnVerify(found, w, block) == VerifyShare(found, w, block.id, block.sc_nbits)

\* The legacy node also wants the candidate near its own Ergo tip and the difficulty
\* its chain expects.
VerifyLegacyShare(found, w, block, ctx) ==
  /\ w.header.height + ctx.k_lag >= ctx.follower_tip_height
  /\ w.header.height <= ctx.follower_tip_height + 1
  /\ VerifyShare(found, w, block.id, block.sc_nbits)
  /\ block.sc_nbits = ctx.expected_nbits

\* Mutant: it is the fields that are compared.
DistinctFields(shares) == IsInjective([i \in DOMAIN shares |-> shares[i].field])

DistinctMessages(shares) ==
  IsInjective([i \in DOMAIN shares |-> PowMessage(shares[i].header)])

VerifySuffixShares(found, blocks, shares) ==
  /\ Len(blocks) = Len(shares)
  /\ \A i \in DOMAIN blocks : VerifyShare(found, shares[i], blocks[i].id, blocks[i].sc_nbits)
  /\ DistinctMessages(shares)

-----------------------------------------------------------------------------
(* Anchors                                                                 *)

ErgoHeaderId(header) == <<"id", header>>

VerifyAncestorWalk(headers, ergo_ref_id) ==
  /\ headers # <<>>
  /\ ErgoHeaderId(headers[1]) = ergo_ref_id
  /\ \A i \in 1 .. Len(headers) - 1 : headers[i].parent_id = ErgoHeaderId(headers[i + 1])

VerifyAnchorLinkage(headers, field, proof, ergo_ref_id, anchored_hn_id) ==
  /\ VerifyAncestorWalk(headers, ergo_ref_id)
  /\ IsCommitment(field)
  /\ FieldIncluded([header |-> Last(headers), field |-> field, proof |-> proof])
  /\ field.value[2] = anchored_hn_id

VerifyAnchorMinDepth(headers, field, proof, ergo_ref_id, anchored_hn_id) ==
  /\ VerifyAnchorLinkage(headers, field, proof, ergo_ref_id, anchored_hn_id)
  /\ Len(headers) - 1 >= A_MIN

-----------------------------------------------------------------------------
(* The witness codec: header, key, then three length-prefixed parts.  A    *)
(* header and a key are one byte each.                                     *)

Prefixed(part) == <<Len(part)>> \o part

\* A value longer than its length byte can tell is an error.
Encodable(w) == Len(w.value) <= MAX_VALUE

Bytes(w) == <<w.header, w.key>> \o Prefixed(w.value) \o Prefixed(w.proof) \o Prefixed(w.block)

\* Reads a length-prefixed part at position p; `next` is 0 when the bytes run out.
PartAt(bytes, p) ==
  IF p = 0 \/ p > Len(bytes) \/ p + bytes[p] > Len(bytes) THEN [part |-> <<>>, next |-> 0]
  ELSE [part |-> SubSeq(bytes, p + 1, p + bytes[p]), next |-> p + bytes[p] + 1]

AllRead(bytes, next) == next = Len(bytes) + 1

\* <<the witness>>, or nothing.
FromBytes(bytes) ==
  LET value == PartAt(bytes, IF Len(bytes) < 2 THEN 0 ELSE 3)
      proof == PartAt(bytes, value.next)
      block == PartAt(bytes, proof.next)
  IN IF AllRead(bytes, block.next)
     THEN <<[header |-> bytes[1], key |-> bytes[2], value |-> value.part,
             proof |-> proof.part, block |-> block.part]>>
     ELSE <<>>
================================================================================
