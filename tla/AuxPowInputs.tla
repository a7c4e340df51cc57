----------------------------- MODULE AuxPowInputs -----------------------------
(***************************************************************************)
(* The inputs TLC tries the checks of AuxPow and the rules of Daa with, and *)
(* what they must decide: every state is one input.                        *)
(***************************************************************************)
EXTENDS AuxPow

VARIABLE input

Lwma == INSTANCE Daa WITH CEILING <- 64, DIGITS <- 3, TargetMs <- 2, Window <- 3, MinDifficulty <- 1

Mm(id) == [key |-> "mm", value |-> <<MM_COMMITMENT_VERSION, id>>]
Other == [key |-> "other", value |-> <<MM_COMMITMENT_VERSION, "a">>]
Fields == {Mm("a"), Mm("b"), Mm("c"), Other, [key |-> "mm", value |-> <<0, "a">>], [key |-> "mm", value |-> <<1>>]}

\* The extension tree of an Ergo candidate (external: ergo-crypto's merkle).
ParentOf(left, rest) ==
  IF rest = <<>> THEN InternalHashLeftOnly(left) ELSE InternalHashPair(left, Head(rest))

RECURSIVE TreeRoot(_)
TreeRoot(level) ==
  IF Len(level) = 1 THEN level[1]
  ELSE TreeRoot([i \in 1 .. (Len(level) + 1) \div 2 |->
                  ParentOf(level[2 * i - 1], SubSeq(level, 2 * i, Min({2 * i, Len(level)})))])

Leaves(fields) == [i \in DOMAIN fields |-> LeafDigest(fields[i])]

\* A single leaf is hashed alone into its root.
ExtensionRoot(fields) ==
  IF Len(fields) = 1 THEN InternalHashLeftOnly(LeafDigest(fields[1])) ELSE TreeRoot(Leaves(fields))

RECURSIVE Siblings(_, _)
Siblings(level, i) ==   \* i from 0
  IF Len(level) = 1 THEN <<>>
  ELSE LET up == [k \in 1 .. (Len(level) + 1) \div 2 |->
                   ParentOf(level[2 * k - 1], SubSeq(level, 2 * k, Min({2 * k, Len(level)})))]
           mine == IF i % 2 = 1 THEN [digest |-> level[i], side |-> "left"]
                   ELSE IF i + 1 < Len(level) THEN [digest |-> level[i + 2], side |-> "right"]
                   ELSE [digest |-> NoDigest, side |-> "right"]
       IN <<mine>> \o Siblings(up, i \div 2)

ProofOf(fields, i) ==
  [indices |-> <<<<i - 1, LeafDigest(fields[i])>>>>,
   proofs |-> IF Len(fields) = 1 THEN <<[digest |-> NoDigest, side |-> "right"]>>
              ELSE Siblings(Leaves(fields), i - 1)]

-----------------------------------------------------------------------------
Candidates == {<<Mm("a")>>, <<Other, Mm("a"), Mm("b")>>, <<Mm("b"), Other>>}

HeaderOf(fields, parent_id) ==
  [solution |-> "v2", height |-> 1, extension_root |-> ExtensionRoot(fields), parent_id |-> parent_id,
   nonce |-> 1]

Header(fields) == HeaderOf(fields, <<>>)

Found == {[msg |-> PowMessage(Header(c)), nonce |-> 1, clears |-> 2] : c \in Candidates}

Presented ==
  {Header(c) : c \in Candidates}
    \cup {[Header(c) EXCEPT !.solution = "v1"] : c \in Candidates}
    \cup {[Header(c) EXCEPT !.height = 2] : c \in Candidates}

Proofs ==
  UNION {{ProofOf(c, i) : i \in DOMAIN c} : c \in Candidates}
    \cup {[indices |-> <<>>, proofs |-> <<>>],
          [indices |-> <<<<0, LeafDigest(Mm("b"))>>, <<1, LeafDigest(Other)>>>>, proofs |-> <<>>]}

Witnesses == [header : Presented, field : Fields, proof : Proofs]

Blocks(nbits) == {[id |-> id, sc_nbits |-> n] : id \in {"a", "b", "c"}, n \in nbits}

SuffixInputs ==
  {[kind |-> "suffix", blocks |-> <<b>>, shares |-> <<w>>] : b \in Blocks({1, 2, 3}), w \in Witnesses}
    \cup {[kind |-> "suffix", blocks |-> <<[id |-> "a", sc_nbits |-> 2], [id |-> "b", sc_nbits |-> 1]>>,
           shares |-> <<v, w>>] :
            v \in {x \in Witnesses : VerifyShare(Found, x, "a", 2)},
            w \in {x \in Witnesses : VerifyShare(Found, x, "b", 1)}}

HonestShare(fields, i) == [header |-> Header(fields), field |-> fields[i], proof |-> ProofOf(fields, i)]

\* The dev producer's share: a candidate that carries the block's commitment and
\* nothing else, whose nonce clears the target of the block.
SyntheticDevErgoHeader(id) == Header(<<Mm(id)>>)

GrindDevWitness(id) ==
  [header |-> SyntheticDevErgoHeader(id), field |-> Mm(id), proof |-> ProofOf(<<Mm(id)>>, 1)]

LegacyContext == [follower_tip_height |-> 1, k_lag |-> 1, expected_nbits |-> 2]

\* The guest, the hash-native node or the legacy node takes the shares.
Taken(blocks, shares) ==
  \/ VerifySuffixShares(Found, blocks, shares)
  \/ /\ Len(blocks) = 1
     /\ \/ HnVerify(Found, shares[1], blocks[1])
        \/ VerifyLegacyShare(Found, shares[1], blocks[1], LegacyContext)

\* An accepted suffix of blocks rests on as many solves that miners found, each of a
\* candidate that carries the block's own id and hard enough for it; and the share of
\* an honest miner is accepted, the dev producer's by the node that made it
\* (share.rs:171-213, auxpow.rs:182-286, node.rs:659-672).
WorkIsReal ==
  /\ (input.kind = "suffix" /\ Taken(input.blocks, input.shares)) =>
       \E solve \in [DOMAIN input.blocks -> Candidates] :
         /\ IsInjective(solve)
         /\ \A i \in DOMAIN input.blocks :
              /\ PowMessage(Header(solve[i])) = PowMessage(input.shares[i].header)
              /\ Mm(input.blocks[i].id) \in ToSet(solve[i])
              /\ \E hit \in Found : hit.msg = PowMessage(Header(solve[i]))
                                     /\ hit.clears >= input.blocks[i].sc_nbits
  /\ \A c \in Candidates : \A i \in DOMAIN c :
       c[i] # Other => VerifyShare(Found, HonestShare(c, i), c[i].value[2], 2)
  /\ VerifyLegacyShare(Found, GrindDevWitness("a"), [id |-> "a", sc_nbits |-> 2], LegacyContext)

-----------------------------------------------------------------------------
ThreeLeaves == <<Other, Mm("a"), Mm("b")>>
Outside == [key |-> "mm", value |-> <<0, "a">>]

Digests ==
  {LeafDigest(f) : f \in {Other, Mm("a"), Mm("b"), Outside}}
    \cup {NoDigest, InternalHashPair(LeafDigest(Other), LeafDigest(Mm("a"))),
          InternalHashLeftOnly(LeafDigest(Mm("b")))}

Entries == [digest : Digests, side : {"left", "right"}]

Claims == {<<i, LeafDigest(f)>> : i \in 0..3, f \in {Other, Mm("a"), Mm("b"), Outside}}

BatchProofs ==
  {[kind |-> "merkle", indices |-> indices, proofs |-> proofs] :
     indices \in {<<c>> : c \in Claims} \cup {<<c, d>> : c, d \in Claims},
     proofs \in SeqOf(Entries, 2)}

\* A batch proof that verifies names leaves of the tree only, whatever its entries;
\* the proofs the tree gives of its leaves verify (batch_merkle.rs:31-128).
ProvenIsLeaf ==
  /\ (input.kind = "merkle" /\ VerifyBatchMerkleProof(input, ExtensionRoot(ThreeLeaves))) =>
         \A i \in DOMAIN input.indices : input.indices[i][2] \in ToSet(Leaves(ThreeLeaves))
  /\ \A i \in DOMAIN ThreeLeaves :
       VerifyBatchMerkleProof(ProofOf(ThreeLeaves, i), ExtensionRoot(ThreeLeaves))

-----------------------------------------------------------------------------
E1 == HeaderOf(<<Mm("a")>>, <<>>)
E2 == HeaderOf(<<Mm("a")>>, ErgoHeaderId(E1))
E3 == HeaderOf(<<Other, Mm("a"), Mm("b")>>, ErgoHeaderId(E2))
Fork == HeaderOf(<<Mm("b"), Other>>, ErgoHeaderId(E2))
E4 == HeaderOf(<<Mm("b"), Other>>, ErgoHeaderId(E3))

CanonicalFields == <<<<Mm("a")>>, <<Mm("a")>>, <<Other, Mm("a"), Mm("b")>>, <<Mm("b"), Other>>>>

Anchors ==
  [kind : {"anchor"}, headers : SeqOf({E1, E2, E3, E4, Fork}, 4), field : Fields \ {Other},
   proof : UNION {{ProofOf(c, i) : i \in DOMAIN c} : c \in Candidates}, id : {"a", "b"}]

\* What an accepted anchor names was committed by a header of the canonical chain that
\* at least A_MIN others bury (anchor.rs:83-170).
AnchorBuried ==
  (/\ input.kind = "anchor"
   /\ VerifyAnchorMinDepth(input.headers, input.field, input.proof, ErgoHeaderId(E4), input.id)) =>
      \E h \in 1 .. 4 - A_MIN : Mm(input.id) \in ToSet(CanonicalFields[h])

-----------------------------------------------------------------------------
Byte == 0 .. MAX_VALUE

\* Every text of bytes the codec takes is the one encoding of what it reads, and what it
\* encodes it reads back (auxpow.rs:326-373, hn/auxpow.rs:104-149).
CodecExact ==
  input.kind = "bytes" =>
    LET read == FromBytes(input.bytes) IN
    /\ read # <<>> => Encodable(read[1]) /\ Bytes(read[1]) = input.bytes
    /\ \A part \in {<<>>, <<0>>, <<1, 2>>} :
         LET w == [header |-> 0, key |-> 1, value |-> part, proof |-> input.bytes, block |-> part] IN
         Len(input.bytes) <= MAX_VALUE => FromBytes(Bytes(w)) = <<w>>

-----------------------------------------------------------------------------
T == 2

\* A chain of four blocks by its solve times and difficulties.
ChainOf(solves, nbits) ==
  LET at[i \in 1..4] == IF i = 1 THEN 20 ELSE at[i - 1] + solves[i - 1]
  IN [i \in 1..4 |-> [ts |-> at[i], nbits |-> nbits[i]]]

DaaInputs ==
  [kind : {"daa"}, solves : [1..3 -> {-3, 1, T, 6 * T, 40}], nbits : [1..4 -> {1, 8, 40}]]

\* A chain on its target keeps its difficulty; a slower block never raises the next
\* difficulty; and no clock, however far ahead or back, moves it more than one solve
\* of six targets, or one of a millisecond, does (daa.rs:1-14, 54-103).
DifficultyIsSteady ==
  input.kind = "daa" =>
    LET next(solves) == Lwma!NextNbits(ChainOf(solves, input.nbits)) IN
    /\ (input.nbits[1] * input.nbits[1] <= 64 /\ input.nbits = [i \in 1..4 |-> input.nbits[1]]) =>
         next([i \in 1..3 |-> T]) = input.nbits[1]
    /\ \A i \in 1..3 :
         /\ next([input.solves EXCEPT ![i] = @ + 1]) <= next(input.solves)
         /\ next([input.solves EXCEPT ![i] = 1000]) = next([input.solves EXCEPT ![i] = 6 * T])
         /\ next([input.solves EXCEPT ![i] = -1000]) = next([input.solves EXCEPT ![i] = 1])

InputInit ==
  \/ input \in DaaInputs
  \/ input \in SuffixInputs
  \/ input \in BatchProofs
  \/ input \in Anchors
  \/ \E bytes \in SeqOf(Byte, 7) : input = [kind |-> "bytes", bytes |-> bytes]
================================================================================
