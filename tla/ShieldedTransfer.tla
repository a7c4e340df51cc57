---------------------------- MODULE ShieldedTransfer ----------------------------
(***************************************************************************)
(* The legacy spend path (aegis-crypto/src: spend.rs, mint.rs, payment.rs, *)
(* note_encryption.rs, tree.rs): the statement the 2-in/2-out circuit      *)
(* proves, address-binding notes, mints of a public value and the          *)
(* ciphertexts beside every output.  MmLedger takes this circuit as given. *)
(*                                                                         *)
(* Scalars are integers modulo P.  The generators are independent, so a    *)
(* point of the key curve is its coefficients [b, h], a note commitment is *)
(* what it opens to, and the tag (K + Delta).x is K itself.  Rerandomizing *)
(* adds to h.  The tree is the sequence of its leaves.  A proof is         *)
(* accepted when some assignment satisfies every constraint; a party can   *)
(* only assign scalars it knows.                                           *)
(***************************************************************************)
EXTENDS Integers, Sequences, FiniteSets, SequencesExt, FiniteSetsExt, Functions

CONSTANTS
  P,              \* order of the scalar fields, at least 2 * RANGE + SC_TX_FEE
  RANGE,          \* values of an output lie below this: 2^64
  CAPACITY,       \* TREE_L ^ TREE_DEPTH
  Party,
  Nk,             \* nullifier key of a party: injective, not 0
  Rho,            \* nonces
  Esk,            \* ephemeral secrets, not 0
  SC_TX_FEE,
  MintValues,     \* public values of mints, below RANGE
  MaxMints, MaxTransfers

Field == 0 .. P - 1
Add(x, y) == (x + y) % P

--------------------------------------------------------------------------------
(* Notes *)

KeyCommitment(nk, rho, r_key) == [b |-> Add(nk, rho), h |-> r_key]
Tag(k) == k
NoteCommitment(value, tag, blinding) == [value |-> value, tag |-> tag, blinding |-> blinding]

\* PaymentAddress: pk = nk B
Address(nk) == [b |-> nk, h |-> 0]

\* K = pk + rho B + r_key H, without knowing nk
SenderKeyCommitment(pk, rho, r_key) == [b |-> Add(pk.b, rho), h |-> Add(pk.h, r_key)]

Opening(value, blinding, rho, r_key) ==
  [value |-> value, blinding |-> blinding, rho |-> rho, r_key |-> r_key]

\* sender_build_note, output_to_address
BuildNote(pk, o) ==
  NoteCommitment(o.value, Tag(SenderKeyCommitment(pk, o.rho, o.r_key)), o.blinding)

\* The commitment recipient_note_opening leads the prover to.
Reopened(nk, o) == NoteCommitment(o.value, Tag(KeyCommitment(nk, o.rho, o.r_key)), o.blinding)

\* pegmint_note: everything derives from the deposit, and from its box id that rho stands for
PegmintNote(pk, value, rho) == BuildNote(pk, Opening(value, rho, rho, rho))

\* The consensus nullifier: injective in the one scalar the key commitment pins
Poseidon(x) == x

Push(ls, cm) == Append(ls, cm)

--------------------------------------------------------------------------------
(* The circuit.  w.in[i] = [leaf, value, tag, blinding, r_t, x, r], the last two   *)
(* opening C*; w.out[i] = [value, tag, blinding].                                  *)

\* select_and_rerandomize: the rerandomized leaf opens as [value, tag]
Member(ls, in) ==
  in.leaf \in DOMAIN ls /\ ls[in.leaf] = NoteCommitment(in.value, in.tag, in.blinding)

\* The tag slot is the key commitment that C* rerandomizes.
TagBound(in, key_cm) == key_cm = [b |-> in.tag.b, h |-> Add(in.tag.h, in.r_t)]

KeyOpened(in) == [b |-> in.x, h |-> in.r]
OpensKey(in, key_cm) == key_cm = KeyOpened(in)

NullifierBound(in, nf) == nf = Poseidon(in.x)

\* Mutant: the range proof is on the wrong side of the modulus.
FieldRange(out) == out.value \in Field

RangeProof(out) == out.value \in 0 .. RANGE - 1

Opens(cm, out) == cm = NoteCommitment(out.value, out.tag, out.blinding)

InputHolds(ls, in, key_cm, nf) ==
  Member(ls, in) /\ TagBound(in, key_cm) /\ OpensKey(in, key_cm) /\ NullifierBound(in, nf)

Balance(w, fee) ==
  (w.out[1].value + w.out[2].value - w.in[1].value - w.in[2].value + fee) % P = 0

\* verify_transfer: the even half, then the odd one
VerifyTransfer(ls, p, w, fee) ==
  /\ \A i \in 1 .. 2 : Opens(p.output_cms[i], w.out[i]) /\ RangeProof(w.out[i])
  /\ Balance(w, fee)
  /\ \A i \in 1 .. 2 : InputHolds(ls, w.in[i], p.key_cms[i], p.nfs[i])

\* prove_transfer, when the inputs' openings are those of their leaves
Prove(w) ==
  [output_cms |-> [i \in 1 .. 2 |-> NoteCommitment(w.out[i].value, w.out[i].tag, w.out[i].blinding)],
   key_cms |-> [i \in 1 .. 2 |-> KeyOpened(w.in[i])],
   nfs |-> [i \in 1 .. 2 |-> Poseidon(w.in[i].x)]]

\* The value slot of a mint is pinned to the public amount.
VerifyMint(value, cm) == cm.value = value

--------------------------------------------------------------------------------
(* Ciphertexts *)

Times(pk, k) == [b |-> (pk.b * k) % P, h |-> (pk.h * k) % P]

ContentKey(shared, epk) == [shared |-> shared, epk |-> epk]
OvkKey(ovk, cm, epk) == [ovk |-> ovk, cm |-> cm, epk |-> epk]

\* ChaCha20Poly1305: opens under its key and its associated data only
Seal(key, aad, msg) == [key |-> key, aad |-> aad, msg |-> msg]
Unseal(key, aad, ct) == IF ct.key = key /\ ct.aad = aad THEN <<ct.msg>> ELSE <<>>

EncryptNote(pk, o, cm, ovk, esk) ==
  LET epk == Address(esk)
      key == ContentKey(Times(pk, esk), epk)
  IN [epk |-> epk, ct |-> Seal(key, cm, o), out_ct |-> Seal(OvkKey(ovk, cm, epk), cm, key)]

DecryptNote(nk, note, cm) == Unseal(ContentKey(Times(note.epk, nk), note.epk), cm, note.ct)

RecoverSentNote(ovk, note, cm) ==
  LET key == Unseal(OvkKey(ovk, cm, note.epk), cm, note.out_ct)
  IN IF key = <<>> THEN <<>> ELSE Unseal(key[1], cm, note.ct)

--------------------------------------------------------------------------------
(* Parties spend notes of the tree they all see. *)

VARIABLES
  leaves,     \* the consensus leaves
  spent,      \* nullifiers on the chain
  minted,     \* sum of the public values minted
  transfers,  \* accepted so far
  consumed,   \* observer: <<leaf, spender>> of every input
  wire        \* the last output sent and its ciphertexts, or <<>>

transferVars == <<leaves, spent, minted, transfers, consumed, wire>>

\* A party knows its own key and every nonce, so these key openings.
Knows(p) == {Add(Nk[p], rho) : rho \in Rho}

TransferInit ==
  /\ leaves = <<>> /\ spent = {} /\ minted = 0 /\ transfers = 0 /\ consumed = <<>> /\ wire = <<>>

\* A mint of a public value: a deposit's note, or a coinbase with its mint proof.
Mint ==
  /\ transfers = 0 /\ Len(leaves) < MaxMints /\ Len(leaves) < CAPACITY
  /\ \E p \in Party, value \in MintValues, rho \in Rho :
       LET cm == PegmintNote(Address(Nk[p]), value, rho)
       IN /\ VerifyMint(value, cm)
          /\ leaves' = Push(leaves, cm)
          /\ minted' = minted + value
  /\ UNCHANGED <<spent, transfers, consumed, wire>>

\* What a party can assign to an input: any leaf, any key opening it knows.
Inputs(p) ==
  {in \in {[leaf |-> i, value |-> leaves[i].value, tag |-> leaves[i].tag, blinding |-> leaves[i].blinding,
    r_t |-> 1, x |-> x, r |-> Add(leaves[i].tag.h, 1)] :
      i \in DOMAIN leaves, x \in Knows(p)} :
    InputHolds(leaves, in, KeyOpened(in), Poseidon(in.x))}

\* p pays q and takes the change; it may assign any field element as a value.
Transfer(p, q) ==
  /\ transfers < MaxTransfers /\ Len(leaves) + 2 <= CAPACITY
  /\ \E in1, in2 \in Inputs(p), rho \in Rho, v1 \in Field, esk \in Esk :
       LET v2 == (in1.value + in2.value - SC_TX_FEE - v1) % P
           o == Opening(v1, rho, rho, rho)
           paid == BuildNote(Address(Nk[q]), o)
           change == BuildNote(Address(Nk[p]), Opening(v2, rho, Add(rho, 1), rho))
           w == [in |-> <<in1, in2>>, out |-> <<paid, change>>]
           proof == Prove(w)
       IN /\ VerifyTransfer(leaves, proof, w, SC_TX_FEE)
          /\ proof.nfs[1] # proof.nfs[2] /\ {proof.nfs[1], proof.nfs[2]} \cap spent = {}
          /\ leaves' = Push(Push(leaves, proof.output_cms[1]), proof.output_cms[2])
          /\ spent' = spent \cup {proof.nfs[1], proof.nfs[2]}
          /\ consumed' = consumed \o <<<<in1.leaf, p>>, <<in2.leaf, p>>>>
          /\ wire' = <<[to |-> q, from |-> p, opening |-> o, cm |-> paid,
                       note |-> EncryptNote(Address(Nk[q]), o, paid, p, esk)]>>
  /\ transfers' = transfers + 1
  /\ UNCHANGED minted

TransferNext == Mint \/ \E p, q \in Party : Transfer(p, q)

TransferSpec == TransferInit /\ [][TransferNext]_transferVars

--------------------------------------------------------------------------------
(* Properties *)

ConsumedLeaves == {consumed[i][1] : i \in DOMAIN consumed}

\* No value out of nothing (spend.rs:5-10, :18-24): no input is ever consumed twice, and
\* what was minted is what unspent notes hold and what the fees took, counted in the
\* integers although the circuit balances in the field.
NoteValueConserved ==
  /\ Cardinality(ConsumedLeaves) = Len(consumed)
  /\ minted = MapThenSumSet(LAMBDA i : leaves[i].value, DOMAIN leaves \ ConsumedLeaves)
                + SC_TX_FEE * transfers

\* Only the holder of nk spends a note (payment.rs:27-33): whoever spent a leaf is the party
\* whose key its key commitment was built on, although the sender built it from the public
\* address alone and chose the nonce.
SpentByKeyHolder ==
  \A i \in DOMAIN consumed :
    \E rho \in Rho \cup {Add(r, 1) : r \in Rho} :
      leaves[consumed[i][1]].tag.b = Add(Nk[consumed[i][2]], rho)

\* The recipient reads a payment and what it reads reopens the leaf, nobody else does, the
\* sender recovers it, and beside another note the ciphertexts open for no one
\* (note_encryption.rs:213-215, :264-272, :293-297).
PaymentReadable ==
  \A i \in DOMAIN wire :
    LET m == wire[i]
    IN /\ \A p \in Party : DecryptNote(Nk[p], m.note, m.cm) = IF p = m.to THEN <<m.opening>> ELSE <<>>
       /\ Reopened(Nk[m.to], m.opening) = m.cm
       /\ \A p \in Party : RecoverSentNote(p, m.note, m.cm) = IF p = m.from THEN <<m.opening>> ELSE <<>>
       /\ \A other \in ToSet(leaves) \ {m.cm}, p \in Party :
            DecryptNote(Nk[p], m.note, other) = <<>> /\ RecoverSentNote(p, m.note, other) = <<>>
================================================================================
