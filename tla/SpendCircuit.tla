------------------------------ MODULE SpendCircuit ------------------------------
(***************************************************************************)
(* The 2-in / 2-out spend circuit: the constraints a witness satisfies     *)
(* (engine/src/spend/monolith.rs, with the balance, nullifier and Merkle   *)
(* gadgets it is made of), the witness an honest prover builds, and a      *)
(* ledger that accepts what satisfies them (engine/wallet/src/chain.rs)    *)
(* and records withdrawals against burn notes (engine/src/burn.rs).        *)
(*                                                                         *)
(* A sponge state is <<capacity, absorbed block>>: the state before it and *)
(* the block added to its rate.  Limbs and carries are elements of the     *)
(* field of P elements.                                                    *)
(***************************************************************************)
EXTENDS NoteTree, FiniteSets, TLC

CONSTANTS
    P,             \* the modulus of the field
    N_LIMBS, LIMB_BOUND,
    ROOT_WINDOW,
    PegFee,
    Nks,           \* spending keys
    Rhos,          \* note nonces
    Recipients,    \* propositions a withdrawal may pay
    Limb,          \* field elements a prover tries as limbs
    Fees,          \* fees a prover tries
    Funded,        \* the notes of the first leaves: [value, nk, rho]
    MaxTxs         \* bound of the model

VARIABLES
    window,        \* recent_roots, each with the tree it is the root of
    frontier,      \* the frontier of the last tree
    nullifiers,    \* revealed nullifiers
    spentBy,       \* the key whose holder made each spend, by nullifier
    fees,          \* fees paid so far
    withdrawals    \* recorded: [nf0, recipient, amount]

vars == <<window, frontier, nullifiers, spentBy, fees, withdrawals>>

ASSUME SpendAssumption ==
    /\ {P, N_LIMBS, LIMB_BOUND, ROOT_WINDOW} \subseteq Nat \ {0}
    /\ 8 * LIMB_BOUND < P
    /\ Limb \subseteq 0 .. P - 1
    /\ MaxTxs \in Nat /\ PegFee \in Nat /\ Fees \subseteq Nat

F(x) == x % P

LimbIdx == 1 .. N_LIMBS

-----------------------------------------------------------------------------
(* Sponge, note commitment, owner key, nullifier, burn note *)

SpongeInit(domain) == <<domain>>
Absorb(state, block) == <<state, block>>
HashDomain(domain, blocks) == FoldLeft(Absorb, SpongeInit(domain), blocks)

ValueLimbs(value) ==
  [j \in LimbIdx |-> (value \div (LIMB_BOUND ^ (j - 1))) % LIMB_BOUND]

LimbsToU64(limbs) ==
  FoldFunction(+, 0, [j \in LimbIdx |-> limbs[j] * (LIMB_BOUND ^ (j - 1))])

ValueBlock(limbs) == limbs \o <<0, 0>>

OwnerKey(nk) == HashDomain("OWNER", <<nk>>)
Commitment(limbs, owner, rho, r) == HashDomain("CM", <<ValueBlock(limbs), owner, rho, r>>)
NoteCommitment(value, owner, rho, r) == Commitment(ValueLimbs(value), owner, rho, r)
Nullifier(nk, rho) == HashDomain("NF", <<nk, rho>>)

BurnOwner == HashDomain("BURN_OWNER", <<>>)
BurnBinding(recipient, amount) ==
  HashDomain("BURN_BIND", <<recipient, ValueBlock(ValueLimbs(amount))>>)
BurnRho(nf0, recipient, amount) ==
  HashDomain("BURN_RHO", <<nf0, BurnBinding(recipient, amount)>>)
BurnR(nf0, recipient, amount) ==
  HashDomain("BURN_R", <<nf0, BurnBinding(recipient, amount)>>)
BurnCmExpected(value, nf0, recipient, amount) ==
  NoteCommitment(value, BurnOwner, BurnRho(nf0, recipient, amount), BurnR(nf0, recipient, amount))

Blinding == <<"r">>

(* What a commitment opens to. *)
CmRho(cm) == cm[1][2]
CmOwner(cm) == cm[1][1][2]
CmLimbs(cm) == SubSeq(cm[1][1][1][2], 1, N_LIMBS)
CmValue(cm) == LimbsToU64(CmLimbs(cm))

-----------------------------------------------------------------------------
(* Balance: bus = [in0, in1, out0, out1, fee], each a tuple of limbs *)

(* limb is a sum of LIMB_BITS bits. *)
RangeOk(limb) == limb \in 0 .. LIMB_BOUND - 1

CarryOk(c) == \E b0, b1 \in {0, 1} : c = b0 + 2 * b1 - 2

(* Carry out of limb j: none enters the first and none leaves the last. *)
CarryAt(carries, j) == IF j = 0 \/ j = N_LIMBS THEN 0 ELSE carries[j]

LimbBalanced(bus, carries, j) ==
  F(bus.in0[j] + bus.in1[j] + CarryAt(carries, j - 1))
    = F(bus.out0[j] + bus.out1[j] + bus.fee[j] + CarryAt(carries, j) * LIMB_BOUND)

BalanceUnranged(bus, carries) ==
  /\ \A k \in DOMAIN carries : CarryOk(carries[k])
  /\ \A j \in LimbIdx : LimbBalanced(bus, carries, j)

BalanceAir(bus, carries) ==
  /\ \A v \in DOMAIN bus : \A j \in LimbIdx : RangeOk(bus[v][j])
  /\ \A k \in DOMAIN carries : CarryOk(carries[k])
  /\ \A j \in LimbIdx : LimbBalanced(bus, carries, j)

-----------------------------------------------------------------------------
(* The rows of the trace *)

AssertInit(state, domain) == state[1] = SpongeInit(domain)

(* A hash row holds the sponge states of the owner key, the commitment and *)
(* the nullifier of one input. *)
CommitmentChain(b) ==
  /\ AssertInit(b.cm1, "CM")
  /\ SubSeq(b.cm1[2], N_LIMBS + 1, Len(b.cm1[2])) = <<0, 0>>
  /\ b.cm3[1] = b.cm2 /\ b.cm4[1] = b.cm3

NullifierAir(b, nk, rho) ==
  /\ AssertInit(b.nf1, "NF") /\ b.nf1[2] = nk
  /\ b.nf2 = Absorb(b.nf1, rho)

HashRow(b) ==
  /\ AssertInit(b.owner, "OWNER")
  /\ CommitmentChain(b) /\ b.cm2 = Absorb(b.cm1, b.owner)
  /\ NullifierAir(b, b.owner[2], b.cm3[2])

OutputRow(b) == CommitmentChain(b) /\ b.cm2[1] = b.cm1

MerkleRows(child, path, root) ==
  LET up[l \in 0 .. DEPTH] ==
        IF l = 0 THEN child
        ELSE IF path.bits[l - 1] = 0
             THEN Compress(up[l - 1], path.siblings[l - 1])
             ELSE Compress(path.siblings[l - 1], up[l - 1])
  IN  /\ \A l \in Levels : F(path.bits[l] * (path.bits[l] - 1)) = 0
      /\ up[DEPTH] = root

(* w = [in, path, out, bus, carries], pub = [root, nf, cm, fee]. *)
SpendAir(w, pub) ==
  /\ \A i \in 1 .. 2 :
       /\ HashRow(w.in[i])
       /\ w.in[i].nf2 = pub.nf[i]
       /\ MerkleRows(w.in[i].cm4, w.path[i], pub.root)
       /\ OutputRow(w.out[i])
       /\ w.out[i].cm4 = pub.cm[i]
  /\ SubSeq(w.in[1].cm1[2], 1, N_LIMBS) = w.bus.in0
  /\ SubSeq(w.in[2].cm1[2], 1, N_LIMBS) = w.bus.in1
  /\ SubSeq(w.out[1].cm1[2], 1, N_LIMBS) = w.bus.out0
  /\ SubSeq(w.out[2].cm1[2], 1, N_LIMBS) = w.bus.out1
  /\ BalanceAir(w.bus, w.carries)
  /\ w.bus.fee = pub.fee
  /\ pub.nf[1] # pub.nf[2]

-----------------------------------------------------------------------------
(* The honest prover: compute_carries, build_spend_trace_with_paths *)

CmRow(cm) ==
  [cm1 |-> cm[1][1][1], cm2 |-> cm[1][1], cm3 |-> cm[1], cm4 |-> cm]

InputRow(nk, cm, nkNf, rhoNf) ==
  [owner |-> Absorb(SpongeInit("OWNER"), nk),
   nf1   |-> Absorb(SpongeInit("NF"), nkNf),
   nf2   |-> Absorb(Absorb(SpongeInit("NF"), nkNf), rhoNf)] @@ CmRow(cm)

CarriesUnborrowed(bus) ==
  LET c[j \in 0 .. N_LIMBS] ==
        IF j = 0 THEN 0
        ELSE (bus.in0[j] + bus.in1[j] + c[j - 1]) \div LIMB_BOUND
  IN  [j \in 1 .. N_LIMBS - 1 |-> c[j]]

ComputeCarries(bus) ==
  LET c[j \in 0 .. N_LIMBS] ==
        IF j = 0 THEN 0
        ELSE (bus.in0[j] + bus.in1[j] + c[j - 1] - bus.out0[j] - bus.out1[j] - bus.fee[j])
               \div LIMB_BOUND
  IN  [j \in 1 .. N_LIMBS - 1 |-> c[j]]

PathOf(tree, index) ==
  [siblings |-> AuthenticationPath(tree, index).siblings,
   bits     |-> [l \in Levels |-> Above(index, l) % 2]]

BusOf(v) ==
  [in0 |-> ValueLimbs(v[1]), in1 |-> ValueLimbs(v[2]), out0 |-> ValueLimbs(v[3]),
   out1 |-> ValueLimbs(v[4]), fee |-> ValueLimbs(v[5])]

(* in: the two spent notes as [nk, index]; outs: two commitments. *)
BuildSpendTrace(tree, in, outs, fee) ==
  LET cm(i)  == Node(tree, 0, in[i].index)
      bus    == BusOf(<<CmValue(cm(1)), CmValue(cm(2)), CmValue(outs[1]), CmValue(outs[2]), fee>>)
  IN  [in      |-> [i \in 1 .. 2 |-> InputRow(in[i].nk, cm(i), in[i].nk, CmRho(cm(i)))],
       path    |-> [i \in 1 .. 2 |-> PathOf(tree, in[i].index)],
       out     |-> [i \in 1 .. 2 |-> CmRow(outs[i])],
       bus     |-> bus,
       carries |-> ComputeCarries(bus)]

PublicValues(root, w) ==
  [root |-> root,
   nf   |-> [i \in 1 .. 2 |-> w.in[i].nf2],
   cm   |-> [i \in 1 .. 2 |-> w.out[i].cm4],
   fee  |-> w.bus.fee]

-----------------------------------------------------------------------------
(* What a prover may try: the openings of all notes are known to it, but of *)
(* the spending keys only its own. *)

Tree == Last(window)

Leaves(tree) == [i \in 1 .. tree.next |-> Node(tree, 0, i - 1)]

InputRows(tree, nk) ==
  {r \in {[row |-> InputRow(nk, Node(tree, 0, i), nkNf, rhoNf), index |-> i] :
            i \in 0 .. tree.next - 1, nkNf \in Nks, rhoNf \in Rhos} : HashRow(r.row)}

Tried == [LimbIdx -> Limb]

Carried == [1 .. N_LIMBS - 1 -> -2 .. 1]

(* The outputs, fees and carries that balance the inputs in0 and in1. *)
Balanced ==
  [in \in Tried \X Tried |->
     {t \in Tried \X Tried \X Fees \X Carried :
        BalanceAir([in0 |-> in[1], in1 |-> in[2], out0 |-> t[1], out1 |-> t[2],
                    fee |-> ValueLimbs(t[3])], t[4])}]

(* Nonces no note of the tree has. *)
FreshRhos(tree) ==
  LET used == {CmRho(Leaves(tree)[i]) : i \in 1 .. tree.next}
  IN  SetToSeq(Rhos \ used)

(* The first output: a note for any key, or a burn for some withdrawal. *)
FirstOutputs(tree, limbs, nf0) ==
  {Commitment(limbs, OwnerKey(nk), FreshRhos(tree)[1], Blinding) : nk \in Nks}
    \union {Commitment(limbs, BurnOwner, BurnRho(nf0, to, a), BurnR(nf0, to, a)) :
              to \in Recipients, a \in {LimbsToU64(limbs) - PegFee}}

-----------------------------------------------------------------------------
(* The ledger: InMemoryChain *)

PushRoot(trees, tree) ==
  LET longer == Append(trees, tree)
  IN  IF Len(trees) = ROOT_WINDOW THEN Tail(longer) ELSE longer

AppendOutput(trees, cm) == PushRoot(trees, TreeAppend(Last(trees), cm))

(* submit, after the proof is verified; a withdrawal is recorded with the *)
(* spend whose first output is its burn note. *)
Submit(nk, pub, records) ==
  /\ \A i \in 1 .. 2 : pub.nf[i] \notin nullifiers
  /\ nullifiers' = nullifiers \union {pub.nf[1], pub.nf[2]}
  /\ spentBy' = [nf \in {pub.nf[1], pub.nf[2]} |-> nk] @@ spentBy
  /\ window' = AppendOutput(AppendOutput(window, pub.cm[1]), pub.cm[2])
  /\ frontier' = SettleTreeTransition(frontier, pub.cm)[2]
  /\ fees' = fees + LimbsToU64(pub.fee)
  /\ withdrawals' = withdrawals \union records

(* A withdrawal names a recipient and an amount of its own. *)
Records(pub) ==
  {{}} \union
  {{[nf0 |-> pub.nf[1], recipient |-> to, amount |-> a]} :
     <<to, a>> \in {<<to, a>> \in Recipients \X (0 .. CmValue(pub.cm[1])) :
                     pub.cm[1] = BurnCmExpected(a + PegFee, pub.nf[1], to, a)}}

Spend(nk) ==
  /\ Cardinality(nullifiers) < 2 * MaxTxs
  /\ \E t \in DOMAIN window :
       LET tree == window[t]
       IN  \E r1, r2 \in InputRows(tree, nk) :
           \E out \in Balanced[CmLimbs(r1.row.cm4), CmLimbs(r2.row.cm4)] :
           \E cm1 \in FirstOutputs(Tree, out[1], r1.row.nf2) :
             LET cm2 == Commitment(out[2], OwnerKey(nk), FreshRhos(Tree)[2], Blinding)
                 w   == [in      |-> <<r1.row, r2.row>>,
                         path    |-> <<PathOf(tree, r1.index), PathOf(tree, r2.index)>>,
                         out     |-> <<CmRow(cm1), CmRow(cm2)>>,
                         bus     |-> [in0 |-> CmLimbs(r1.row.cm4), in1 |-> CmLimbs(r2.row.cm4),
                                      out0 |-> out[1], out1 |-> out[2], fee |-> ValueLimbs(out[3])],
                         carries |-> out[4]]
                 pub == PublicValues(Root(tree), w)
             IN  /\ SpendAir(w, pub)
                 /\ \E records \in Records(pub) : Submit(nk, pub, records)

FundedLeaves ==
  [i \in DOMAIN Funded |->
     NoteCommitment(Funded[i].value, OwnerKey(Funded[i].nk), Funded[i].rho, Blinding)]

Init ==
  /\ window = FoldLeft(AppendOutput, <<EmptyTree>>, FundedLeaves)
  /\ frontier = FromLeaves(FundedLeaves)
  /\ nullifiers = {} /\ spentBy = <<>>
  /\ fees = 0
  /\ withdrawals = {}

Next == \E nk \in Nks : Spend(nk)

Spec == Init /\ [][Next]_vars

-----------------------------------------------------------------------------
(* Properties *)

TypeOK ==
  /\ Len(window) \in 1 .. ROOT_WINDOW
  /\ DOMAIN spentBy = nullifiers
  /\ fees \in Nat

(* The notes of a key that are not spent: its leaves whose nullifier has not *)
(* been revealed. *)
Unspent ==
  {i \in 1 .. Tree.next : \E nk \in Nks :
     /\ CmOwner(Leaves(Tree)[i]) = OwnerKey(nk)
     /\ Nullifier(nk, CmRho(Leaves(Tree)[i])) \notin nullifiers}

SumOf(f) == FoldFunction(+, 0, f)

(* No spend makes value: what can still be spent, what was withdrawn with   *)
(* its peg fee and what was paid in fees never exceed what was funded. *)
ValueConserved ==
  SumOf([i \in Unspent |-> CmValue(Leaves(Tree)[i])])
    + SumOf([w \in withdrawals |-> w.amount + PegFee]) + fees
  <= SumOf([i \in DOMAIN Funded |-> Funded[i].value])

(* Every nullifier revealed is that of a note in the tree whose key the     *)
(* spender holds: nothing is spent that was not there, and no note of others. *)
SpentByHolder ==
  \A nf \in nullifiers : \E i \in 1 .. Tree.next :
    LET nk == spentBy[nf]
    IN  /\ CmOwner(Leaves(Tree)[i]) = OwnerKey(nk)
        /\ nf = Nullifier(nk, CmRho(Leaves(Tree)[i]))

(* Frontier, tree and the reference agree on the root, and every path of    *)
(* every tree in the window folds to its root.  The frontier of a full tree  *)
(* gives the root of an empty one: its index has no bits left. *)
FrontierIsTree ==
  /\ ~IsFull(Tree) => FrontierRoot(frontier) = Root(Tree)
  /\ \A t \in DOMAIN window :
       LET tree == window[t]
       IN  /\ Root(tree) = ReferenceRoot(Leaves(tree))
           /\ \A i \in 0 .. tree.next - 1 :
                RootFromPath(Node(tree, 0, i), AuthenticationPath(tree, i)) = Root(tree)

(* The two notes of an honest spend and its outputs satisfy the circuit,    *)
(* whatever way the value is split. *)
HonestProves ==
  \A nk \in Nks : \A i, j \in Unspent : \A fee \in Fees :
    LET cm(k) == Leaves(Tree)[k]
        total == CmValue(cm(i)) + CmValue(cm(j)) - fee
        max   == LIMB_BOUND ^ N_LIMBS - 1
        out(v) == NoteCommitment(v, OwnerKey(nk), FreshRhos(Tree)[1], Blinding)
        in    == <<[nk |-> nk, index |-> i - 1], [nk |-> nk, index |-> j - 1]>>
    IN  (/\ i < j
         /\ CmOwner(cm(i)) = OwnerKey(nk) /\ CmOwner(cm(j)) = OwnerKey(nk)
         /\ CmRho(cm(i)) # CmRho(cm(j)))
        => \A v \in 0 .. max :
             (total - v \in 0 .. max) =>
               LET w == BuildSpendTrace(Tree, in, <<out(v), out(total - v)>>, fee)
               IN  SpendAir(w, PublicValues(Root(Tree), w))
================================================================================
