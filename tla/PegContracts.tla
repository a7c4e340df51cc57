----------------------------- MODULE PegContracts ------------------------------
(***************************************************************************)
(* The six ErgoScript contracts that hold the peg's USE on Ergo, as        *)
(* predicates over one transaction: PegVault (the pooled reserve),         *)
(* DepositReceipt and FeePot (what a peg-in locks), UnlockIntent,          *)
(* DoubleRedeem and SideChainState (what a peg-out needs).                 *)
(*                                                                         *)
(* A box is [script, tokens, R4 ..., creation]; a transaction is           *)
(* [inputs, data, outputs, signers] with boxes for inputs, its height the  *)
(* one of the block that includes it.  An authenticated tree is the        *)
(* function or the set it authenticates: a proof for a fact that does not  *)
(* hold does not exist.                                                    *)
(***************************************************************************)
EXTENDS Integers, Sequences, FiniteSets, SequencesExt, FiniteSetsExt

CONSTANTS
    V_CAP,          \* the most USE the vault may hold after a spend
    T_DELAY,        \* Ergo blocks an UnlockIntent waits
    FEE_FLOOR,      \* the peg fee never falls below this
    FEE_BPS,        \* the peg fee in basis points
    N_MINT,         \* confirmations before the sidechain mints
    REFUND_MARGIN,  \* the refund opens this much after N_MINT at the earliest
    Authority       \* whether SideChainState's authority slot is satisfiable

ASSUME PegContractsAssumption ==
    /\ {V_CAP, T_DELAY, FEE_FLOOR, FEE_BPS, N_MINT, REFUND_MARGIN} \subseteq Nat
    /\ Authority \in BOOLEAN

(* tokens(k) of box b is `token`. *)
Carries(b, k, token) == Len(b.tokens) >= k /\ b.tokens[k].id = token

(* The USE of a box, wherever in its tokens it is. *)
UseOf(b) ==
  LET at == {k \in DOMAIN b.tokens : b.tokens[k].id = "USE"}
  IN  SumFunction([k \in at |-> b.tokens[k].amount])

UseIn(boxes) == SumFunction([i \in DOMAIN boxes |-> UseOf(boxes[i])])

(***************************************************************************)
(* PegVault.es                                                             *)
(***************************************************************************)
(* receiptSum, feeSum: tokens(0) of every input with the pinned script. *)
Absorbed(tx, script) ==
  LET at == {i \in DOMAIN tx.inputs :
                tx.inputs[i].script = script /\ tx.inputs[i].tokens # <<>>}
  IN  SumFunction([i \in at |-> tx.inputs[i].tokens[1].amount])

NftPreserved(self, out) ==
  /\ Carries(self, 1, "VaultNFT") /\ Carries(self, 2, "USE")
  /\ Len(out.tokens) = 2
  /\ Carries(out, 1, "VaultNFT") /\ Carries(out, 2, "USE")
  /\ out.script = self.script

IsPayout(tx) == Len(tx.inputs) > 1 /\ tx.inputs[2].script = "UnlockIntent"

VaultFee(n) == LET bps == (n * FEE_BPS) \div 10000
               IN  IF bps > FEE_FLOOR THEN bps ELSE FEE_FLOOR

Payout(self, tx, height) ==
  LET intent == tx.inputs[2]
      paid   == self.tokens[2].amount - tx.outputs[1].tokens[2].amount
  IN  /\ height >= intent.creation + T_DELAY
      /\ Absorbed(tx, "DepositReceipt") = 0 /\ Absorbed(tx, "FeePot") = 0
      /\ paid = intent.R5 - VaultFee(intent.R5) /\ paid > 0
      /\ Len(tx.outputs) >= 3
      /\ tx.outputs[3].script = intent.R6
      /\ Carries(tx.outputs[3], 1, "USE") /\ tx.outputs[3].tokens[1].amount = paid
      /\ Carries(tx.outputs[2], 1, "DoubleRedeemNFT")
      /\ tx.outputs[2].R5 = intent.R4

TopUpSome(self, tx) ==
  tx.outputs[1].tokens[2].amount > self.tokens[2].amount

TopUp(self, tx) ==
  LET sum == Absorbed(tx, "DepositReceipt") + Absorbed(tx, "FeePot")
  IN  sum > 0 /\ tx.outputs[1].tokens[2].amount = self.tokens[2].amount + sum

PegVault(self, tx, height) ==
  /\ NftPreserved(self, tx.outputs[1])
  /\ tx.outputs[1].tokens[2].amount <= V_CAP
  /\ IF IsPayout(tx) THEN Payout(self, tx, height) ELSE TopUp(self, tx)

(***************************************************************************)
(* DepositReceipt.es and FeePot.es                                         *)
(***************************************************************************)
MergedIntoVault(tx) == Carries(tx.outputs[1], 1, "VaultNFT")

IsUseReceipt(self) == Carries(self, 1, "USE")

(* R4 is a 33-byte Coll[Byte]; what the 33 bytes say is not looked at. *)
Mintable(self) == IsUseReceipt(self) /\ self.R4 \in {"point", "garbage33"}

TimedOut(self, height) ==
  /\ height >= self.R8
  /\ self.R8 >= self.creation + N_MINT + REFUND_MARGIN

DepositReceipt(self, tx, height) ==
  \/ Mintable(self) /\ MergedIntoVault(tx)
  \/ IsUseReceipt(self) /\ TimedOut(self, height) /\ "depositor" \in tx.signers

FeePot(self, tx) == Carries(self, 1, "USE") /\ MergedIntoVault(tx)

(***************************************************************************)
(* UnlockIntent.es, DoubleRedeem.es and SideChainState.es                  *)
(***************************************************************************)
UnlockIntent(self, tx) ==
  /\ IsPayout(tx) /\ Carries(tx.inputs[1], 1, "VaultNFT")
  /\ tx.inputs[2].id = self.id
  /\ Len(tx.data) > 0 /\ Len(tx.data[1].tokens) = 1
  /\ Carries(tx.data[1], 1, "StateNFT")
  /\ self.R4 \in DOMAIN tx.data[1].R6 /\ tx.data[1].R6[self.R4] = self.R5

DoubleRedeem(self, tx) ==
  LET out == tx.outputs[2]
  IN  /\ Len(tx.outputs) >= 2
      /\ out.tokens = self.tokens /\ out.script = self.script
      /\ out.R5 \notin self.R4
      /\ out.R4 = self.R4 \union {out.R5}

SideChainState(self, tx, height) ==
  LET next == tx.outputs[1]
  IN  /\ Authority
      /\ Len(self.tokens) = 1 /\ Carries(self, 1, "StateNFT")
      /\ next.tokens = self.tokens /\ next.script = self.script
      /\ next.R4 > self.R4
      /\ next.R7 = height /\ height > self.R7
      /\ \A id \in DOMAIN self.R6 : id \in DOMAIN next.R6 /\ next.R6[id] = self.R6[id]

(* The script of input i of tx, in a block at `height`. *)
ScriptHolds(tx, i, height) ==
  LET self == tx.inputs[i]
  IN  CASE self.script = "PegVault"       -> PegVault(self, tx, height)
        [] self.script = "DepositReceipt" -> DepositReceipt(self, tx, height)
        [] self.script = "FeePot"         -> FeePot(self, tx)
        [] self.script = "UnlockIntent"   -> UnlockIntent(self, tx)
        [] self.script = "DoubleRedeem"   -> DoubleRedeem(self, tx)
        [] self.script = "SideChainState" -> SideChainState(self, tx, height)
        [] OTHER                          -> self.script \in tx.signers

(* Singleton tokens are neither created nor duplicated, USE is conserved: *)
(* the rules of an Ergo transaction the contracts rely on. *)
TokensConserved(tx) ==
  LET held(boxes, t) ==
        Cardinality({i \in DOMAIN boxes :
                       \E k \in DOMAIN boxes[i].tokens : boxes[i].tokens[k].id = t})
  IN  /\ UseIn(tx.outputs) <= UseIn(tx.inputs)
      /\ \A t \in {"VaultNFT", "DoubleRedeemNFT", "StateNFT"} :
            held(tx.outputs, t) <= held(tx.inputs, t)

ErgoAccepts(tx, height) ==
  TokensConserved(tx) /\ \A i \in DOMAIN tx.inputs : ScriptHolds(tx, i, height)
================================================================================
