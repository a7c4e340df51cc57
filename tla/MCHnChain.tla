------------------------------- MODULE MCHnChain -------------------------------
(***************************************************************************)
(* Instances for TLC, in one run: HnChain over two allocations, a transfer *)
(* and a peg-out that compete for them, a peg-out of a transferred and a   *)
(* deposited note, and one vault deposit; and its ledger alone, with       *)
(* blocks that misstate what they move.  `part` says which of the two      *)
(* behaves; they share no state.                                           *)
(***************************************************************************)
EXTENDS HnChain, HnState

CONSTANTS pay, exit, exit2, box

MCSpend == {pay, exit, exit2}
MCInputs == [s \in MCSpend |->
  IF s = exit2 THEN {Out(pay, 1), Mint(box)} ELSE {Alloc(1), Alloc(2)}]
MCOutValue == [s \in MCSpend |->
  CASE s = pay -> <<5, 4>> [] s = exit -> <<4, 5>> [] s = exit2 -> <<4, 3>>]
MCWithdraw == [s \in MCSpend |-> IF s = pay THEN 0 ELSE 3]
MCDeposit == {box}
MCDepositAmount == [d \in MCDeposit |-> 4]
MCGenesisAlloc == <<5, 5>>

\* Harder when the window went by at once.
MCNextNbits(view) ==
  IF Len(view) = DAA_WINDOW + 1 /\ view[1][1] = view[Len(view)][1] THEN 3 ELSE 1

MCStamps == {<<0, 1>>, <<1, 2>>}

--------------------------------------------------------------------------------
VARIABLE part   \* "chain" | "ledger"

\* Honest claims; a coinbase one too high; the same with matching totals; a pot
\* and a pool that claim too much.
MCLies == {<<0, 0, 0>>, <<1, 0, 0>>, <<1, -1, 1>>, <<0, 1, 0>>, <<0, 0, 1>>}

PartsInit == part \in {"chain", "ledger"} /\ Init /\ LedgerInit

PartsNext ==
  \/ part = "chain" /\ Next /\ UNCHANGED <<part, ledgerVars>>
  \/ part = "ledger" /\ LedgerNext /\ UNCHANGED <<part, vars>>

PartsSpec == PartsInit /\ [][PartsNext]_<<part, vars, ledgerVars>>
===============================================================================
