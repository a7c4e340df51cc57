------------------------------ MODULE MCMmWallet -------------------------------
(***************************************************************************)
(* Instances for TLC, in one run: MmWallet on the dev network, a wallet    *)
(* that a peer's block funds, and peers that mine empty blocks or the      *)
(* template; and the spend circuit that MmWallet takes as given, between   *)
(* two parties.  `part` says which of the two behaves; they share no       *)
(* state.                                                                  *)
(***************************************************************************)
EXTENDS MmWallet

CONSTANT Parts   \* subset of {"wallet", "circuit"}: what a run checks

Fund(i) ==
  [inputs |-> <<>>, nullifiers |-> <<<<"fund", i, 1>>, <<"fund", i, 2>>>>,
   outputs |-> <<SelfNote(i, Journal[i + 1]), SelfNote(i + 1, Journal[i + 2])>>,
   anchor |-> <<>>]

Body(st, txs) ==
  [transfers |-> txs, peg_mints |-> <<>>,
   coinbase |-> <<Note(<<"peer", Len(st.leaves)>>,
                       ExpectedCoinbaseValue(st.pot, Len(txs)), "peer")>>]

MCPeerBlock(st, template) ==
  {Body(st, [i \in 1 .. Len(Journal) \div 2 |-> Fund(2 * i - 2)]),
   Body(st, <<>>), Body(st, SetToSeq(template))}

MCTwoNotes == <<3, 2>>
MCFourNotes == <<4, 4, 3, 2>>

--------------------------------------------------------------------------------
VARIABLES
  part,   \* "wallet" | "circuit"
  leaves, spent, minted, transfers, consumed, wire

TransferNk == [p \in {"alice", "bob"} |-> IF p = "alice" THEN 1 ELSE 5]

Circuit == INSTANCE ShieldedTransfer WITH
  P <- 11, RANGE <- 4, CAPACITY <- 7, Party <- {"alice", "bob"}, Nk <- TransferNk,
  Rho <- {0, 2}, Esk <- {3}, MintValues <- {2, 3}, MaxMints <- 3, MaxTransfers <- 2

circuitVars == <<leaves, spent, minted, transfers, consumed, wire>>

PartsInit == part \in Parts /\ Init /\ Circuit!TransferInit

PartsNext ==
  \/ part = "wallet" /\ Next /\ UNCHANGED <<part, circuitVars>>
  \/ part = "circuit" /\ Circuit!TransferNext /\ UNCHANGED <<part, vars>>

PartsSpec == PartsInit /\ [][PartsNext]_<<part, vars, circuitVars>>

--------------------------------------------------------------------------------
(* Properties *)

\* The ledger is the replay of its blocks, and the archive follows it (MmWallet).
LedgerAndArchive == StateIsReplay /\ ArchiveIsChain

\* Whatever the parties assign, no value comes out of nothing, only the holder of the
\* key a note was built for spends it, and its ciphertexts open for it alone
\* (ShieldedTransfer).
CircuitIsSound ==
  Circuit!NoteValueConserved /\ Circuit!SpentByKeyHolder /\ Circuit!PaymentReadable
===============================================================================
