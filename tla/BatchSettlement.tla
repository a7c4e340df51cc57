---------------------------- MODULE BatchSettlement ----------------------------
(***************************************************************************)
(* Settlement by batches of withdrawals (settlement/methods/               *)
(* guest-settlement): settlers aggregate the spend proofs of withdrawals,  *)
(* the guest ties the root proof to the entries it journals and to the     *)
(* leaves of an epoch, and a vault box releases what the journal lists.    *)
(*                                                                         *)
(* Settlers are honest about the chain alone: an epoch is the blocks above *)
(* the vault's root (guest-settlement main.rs: the epoch-canonicality      *)
(* assumption).  What they aggregate, and what they claim it pays to whom, *)
(* is up to them; several race, and a journal may be released late.        *)
(***************************************************************************)
EXTENDS Aggregation, NoteTree

CONSTANTS
  Transfer, Exit,      \* spends: to notes, and to a withdrawal
  Amount, Recipient,   \* what the user of an exit withdrew, and to whom
  Batches,             \* what settlers aggregate and claim: lists of declarations of
                       \* a spend's amount and recipient
  MaxBlocks,           \* bound on the chain
  MaxJournals          \* bound on the journals proven

VARIABLES
  chain,      \* blocks: the spends in each, exits after transfers
  journals,   \* statements proven, with the root proof each was proven over
  vault,      \* root and counter of the vault box
  paid        \* entries released so far

batchVars == <<chain, journals, vault, paid>>


PegFee(amount) == Max({amount \div 100, 1})

Nf0(s) == <<"nf", s>>

BurnCmExpected(value, nf0, recipient_prop, amount) ==
  <<"burn", value, nf0, recipient_prop, amount>>

\* Public values of the user's proof.
Client(s) ==
  [root |-> "root", nf0 |-> Nf0(s), nf1 |-> <<"nf1", s>>,
   cm0 |-> IF s \in Exit
           THEN BurnCmExpected(Amount[s] + PegFee(Amount[s]), Nf0(s), Recipient[s], Amount[s])
           ELSE <<"cm", s>>,
   cm1 |-> <<"cm1", s>>]

\* Leaves a block appends: its spends' outputs, then the coinbase.
LeavesOfBlock(height) ==
  LET spends == chain[height]
  IN  [i \in 1 .. 2 * Len(spends) |->
         LET c == Client(spends[((i - 1) \div 2) + 1]) IN IF i % 2 = 1 THEN c.cm0 ELSE c.cm1]
      \o << <<"coinbase", height>> >>

LeavesBetween(from, to) ==
  FlattenSeq([i \in 1 .. to - from |-> LeavesOfBlock(from + i)])

ChainRoot(height) == FrontierRoot(FromLeaves(LeavesBetween(0, height)))

Mined == UNION {ToSet(chain[h]) : h \in DOMAIN chain}

BatchInit ==
  /\ chain = << <<>> >>
  /\ journals = {}
  /\ vault = [root |-> FrontierRoot(FromLeaves(<< <<"coinbase", 1>> >>)), counter |-> 0]
  /\ paid = <<>>

ProduceBlock ==
  /\ Len(chain) < MaxBlocks
  /\ \E txs \in SUBSET (Transfer \ Mined), exits \in SUBSET (Exit \ Mined) :
       chain' = Append(chain, SetToSeq(txs) \o SetToSeq(exits))
  /\ UNCHANGED <<journals, vault, paid>>

\* The split at the vault's root, checked by rebuilding it.
SplitLeaves(prev_height, sealed) ==
  [pre |-> LeavesBetween(0, prev_height), epoch |-> LeavesBetween(prev_height, sealed)]

Rebuilds(prev_height, prev_root) == ChainRoot(prev_height) = prev_root

Entry(s, amount, recipient_prop) ==
  [amount |-> amount, recipient_prop |-> recipient_prop,
   nf0 |-> Client(s).nf0, cm0 |-> Client(s).cm0]

\* Each entry's burn is for the journaled amount and recipient, and in the epoch.
BurnBound(entry, epoch) ==
  /\ entry.cm0 = BurnCmExpected(entry.amount + PegFee(entry.amount), entry.nf0,
                                entry.recipient_prop, entry.amount)
  /\ entry.cm0 \in ToSet(epoch)

DistinctNullifiers(entries) ==
  \A i, j \in DOMAIN entries : i # j => entries[i].nf0 # entries[j].nf0

GuestAccepts(root, entries, epoch) ==
  /\ VerifyRootProofSha(root).ok
  /\ VerifyRootProofSha(root).digest = WithdrawalsRoot(entries)
  /\ \A i \in DOMAIN entries : BurnBound(entries[i], epoch)
  /\ DistinctNullifiers(entries)

BatchJournal(frontier, epoch, counter_next, entries) ==
  LET transition == SettleTreeTransition(frontier, epoch)
  IN  [prev_root |-> transition[1], new_root |-> FrontierRoot(transition[2]),
       counter_next |-> counter_next, entries |-> entries]

EntriesOf(batch) ==
  [i \in DOMAIN batch |-> Entry(batch[i].s, batch[i].amount, batch[i].recipient_prop)]

LeavesOf(batch) ==
  [i \in DOMAIN batch |->
     Layer1Settlement(Client(batch[i].s), batch[i].amount, batch[i].recipient_prop)]

\* A settler aggregates a batch and runs the guest on entries of its choice.
ProveBatch ==
  /\ Cardinality(journals) < MaxJournals
  /\ \E prev_height \in {h \in DOMAIN chain : Rebuilds(h, vault.root)} :
     \E sealed \in prev_height + 1 .. Len(chain) :
     \E batch \in {b \in Batches : CanAggregateSha(b)} :
       LET split == SplitLeaves(prev_height, sealed)
           root == AggregateSettlementSha(LeavesOf(batch))
       IN \E claims \in Batches :
               LET entries == EntriesOf(claims)
               IN /\ GuestAccepts(root, entries, split.epoch)
                  /\ journals' = journals \cup
                       {[root |-> root,
                         journal |-> BatchJournal(FromLeaves(split.pre), split.epoch,
                                                  vault.counter + Len(entries), entries)]}
  /\ UNCHANGED <<chain, vault, paid>>

\* The vault accepts the one journal that its box and the transaction spell.
ReleaseBatch ==
  /\ \E j \in journals :
       /\ j.journal.prev_root = vault.root
       /\ j.journal.counter_next = vault.counter + Len(j.journal.entries)
       /\ vault' = [root |-> j.journal.new_root, counter |-> j.journal.counter_next]
       /\ paid' = paid \o j.journal.entries
  /\ UNCHANGED <<chain, journals>>

BatchNext == ProduceBlock \/ ProveBatch \/ ReleaseBatch

--------------------------------------------------------------------------------
(* Properties *)

Batch(entries) == {entries} \cup {Append(entries, entries[i]) : i \in DOMAIN entries}
                    \cup {Front(entries), Tail(entries), Reverse(entries)}

\* The digest a root proof surfaces names one list of entries, each over a client
\* proof the tree verified: no list that is longer, shorter or in another order has
\* the same root, the epoch's and the native fold agree on it, and every
\* pipeline attests every client proof
\* (settlement_digest.rs: padding can never smuggle a withdrawal).
RootNamesEntries ==
  \A j \in journals :
    LET entries == j.journal.entries
        clients == j.root.attests
        fees == [i \in DOMAIN clients |-> Layer1Epoch(clients[i], 3)]
        spends == [i \in DOMAIN clients |-> clients[i] @@ [fee |-> 3]]
    IN /\ \A i \in DOMAIN entries : \E c \in ToSet(clients) :
            c.nf0 = entries[i].nf0 /\ c.cm0 = entries[i].cm0
       /\ \A other \in Batch(entries) \ {<<>>} :
            WithdrawalsRoot(other) = j.root.digest <=> other = entries
       /\ VerifyRootProof(AggregateSettlement(fees)) =
            [ok |-> TRUE, digest |-> EpochSpendRoot(spends)]
       /\ \A root \in {AggregateSpends(clients),
                       AggregateSettlement([i \in DOMAIN clients |-> Layer1Digest(clients[i])])} :
            VerifyRoot(root) /\ ToSet(root.attests) = ToSet(clients)

\* Every entry the vault paid is an exit on the chain, paid once, in full, to the
\* recipient its user named: settlers cannot redirect, repeat or invent one.
PaidIsBurned ==
  /\ \A i, j \in DOMAIN paid : paid[i].nf0 = paid[j].nf0 => i = j
  /\ \A i \in DOMAIN paid : \E s \in Exit \cap Mined :
       paid[i] = Entry(s, Amount[s], Recipient[s])

\* The vault's root is the chain's at some height, and it counted every entry it
\* paid, whichever settlers won.
VaultRootIsChain ==
  /\ \E h \in DOMAIN chain : vault.root = ChainRoot(h)
  /\ vault.counter = Len(paid)
================================================================================
