------------------------------- MODULE MmWallet --------------------------------
(***************************************************************************)
(* The legacy user side: the node loop that adopts, archives, produces and *)
(* publishes (node.rs), the API threads that answer from what it published *)
(* and admit transfers (api.rs, mempool.rs), and one aegis-wallet command  *)
(* at a time (aegis-wallet: main.rs, state.rs, pay.rs, send.rs, client.rs) *)
(* against its journal file.                                               *)
(*                                                                         *)
(* The node thread and the API threads share the archive, the pool, the    *)
(* admission view and the status, each under a lock of its own; the wallet *)
(* scans with one request per block.  Fork choice is MmForkChoice: here a  *)
(* peer's branch is adopted in one step.                                   *)
(***************************************************************************)
EXTENDS MmLedger

CONSTANTS
  PeerBlock(_, _),  \* bodies a peer may put on a state, given the template's transfers
  Amounts,          \* amounts a user pays
  Recipients,       \* whom: "other", or "own" address
  Journal,          \* values import-note put in the file before
  Imports,          \* values import-note adds later
  MaxHeight,        \* bound: blocks on the chain
  MaxReorg,         \* bound: blocks one adoption rewinds
  MaxForeign,       \* bound: adoptions of peers' branches
  MaxCommands,      \* bound: wallet commands
  MaxLosses         \* bound: lost responses and crashes of the wallet

VARIABLES
  chain,     \* fork choice's chain
  saving,    \* adopted blocks not archived yet, from this height; 0 when none
  included,  \* transfers of the block just produced, still in the pool
  phase,     \* where the node's tick is
  archive,   \* SeedCore: canonical bodies by height
  pool,      \* Mempool
  view,      \* AdmissionView
  status,    \* NodeStatus: height, leaves, nullifiers, pool template
  file,      \* the wallet file: journal, next_index, scanned_height
  cli,       \* the running wallet command
  foreign, commands, losses

nodeVars == <<chain, saving, included, phase>>
sharedVars == <<archive, pool, view, status>>
walletVars == <<file, cli>>
vars == <<nodeVars, sharedVars, walletVars, foreign, commands, losses>>

--------------------------------------------------------------------------------
(* The node *)

ViewOf(st) == [leaves |-> st.leaves, spent |-> st.nullifiers]

StatusOf(c, p) ==
  [height |-> Len(c.blocks), leaves |-> c.st.leaves, nullifiers |-> c.st.nullifiers,
   mempool_txs |-> p]

\* SeedCore::record_canonical: at or below the tip, what is above goes.
RecordCanonical(bodies, height, block) ==
  IF height <= Len(bodies) + 1 THEN Append(SubSeq(bodies, 1, height - 1), block)
  ELSE bodies

\* A peer's heavier branch: rewind to the fork point and extend with its blocks,
\* whose transfers come from the published template or from the peer.
SyncBranch ==
  /\ phase = "sync"
  /\ foreign < MaxForeign
  /\ \E depth \in 0 .. Min({MaxReorg, Len(chain.undo)}) :
       LET base == RollbackTo(chain, Len(chain.blocks) - depth)
       IN \E first \in PeerBlock(base.st, status.mempool_txs) :
            LET one == Seal(base.st, first)
                c1 == TryExtend(base, one)
            IN /\ Extends(base, one)
               /\ \E c \in IF depth = 0 THEN {c1}
                           ELSE {TryExtend(c1, Seal(c1.st, b)) :
                                   b \in {x \in PeerBlock(c1.st, status.mempool_txs) :
                                            Extends(c1, Seal(c1.st, x))}} :
                    /\ Len(c.blocks) <= MaxHeight
                    /\ chain' = c
                    /\ saving' = Len(base.blocks) + 1
  /\ phase' = "record"
  /\ foreign' = foreign + 1
  /\ UNCHANGED <<included, sharedVars, walletVars, commands, losses>>

NoSync ==
  /\ phase = "sync"
  /\ phase' = "produce"
  /\ UNCHANGED <<chain, saving, included, sharedVars, walletVars, foreign, commands, losses>>

\* persist_one for the next adopted block.
Record ==
  /\ phase \in {"record", "record_own"}
  /\ saving > 0
  /\ archive' = RecordCanonical(archive, saving, chain.blocks[saving])
  /\ IF saving < Len(chain.blocks)
       THEN saving' = saving + 1 /\ phase' = phase
       ELSE saving' = 0 /\ phase' = IF phase = "record" THEN "produce" ELSE "remove"
  /\ UNCHANGED <<chain, included, pool, view, status, walletVars, foreign, commands, losses>>

\* What the producer puts in its candidate.
Candidate ==
  LET txs == SelectForBlock(pool, chain.st.leaves)
  IN [transfers |-> txs, peg_mints |-> <<>>,
      coinbase |-> <<Note(<<"dev", Len(chain.blocks) + 1>>,
                          ExpectedCoinbaseValue(chain.st.pot, Len(txs)), "dev")>>]

\* produce_one: a candidate that does not apply is an error of this tick.
Produce ==
  /\ phase = "produce"
  /\ IF Len(chain.blocks) < MaxHeight /\ Extends(chain, Seal(chain.st, Candidate))
       THEN /\ chain' = TryExtend(chain, Seal(chain.st, Candidate))
            /\ saving' = Len(chain.blocks) + 1
            /\ included' = ToSet(Candidate.transfers)
            /\ phase' = "record_own"
       ELSE /\ phase' = "evict"
            /\ UNCHANGED <<chain, saving, included>>
  /\ UNCHANGED <<sharedVars, walletVars, foreign, commands, losses>>

RemoveIncluded ==
  /\ phase = "remove"
  /\ pool' = pool \ included
  /\ included' = {}
  /\ phase' = "evict"
  /\ UNCHANGED <<chain, saving, archive, view, status, walletVars, foreign, commands, losses>>

\* publish_status, on a tip change: evict, then publish the view; then the status.
\* Every block has a coinbase or a transfer, so another tip is another view.
Evict ==
  /\ phase = "evict"
  /\ pool' = IF view = ViewOf(chain.st) THEN pool
             ELSE EvictSpent(pool, chain.st.nullifiers)
  /\ phase' = "publish_admission"
  /\ UNCHANGED <<chain, saving, included, archive, view, status, walletVars,
                 foreign, commands, losses>>

PublishAdmission ==
  /\ phase = "publish_admission"
  /\ view' = ViewOf(chain.st)
  /\ phase' = "publish_status"
  /\ UNCHANGED <<chain, saving, included, archive, pool, status, walletVars,
                 foreign, commands, losses>>

PublishStatus ==
  /\ phase = "publish_status"
  /\ status' = StatusOf(chain, pool)
  /\ phase' = "sync"
  /\ UNCHANGED <<chain, saving, included, archive, pool, view, walletVars,
                 foreign, commands, losses>>

--------------------------------------------------------------------------------
(* The journal.  A tracked note is [index, value, leaf_index, spent], with     *)
(* leaf_index 0 for a note that is in no leaf.                                 *)

Own(n) == n.owner = "own"
SelfNote(i, v) == Note(<<"self", i>>, v, "own")
Tracked(i, v) == [index |-> i, value |-> v, leaf_index |-> 0, spent |-> FALSE]

AddNote(f, v) ==
  [f EXCEPT !.notes = Append(@, Tracked(f.next_index, v)), !.next_index = @ + 1]

NewFile ==
  FoldLeft(AddNote, [notes |-> <<>>, next_index |-> 0, scanned_height |-> 0], Journal)

JournalNote(f, n) ==
  [f EXCEPT !.notes = Append(@, Tracked(n.nf[2], n.value)),
            !.next_index = Max({@, n.nf[2] + 1})]

\* The last leaf that carries the commitment.
LeafIndexOf(leaves, n) ==
  LET at == {i \in DOMAIN leaves : leaves[i] = n} IN IF at = {} THEN 0 ELSE Max(at)

\* scan: resolve the journal against the rebuilt leaves.
Resolve(notes, leaves, nullifiers) ==
  [i \in DOMAIN notes |->
     LET n == SelfNote(notes[i].index, notes[i].value)
     IN [notes[i] EXCEPT !.leaf_index = LeafIndexOf(leaves, n),
                         !.spent = n.nf \in nullifiers]]

\* scan: outputs that decrypt to this wallet and are not in the journal.
Detect(notes, leaves, outputs, nullifiers) ==
  LET self_cms == {SelfNote(notes[j].index, notes[j].value) : j \in DOMAIN notes}
      found == {i \in outputs : Own(leaves[i]) /\ leaves[i] \notin self_cms}
  IN {[leaf_index |-> i, spent |-> leaves[i].nf \in nullifiers] : i \in found}

Spendable(notes) == {j \in DOMAIN notes : notes[j].leaf_index # 0 /\ ~notes[j].spent}

\* Larger first; equal values keep their order, journal before received.
ByValue(S) == SetToSortSeq(S, LAMBDA a, b :
                \/ a.note.value > b.note.value
                \/ a.note.value = b.note.value /\ a.key < b.key)

JournalInputs(m) ==
  {[note |-> SelfNote(m.notes[j].index, m.notes[j].value), key |-> j] :
     j \in Spendable(m.notes)}

SpendableInputs(m) ==
  ByValue(JournalInputs(m)
            \cup {[note |-> m.leaves[r.leaf_index], key |-> Len(m.notes) + r.leaf_index] :
                    r \in {x \in m.received : ~x.spent}})

Balance(m) ==
  FoldSet(LAMBDA x, acc : acc + x.note.value, 0, ToSet(SpendableInputs(m)))

Transfer(m, ins, outs) ==
  [inputs |-> ins, nullifiers |-> [i \in DOMAIN ins |-> ins[i].nf],
   outputs |-> outs, anchor |-> m.leaves]

\* pay: the two largest; nothing when they do not cover amount and fee.
Payments(m) ==
  LET ins == SpendableInputs(m)
  IN IF Len(ins) < 2 THEN {}
     ELSE LET total == ins[1].note.value + ins[2].note.value
              pair == <<ins[1].note, ins[2].note>>
          IN {Transfer(m, pair,
                <<Note(<<"pay", pair[1].nf, to>>, a, to),
                  SelfNote(m.next_index, total - a - SC_TX_FEE)>>) :
                a \in {x \in Amounts : x + SC_TX_FEE <= total}, to \in Recipients}

\* consolidate: the two largest of the journal into change and a reserve of 0.
Consolidations(m) ==
  LET ins == ByValue(JournalInputs(m))
  IN IF Len(ins) < 2 THEN {}
     ELSE LET total == ins[1].note.value + ins[2].note.value
          IN IF total < SC_TX_FEE THEN {}
             ELSE {Transfer(m, <<ins[1].note, ins[2].note>>,
                     <<SelfNote(m.next_index, total - SC_TX_FEE),
                       SelfNote(m.next_index + 1, 0)>>)}

\* commit: journal the outputs to self and mark the inputs of the journal spent.
Commit(m, tx) ==
  LET change == SelectSeq(tx.outputs, LAMBDA n : n.nf[1] = "self")
      spent == {n.nf[2] : n \in {x \in ToSet(tx.inputs) : x.nf[1] = "self"}}
      marked == [m EXCEPT !.notes =
                   [j \in DOMAIN @ |-> IF @[j].index \in spent
                                         THEN [@[j] EXCEPT !.spent = TRUE] ELSE @[j]]]
  IN FoldLeft(JournalNote, marked, change)

Saved(m) ==
  [notes |-> m.notes, next_index |-> m.next_index, scanned_height |-> m.scanned_height]

--------------------------------------------------------------------------------
(* One command.  cli.at: idle, scan (requests under way), scanned, posted.     *)

Idle == [at |-> "idle"]

\* The file as a command reads it: received notes are not kept.
Load == [notes |-> file.notes, next_index |-> file.next_index,
         scanned_height |-> file.scanned_height]

\* GET /state: the target of the scan.
StartScan ==
  /\ cli.at = "idle" /\ commands < MaxCommands
  /\ cli' = Load @@ [at |-> "scan", target |-> status, height |-> 1, leaves |-> <<>>,
                     nullifiers |-> {}, outputs |-> {}]
  /\ commands' = commands + 1
  /\ UNCHANGED <<nodeVars, sharedVars, file, foreign, losses>>

CollectBlock(acc, block) ==
  LET outs == Joined(LAMBDA tx : tx.outputs, block.transfers)
  IN [acc EXCEPT !.leaves = @ \o outs \o block.coinbase,
                 !.nullifiers = @ \cup ToSet(Nullifiers(block.transfers)),
                 !.outputs = @ \cup (Len(acc.leaves) + 1 .. Len(acc.leaves) + Len(outs))]

\* GET /block/at/{height}, from the archive as it is now.
BlockAt(height) == IF height \in DOMAIN archive THEN <<archive[height]>> ELSE <<>>

\* One request of the scan; a height the archive has not is skipped.
FetchBlock ==
  /\ cli.at = "scan" /\ cli.height <= cli.target.height
  /\ cli' = [FoldLeft(CollectBlock, cli, BlockAt(cli.height)) EXCEPT !.height = @ + 1]
  /\ UNCHANGED <<nodeVars, sharedVars, file, foreign, commands, losses>>

\* Mutant: the number of leaves is compared and the root is not.
SameCount(leaves, target) == Len(leaves) = Len(target.leaves)

Integrity(leaves, target) == leaves = target.leaves

Scanned(acc) ==
  LET notes == Resolve(acc.notes, acc.leaves, acc.nullifiers)
  IN [at |-> "scanned", notes |-> notes, next_index |-> acc.next_index,
      scanned_height |-> acc.target.height, leaves |-> acc.leaves,
      received |-> Detect(notes, acc.leaves, acc.outputs, acc.nullifiers),
      target |-> acc.target]

\* The whole chain was read: resolve it, or fail and leave the file alone.
FinishScan ==
  /\ cli.at = "scan" /\ cli.height > cli.target.height
  /\ cli' = IF Integrity(cli.leaves, cli.target) THEN Scanned(cli) ELSE Idle
  /\ UNCHANGED <<nodeVars, sharedVars, file, foreign, commands, losses>>

SaveScan ==
  /\ cli.at = "scanned"
  /\ file' = Saved(cli)
  /\ cli' = Idle
  /\ UNCHANGED <<nodeVars, sharedVars, foreign, commands, losses>>

\* pay or consolidate builds and posts; the API thread takes the admission view.
Post ==
  /\ cli.at = "scanned"
  /\ \E tx \in Payments(cli) \cup Consolidations(cli) :
       cli' = [at |-> "posted", m |-> [f \in DOMAIN cli \ {"at", "target"} |-> cli[f]],
               tx |-> tx, view |-> view]
  /\ UNCHANGED <<nodeVars, sharedVars, file, foreign, commands, losses>>

\* submit: what admission against the view taken before does to the pool.
Submit(verdict) == pool' = IF verdict = "new" THEN pool \cup {cli.tx} ELSE pool

\* The API thread admits and answers; the wallet commits and saves.
Answer ==
  /\ cli.at = "posted"
  /\ LET verdict == AdmitVerdict(pool, cli.view, cli.tx)
     IN /\ Submit(verdict)
        /\ file' = IF Admitted(verdict) THEN Saved(Commit(cli.m, cli.tx)) ELSE file
  /\ cli' = Idle
  /\ UNCHANGED <<nodeVars, archive, view, status, foreign, commands, losses>>

\* The response is lost, or the wallet dies before it saves.
AnswerLost ==
  /\ cli.at = "posted" /\ losses < MaxLosses
  /\ Submit(AdmitVerdict(pool, cli.view, cli.tx))
  /\ cli' = Idle
  /\ losses' = losses + 1
  /\ UNCHANGED <<nodeVars, archive, view, status, file, foreign, commands>>

ImportNote ==
  /\ cli.at = "idle" /\ commands < MaxCommands
  /\ \E v \in Imports : file' = AddNote(file, v)
  /\ commands' = commands + 1
  /\ UNCHANGED <<nodeVars, sharedVars, cli, foreign, losses>>

--------------------------------------------------------------------------------

Init ==
  /\ chain = Genesis
  /\ saving = 0 /\ included = {} /\ phase = "sync"
  /\ archive = <<>> /\ pool = {}
  /\ view = ViewOf(NewState)
  /\ status = StatusOf(Genesis, {})
  /\ file = NewFile
  /\ cli = Idle
  /\ foreign = 0 /\ commands = 0 /\ losses = 0

NodeNext ==
  \/ SyncBranch \/ NoSync \/ Record \/ Produce
  \/ RemoveIncluded \/ Evict \/ PublishAdmission \/ PublishStatus

WalletNext ==
  \/ StartScan \/ FetchBlock \/ FinishScan \/ SaveScan
  \/ Post \/ Answer \/ AnswerLost \/ ImportNote

Next == NodeNext \/ WalletNext

Spec == Init /\ [][Next]_vars

--------------------------------------------------------------------------------
(* Properties *)

\* The state is what the blocks of the chain make of the empty state, whatever was
\* rewound on the way (state.rs rollback).
StateIsReplay == chain.st = FoldLeft(ApplyBlock, NewState, chain.blocks)

\* Between two ticks the archive holds the canonical chain, reorganised with it: a
\* wallet that reads it then reads the published state (persist_one).
ArchiveIsChain == phase = "sync" => archive = chain.blocks

\* The sum of the owned notes of a published state that are unspent in it.
OwnedIn(target) ==
  FoldSet(LAMBDA i, acc : acc + target.leaves[i].value, 0,
          {i \in DOMAIN target.leaves :
             Own(target.leaves[i]) /\ target.leaves[i].nf \notin target.nullifiers})

\* A scan that succeeds shows the balance of the one state the node published when
\* it began, though its requests raced with blocks, reorganisations and other
\* payments: nothing is missed, nothing counted twice (WalletState::scan).
ScanIsPublished == cli.at = "scanned" => Balance(cli) = OwnedIn(cli.target)

\* What the producer selects from the pool always applies to the chain
\* (select_for_block, produce_one).
CandidateApplies == phase = "produce" => Extends(chain, Seal(chain.st, Candidate))
===============================================================================
