-------------------------------- MODULE HnChain --------------------------------
(***************************************************************************)
(* The hash-native node's chain (aegis-node/src/hn/chain.rs): fork-choice  *)
(* tree, canonical state, pools, block production and the block log, with  *)
(* crashes and restarts as bin/hn_node.rs performs them.                   *)
(*                                                                         *)
(* All calls run under one mutex, so a call is one step; a crash may fall  *)
(* between calls or tear the record a call is appending.  A block id is    *)
(* the position of the block in `nodes`: ids are hashes of the block and   *)
(* its parent id, so equal parent and equal block is the same id.          *)
(***************************************************************************)
EXTENDS HnLedger, Selection

CONSTANTS
  MaxBlocks,   \* bound on the blocks in the tree, genesis blocks included
  MaxCrashes,  \* bound on the crashes
  TornWrites,  \* may a crash leave part of a record at the end of the log
  FundTimes,   \* clock readings during create_genesis
  Stamps       \* pairs <<devnet height, timestamp>> a later block may have

ASSUME ChainAssumption ==
  /\ {MaxBlocks, MaxCrashes} \subseteq Nat
  /\ TornWrites \in BOOLEAN
  /\ FundTimes \subseteq Nat
  /\ Stamps \subseteq Nat \X Nat

VARIABLES
  mode,             \* "down" | "fund": in create_genesis | "run"
  nodes,            \* validated blocks: [parent, block, work]
  canonical_tip,    \* index into nodes; 0 is GENESIS_PARENT
  st,               \* HnState of the canonical branch
  mempool,
  mempool_pegouts,
  pegin_queue,
  mempool_nfs,      \* pending-nullifier index
  log,              \* hn_blocks.log: records [parent, block], or Torn
  confirmed,        \* deposits the node's own vault view confirms
  crashes

poolVars == <<mempool, mempool_pegouts, pegin_queue, mempool_nfs>>
treeVars == <<nodes, canonical_tip, st>>
vars == <<mode, treeVars, poolVars, log, confirmed, crashes>>

Record(parent, block) == [torn |-> FALSE, parent |-> parent, block |-> block]
Torn == [torn |-> TRUE]

--------------------------------------------------------------------------------
(* Fork choice over c = [nodes, tip, st] *)

EmptyChain == [nodes |-> <<>>, tip |-> 0, st |-> NewState]

Chain == [nodes |-> nodes, tip |-> canonical_tip, st |-> st]

\* The state at the end of every branch: its blocks applied in the order of
\* path_ids, root first, to a new state.
BranchStates(ns) ==
  LET state[i \in 0 .. Len(ns)] ==
        IF i = 0 THEN NewState ELSE ApplyBlock(state[ns[i].parent], ns[i].block)
  IN state

RebuildStateTo(ns, id) == BranchStates(ns)[id]

WorkOf(ns, id) == IF id = 0 THEN 0 ELSE ns[id].work

RegisterNode(ns, parent, block) ==
  Append(ns, [parent |-> parent, block |-> block,
              work |-> WorkOf(ns, parent) + block.sc_nbits])

\* An orphan or a duplicate is no error and no change.
Known(ns, parent, block) ==
  \/ parent \notin 0 .. Len(ns)
  \/ \E i \in DOMAIN ns : ns[i].parent = parent /\ ns[i].block = block

ParentState(c, parent) ==
  IF parent = c.tip THEN c.st ELSE RebuildStateTo(c.nodes, parent)

Accepts(c, parent, block) ==
  /\ ~ Known(c.nodes, parent, block)
  /\ ValidBlock(ParentState(c, parent), block)

Heavier(ns, parent, block, tip) ==
  WorkOf(ns, parent) + block.sc_nbits > WorkOf(ns, tip)

\* Mutant: a reorg applies the new tip to the state of the branch it abandons.
ForkChoiceReorgInPlace(c, parent, block) ==
  LET ns == RegisterNode(c.nodes, parent, block)
  IN IF parent = c.tip \/ Heavier(c.nodes, parent, block, c.tip)
     THEN [nodes |-> ns, tip |-> Len(ns), st |-> ApplyBlock(c.st, block)]
     ELSE [c EXCEPT !.nodes = ns]

\* fork_choice_ingest of an accepted block: extend the tip in place, or register
\* a competing block and reorg to it when its branch is strictly heavier.
ForkChoiceIngest(c, parent, block) ==
  LET ns == RegisterNode(c.nodes, parent, block)
  IN IF parent = c.tip
     THEN [nodes |-> ns, tip |-> Len(ns), st |-> ApplyBlock(c.st, block)]
     ELSE IF Heavier(c.nodes, parent, block, c.tip)
     THEN [nodes |-> ns, tip |-> Len(ns), st |-> RebuildStateTo(ns, Len(ns))]
     ELSE [c EXCEPT !.nodes = ns]

SetChain(c) ==
  /\ nodes' = c.nodes
  /\ canonical_tip' = c.tip
  /\ st' = c.st

\* Mutant: a block of a peer leaves the pool as it is.
KeepPool(pool, s) == pool

\* drop_conflicting_mempool: callers pass `mempool` only.
DropConflicting(pool, s) ==
  Picked(pool, {i \in DOMAIN pool : Inputs[pool[i].spend] \cap s.nullifiers = {}})

--------------------------------------------------------------------------------
(* The log *)

\* Mutant: a block that does not extend the tip is not written.
PersistCanonical(parent, block) ==
  log' = IF parent = canonical_tip THEN Append(log, Record(parent, block)) ELSE log

Persist(parent, block) == log' = Append(log, Record(parent, block))

\* read_log and the decode loop of open: a torn record breaks the framing, so
\* nothing behind it is read.
ReadLog(l) ==
  LET good == {n \in 0 .. Len(l) : \A i \in 1 .. n : ~ l[i].torn}
  IN SubSeq(l, 1, Max(good))

\* open: a readable record through fork choice again.
Reingest(c, r) ==
  IF Accepts(c, r.parent, r.block) THEN ForkChoiceIngest(c, r.parent, r.block) ELSE c

Replays(records) ==
  LET c[i \in 0 .. Len(records)] ==
        IF i = 0 THEN EmptyChain ELSE Reingest(c[i - 1], records[i])
  IN c

Replay(records) == Replays(records)[Len(records)]

--------------------------------------------------------------------------------
ClearedPools ==
  /\ mempool' = <<>>
  /\ mempool_pegouts' = <<>>
  /\ pegin_queue' = <<>>

Init ==
  /\ mode = "fund"
  /\ nodes = <<>>
  /\ canonical_tip = 0
  /\ st = NewState
  /\ mempool = <<>>
  /\ mempool_pegouts = <<>>
  /\ pegin_queue = <<>>
  /\ mempool_nfs = {}
  /\ log = <<>>
  /\ confirmed = {}
  /\ crashes = 0

\* One `fund` of create_genesis; the node serves after the last one.
Fund ==
  /\ mode = "fund"
  /\ \E ts \in FundTimes :
       LET block == AssembleGenesis(st, ts)
       IN /\ ValidBlock(st, block)
          /\ Persist(canonical_tip, block)
          /\ SetChain(ForkChoiceIngest(Chain, canonical_tip, block))
  /\ mode' = IF st.height + 1 = Len(GenesisAlloc) THEN "run" ELSE "fund"
  /\ UNCHANGED <<poolVars, confirmed, crashes>>

--------------------------------------------------------------------------------
(* Pools *)

Txs == [spend : Spend, root : ToSet(st.recent_roots)]

\* submit, from the API or from a peer's mempool.
Submit(tx) ==
  /\ mode = "run"
  /\ ValidateTx(st, tx, mempool_nfs)
  /\ mempool' = Append(mempool, tx)
  /\ mempool_nfs' = mempool_nfs \cup Inputs[tx.spend]
  /\ UNCHANGED <<mode, treeVars, mempool_pegouts, pegin_queue, log, confirmed,
                 crashes>>

SubmitPegout(tx) ==
  /\ mode = "run"
  /\ ValidateTx(st, tx, mempool_nfs)
  /\ Withdraw[tx.spend] > 0
  /\ mempool_pegouts' = Append(mempool_pegouts, tx)
  /\ mempool_nfs' = mempool_nfs \cup Inputs[tx.spend]
  /\ UNCHANGED <<mode, treeVars, mempool, pegin_queue, log, confirmed, crashes>>

\* queue_pegin of a claim confirmed_claims returned, dust left out.
QueuePegin(d) ==
  /\ mode = "run"
  /\ d \in confirmed
  /\ DepositAmount[d] > PegFee(DepositAmount[d])
  /\ d \notin st.used_pegins
  /\ d \notin ToSet(pegin_queue)
  /\ pegin_queue' = Append(pegin_queue, d)
  /\ UNCHANGED <<mode, treeVars, mempool, mempool_pegouts, mempool_nfs, log,
                 confirmed, crashes>>

\* The devnet grows or falls back, and the vault view with it.
ViewChanges(S) ==
  /\ mode = "run"
  /\ S # confirmed
  /\ confirmed' = S
  /\ UNCHANGED <<mode, treeVars, poolVars, log, crashes>>

--------------------------------------------------------------------------------
(* Blocks *)

\* ingest_block, from sync_from.
IngestBlock(parent, block) ==
  /\ mode = "run"
  /\ Len(nodes) < MaxBlocks
  /\ ToSet(block.pegins) \subseteq confirmed
  /\ Accepts(Chain, parent, block)
  /\ LET c == ForkChoiceIngest(Chain, parent, block)
     IN /\ Persist(parent, block)
        /\ SetChain(c)
        /\ mempool' = IF c.tip # canonical_tip THEN DropConflicting(mempool, c.st)
                                               ELSE mempool
  /\ UNCHANGED <<mode, mempool_pegouts, pegin_queue, mempool_nfs, confirmed,
                 crashes>>

\* What a peer's block may carry: nothing, a transfer, a peg-out or a peg-in.
PeerBodies(s) ==
  LET txs == [spend : Spend, root : ToSet(s.recent_roots)]
      body(t, o, i) == [txs |-> t, pegouts |-> o, pegins |-> i]
  IN {body(<<>>, <<>>, <<>>)} \cup {body(<<tx>>, <<>>, <<>>) : tx \in txs}
       \cup {body(<<>>, <<tx>>, <<>>) : tx \in txs}
       \cup {body(<<>>, <<>>, <<d>>) : d \in Deposit}

IngestAnyBlock ==
  \E parent \in 0 .. Len(nodes) :
    LET s == ParentState(Chain, parent)
    IN \E body \in PeerBodies(s), stamp \in Stamps :
         IngestBlock(parent, AssembleReward(s, body.txs, body.pegouts,
                                            body.pegins, stamp[1], stamp[2]))

ProposedBlock(stamp) ==
  AssembleReward(st, mempool, mempool_pegouts, pegin_queue, stamp[1], stamp[2])

\* produce_block_anchored.
Produce(stamp) ==
  /\ mode = "run"
  /\ Len(nodes) < MaxBlocks
  /\ LET block == ProposedBlock(stamp)
     IN /\ ValidBlock(st, block)
        /\ Persist(canonical_tip, block)
        /\ SetChain(ForkChoiceIngest(Chain, canonical_tip, block))
  /\ ClearedPools
  /\ mempool_nfs' = {}
  /\ UNCHANGED <<mode, confirmed, crashes>>

\* apply_block refuses the block the pools were moved into: they are gone, and
\* the nullifier index keeps their entries.
ProduceFails(stamp) ==
  /\ mode = "run"
  /\ ~ ValidBlock(st, ProposedBlock(stamp))
  /\ ClearedPools
  /\ UNCHANGED <<mode, treeVars, mempool_nfs, log, confirmed, crashes>>

--------------------------------------------------------------------------------
(* Crash and restart *)

Crash(tear) ==
  /\ mode # "down"
  /\ crashes < MaxCrashes
  /\ tear => TornWrites
  /\ log' = IF tear THEN Append(log, Torn) ELSE log
  /\ mode' = "down"
  /\ SetChain(EmptyChain)
  /\ ClearedPools
  /\ mempool_nfs' = {}
  /\ crashes' = crashes + 1
  /\ UNCHANGED confirmed

\* The log does not exist yet: create_genesis.
Bootstrap ==
  /\ mode = "down"
  /\ log = <<>>
  /\ mode' = "fund"
  /\ UNCHANGED <<treeVars, poolVars, log, confirmed, crashes>>

Open ==
  /\ mode = "down"
  /\ log # <<>>
  /\ mode' = "run"
  /\ SetChain(Replay(ReadLog(log)))
  /\ UNCHANGED <<poolVars, log, confirmed, crashes>>

Next ==
  \/ Fund
  \/ \E tx \in Txs : Submit(tx) \/ SubmitPegout(tx)
  \/ \E d \in Deposit : QueuePegin(d)
  \/ \E S \in SUBSET Deposit : ViewChanges(S)
  \/ IngestAnyBlock
  \/ \E stamp \in Stamps : Produce(stamp) \/ ProduceFails(stamp)
  \/ \E tear \in BOOLEAN : Crash(tear)
  \/ Bootstrap
  \/ Open

Spec == Init /\ [][Next]_vars
--------------------------------------------------------------------------------
(* Properties *)

Pending == mempool \o mempool_pegouts

\* Types of HnChain; the balances of its state never go below zero.
TypeOK ==
  /\ mode \in {"down", "fund", "run"}
  /\ canonical_tip \in 0 .. Len(nodes)
  /\ \A i \in DOMAIN nodes : nodes[i].parent \in 0 .. (i - 1) /\ nodes[i].work \in Nat
  /\ Pending \in Seq(TxType)
  /\ pegin_queue \in Seq(Deposit)
  /\ mempool_nfs \subseteq SpendableNotes
  /\ confirmed \subseteq Deposit
  /\ {st.pot, st.shielded_total} \subseteq Nat
  /\ crashes \in 0 .. MaxCrashes

\* The live state is the replay of the canonical branch, whether it was reached
\* in place, by a reorg, by production or by a restart (fork_choice_ingest fast
\* path against set_canonical).
StateIsBranch == st = RebuildStateTo(nodes, canonical_tip)

\* No validated branch carries more work than the canonical one.
HeaviestCanonical ==
  \A i \in DOMAIN nodes : nodes[i].work <= WorkOf(nodes, canonical_tip)

\* A restart at any moment rebuilds the tree, the tip and the state the node has
\* (open: "the block sequence IS the persisted state").
LogRebuildsTree ==
  mode # "down" => Replay(ReadLog(log)) = Chain

\* The live state is the replay of the canonical branch, and no validated branch has
\* more work.
CanonicalIsHeaviest == StateIsBranch /\ HeaviestCanonical

\* Two pending transactions never share a nullifier, and each one's nullifiers
\* are in the pending index (submit, submit_pegout).
PoolDisjoint ==
  /\ SpentBy(Pending) \subseteq mempool_nfs
  /\ \A i, j \in DOMAIN Pending :
       i # j => Inputs[Pending[i].spend] \cap Inputs[Pending[j].spend] = {}

\* No pending transfer spends a note the canonical branch has already spent,
\* after blocks of peers and reorgs too (drop_conflicting_mempool).
MempoolFresh == SpentBy(mempool) \cap st.nullifiers = {}

\* What waits in the pools can go into one block: no two transactions share a
\* nullifier and no transfer spends what the branch has spent.
PoolsAreSound == TypeOK /\ PoolDisjoint /\ MempoolFresh

===============================================================================
