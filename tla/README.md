# Aegis-USE: TLA+ models

Aegis is a shielded sidechain that is merge-mined with Ergo and bridges the USE
token to it. This directory models its nodes, ledgers, wallets, circuits, bridge
and settlement: what must stay true whatever order blocks, shares, Ergo headers,
requests, crashes and failing sources come in, and whatever a miner, a prover, a
settler or a seed makes up. Part of it is proved for every value of the
parameters. Paths below are relative to `src/`.

The repository holds two generations of the node that run side by side: the
*merge-mined* or *legacy* one (`aegis-node/src/*.rs`, curve-tree proofs) and the
*hash-native* one (`aegis-node/src/hn/`, `engine/`, binary `hn_node`). They share
only ideas.

## Inventory

Concurrency is coarse: each node keeps its state behind one lock or in one
thread, so a public call is atomic and what interleaves are calls, with the Ergo
node, the seeds, the peers and crashes in between. Where requests of one call
reach another process (wallet scans, `sync_from`, the seed tier, the bridge
commands) each request is a step.

| Component | State | Operations | Interacts with | What is hard | What makes it correct |
|---|---|---|---|---|---|
| Merge-mined fork choice, `mm_forkchoice.rs` | validated tree, pending shares, orphan buffer, dead verdicts, anchors, canonical tip | `ingest_share`, `ingest_body`, `record_anchor`, `is_final` | drives a linear `Chain` as cursor; fed by watch, seeds, producer | order of arrival, bytes the id does not commit to, a bounded undo ring, late reveals | tip depends on what was offered alone; nobody waits who need not; an approval is not undone |
| Linear chain and shielded state, `chain.rs`, `state.rs`, `mempool.rs` | blocks, undo ring, leaves, nullifiers, pot, pool | `try_extend`, `rollback_tip`, `admit`, `select_for_block` | cursor of the fork choice; API threads | exact rollback; views that are old when used | the state is the replay of the blocks; a candidate applies |
| Ergo follower, `ergo_follow.rs` | followed headers, best tip | `apply_header`, `settled_reference`, `settled_view` | read by watch, finality and minting | Ergo reorgs, lag | two nodes never disagree for good |
| Anchor watch, `anchor_watch.rs` | headers to rescan, commitments to resolve | `drive`, `settled_is_final` | follower, fork choice, archive and seeds | a pass that fails half way; commitments before their blocks; expiry | no commitment is lost; anchors are inclusions |
| Seed schedule, `fresh_sync.rs` | none of its own | `sync_one`, `sync_from_seeds` | seeds, fork choice | partial answers | witnesses count as work and nothing else |
| Archive and seed tier, `seed.rs` | bodies, canonical order, witnesses; one serving thread | `record_*`, pruning, the routes, the client's walk | node, other nodes | lying seeds, clients that stall, a lock held over I/O | withholds, never forges; nobody waits for ever |
| Merge-mined node, `node.rs`, `store.rs` | block log, witness log, all of the above | boot, tick, produce, persist, publish | everything | crash between block and witness | restart reaches what the logs prove |
| Legacy wallet, `aegis-wallet/` | journal file, notes | scan, pay, consolidate, import | API threads | lost answers, scans across blocks | balance is the published state's; no index twice |
| Legacy circuit, `aegis-crypto/` | none | prove, verify, encrypt | ledger, wallet | values modulo a large prime | value is conserved, only the holder spends |
| Legacy peg, `pegmint*.rs`, `contracts/` | receipts, vault, burns; minted set | lock, merge, refund, burn, redeem, mint | Ergo, follower | races between merge, refund and mint; reorgs | minted once, and only what the vault absorbed |
| Hash-native ledger, `hn/state.rs`, `hn/params.rs`, `hn/mint.rs` | note tree, nullifiers, root and DAA windows, pot, pool total, deposits, withdrawals | `validate_tx`, `apply_block`, `rollback` | called by the chain | value moved in several places of one block; rollback of windows | value is conserved, notes spent once, rollback exact |
| Hash-native chain, `hn/chain.rs` | block tree, tip, live state, three pools and an index, log | `submit`, `submit_pegout`, `queue_pegin`, `ingest_block`, `produce_block_anchored`, `open`, `create` | ledger, vault watch, peers, API | reorgs under the pools, failing production, torn log | live state is the tip's; log rebuilds it |
| Hash-native peers, `bin/hn_node.rs`, `hn/api.rs`, `hn/http_client.rs`, `hn/pegin_watch.rs` | chain mutex, scan cursor, deposits | poll, `sync_from`, `pull_mempool`, produce | each other, devnet | a mutex held over requests, devnet reorgs | followers end on the producer's chain |
| Hash-native wallet, `engine/wallet/` | notes, cursor | scan, pay, peg-out | node, in process or over HTTP | blocks between two requests | holds what is its own, spends it once |
| Spend circuit and note tree, `engine/src/spend/`, `engine/src/merkle.rs` | none | prove, verify, append | ledger, wallet | wrap-around in a small field | sound for any witness, complete for honest ones |
| Recursion, `engine/recursion/`, batch guest | none | aggregate, surface a digest | settlers | padding, columns the prover fills | one root proof names one list of entries |
| Epoch guest and settlement, `engine/src/epoch/`, `settlement/` | settled set, vault registers | `verify_epoch`, release | replays node blocks in a prover | the guest sees headers, the node has state | the vault settles what nodes accept, once |
| Devnet bridge, `bridge-tools/` | Ergo boxes, receipt files | mint, deploy, fund, deposit, release | devnet, live node | commands that race, dropped blocks | nothing released twice, nothing lost |
| Aux-PoW and difficulty, `auxpow.rs` (three copies), `daa.rs` (two) | none | `verify_share`, `next_nbits` | all chains | proofs without indices, clocks | each solve counts once; bounded change |

`PROJECT.json` lists the components with their status and the hazards with their
lines.

## Modules

    TipChoice <--refinement-- MmForkChoice <-- AnchorWatch <-- MCAnchorWatch            watch
        ^                        ^    ^           ^----------- AnchorWatchProofs
        |                        |    |--- MCMmForkChoice                       mm_tree, mm_finality
        |                        |-------- MmForkChoiceProofs <-- AnchorWatchProofs
        +--INSTANCE-- MmNode <-- MCMmNode --INSTANCE--> SeedTier                        mm_node
                        ^------- MmNodeProofs

    MmLedger <-- MmWallet <-- MCMmWallet --INSTANCE--> ShieldedTransfer     wallet, wallet_reuse
    PegContracts <-- PegIn <-- MCPegIn                                                  peg
                        ^------- PegInProofs

    HnLedger <-- HnChain <-- MCHnChain --> HnState --> HnLedger                         hn_chain
        ^           ^------- HnChainProofs ^------- HnStateProofs
        |------------------- HnLedgerProofs (extended by both)
        ^-- HnEpoch <-- HnSettlement <-- MCHnSettlement                                 settlement
               MCHnSettlement --INSTANCE--> BatchSettlement --> Aggregation, NoteTree
                              --INSTANCE--> DigestTable, DevnetBridge
    HnPeer <-- MCHnPeer                                                           hn_peer, hn_sync
    NoteTree <-- SpendCircuit <-- MCSpendCircuit --INSTANCE--> HnWallet                 spend
                                                 --INSTANCE--> AuxPowInputs --> AuxPow, Daa

    Selection, extended by AnchorWatch and HnChain; SelectionProofs by all proofs about them

Every module opens with what it takes as given. Throughout, hashes are injective:
an id, a digest or a root is a term over what it hashes, a set's or a sequence's
authenticated root is the set or the sequence. What stands outside the source
(the Ergo network, the group, the hash permutation, the proof systems) is marked
external in the map.

### Merge-mined node

**MmForkChoice** (`mm_forkchoice.rs`, with `chain.rs` as its cursor). An id is a
header hash, so the header tree is a constant: parent, path, work, timestamp and
every verdict the id commits to (`Fault`). What varies is the order of shares,
bodies and anchors, the bytes that arrive for a body (`"forged"` is a replaced
coinbase proof, which the id does not cover) and the wall clock. A public method
runs to its end: `phase` and `queue` cut `ingest_share` and `ingest_body` at the
iterations of `activate_ready_from` and keep other calls out until
`refresh_canonical`. `SwitchTo` is `switch_to`, the rebuild from genesis beyond
the undo ring included. `shares`, `offered` and `approved` only observe.

**TipChoice** is the promise: offers in any order, and a tip that is a function
of the set offered, ties included. `MmForkChoice!ImplementsTipChoice` maps `tip`
to `canonical` and `due` to a call in progress.

**AnchorWatch** (`anchor_watch.rs`, `ergo_follow.rs`, `fresh_sync.rs`) composes
the watch with the fork choice itself: it extends `MmForkChoice`, and each call
that `resolve_and_feed` or `sync_one` makes is one of its actions, queued in
`calls`. `WatchInit`, `WatchNext` and `WatchSpec` are the composition's. A drive is cut at its stages (`pass`), each with
the errors that end it early. Meanwhile the Ergo node moves to heavier tips
(`ErgoMoves`, at most `MaxReorg` deep) and blocks come to be served (`Serve`).
Both live lookups answer with the full block or nothing, so a header without its
body does not occur.

**MmNode** (`node.rs`, `store.rs`, `seed.rs`, `fresh_sync.rs`) is what surrounds
the fork choice: the two logs, the archive (`order` is `SeedCore.canonical`), the
ids the node has recorded, one tick's stages and the half-steps of `persist_one`.
The fork choice enters as `TC == INSTANCE TipChoice`, which `MmForkChoice`
implements. What a call does in memory only is one step, since a crash forgets it
in any case; each append is a step, which can be refused, cut short while the
node lives on, or cut short by the death of the process. A record is its id;
`Torn` is a record cut short.

**SeedTier** (`seed.rs`) is the archive as its clients see it: the one serving
thread with the archive's lock, the timeouts of its socket, and a client that asks
the configured seeds in turn, all but one of which answer anything they like.

**MmLedger** (`state.rs`, `chain.rs`, `mempool.rs`, `proof.rs`) holds no variables:
state, undo, admission, selection and `try_extend` are operators on records.
**MmWallet** (`node.rs`, `api.rs`, `aegis-wallet/`) puts the node thread, the API
threads and one wallet command at a time around it. The node adopts, produces,
archives and publishes in steps of their own (`phase`), and each request of a
scan (`cli.at`) is a step; an answer may be lost. **ShieldedTransfer**
(`aegis-crypto/src`) is the circuit that `MmLedger` takes as given: a transfer is
accepted when *some* assignment a party can make satisfies every constraint.

**PegContracts** (`contracts/es/*.es`) states the six contracts as predicates on
one transaction. **PegIn** (`pegmint.rs`, `pegmint_steps.rs`, `ergo_follow.rs`) is
the Ergo chain those contracts let happen, with a reorganisation, and a node that
follows it late and mints.

### Hash-native chain

**HnLedger** (`hn/state.rs`, `hn/params.rs`, `hn/mint.rs`) holds no variables:
`validate_tx`, `apply_block` and `rollback` are operators on a state record. A
note commitment is a token that says where the note comes from, its nullifier is
the same token. `BalanceAssumption` and `CircuitVerifies` state what the circuit
proves, which is what `SpendCircuit` checks. **HnState** runs the ledger alone,
with blocks that misstate what they move (`Lies`). **HnChain** (`hn/chain.rs`) is
the node around it: tree, tip, live state, pools, queue, index and log.
`BranchStates` is the state at the end of every branch, which is what
`rebuild_state_to` computes for one. `ViewChanges` is any answer of the vault watch.
`Crash` loses memory; `Open` replays.

**Selection** is `Vec::retain`, which the watch and the pool use.

**HnPeer** (`bin/hn_node.rs`, `hn/chain.rs`, `hn/http_client.rs`, `hn/api.rs`,
`hn/pegin_watch.rs`) is several processes, each one loop (`pc`), whose requests
wait for the peer's mutex or time out, and the devnet they watch.

**HnEpoch** (`engine/src/epoch/`, `bridge-tools/src/vault_epoch.rs`) is what the
guest proves and the vault demands, as operators. **HnSettlement** lets producers
make blocks `HnEpoch` and `HnLedger` judge, reorganises the chain under the
prover, keeps proofs and presents them late or twice. **Aggregation**
(`engine/recursion/`), **DigestTable** (`engine/recursion/src/digest.rs`) and
**BatchSettlement** (`settlement/methods/guest-settlement`) are the batch path;
**DevnetBridge** (`bridge-tools/src/main.rs`, `txbuild.rs`, `vault.rs`, `devnet.rs`,
`settlement/host`) is the single-withdrawal vault and its commands.

**SpendCircuit** (`engine/src/spend/monolith.rs` and its gadgets) is the
constraint system over a small field, with the honest witness beside every
witness a prover may try; **NoteTree** (`engine/src/merkle.rs`) its tree.
**HnWallet** (`engine/wallet/`) has a wallet in the node's process and one over
HTTP for the same seed. **AuxPow** and **Daa** are the checks of auxiliary proof
of work and the difficulty rule as operators; **AuxPowInputs** is the inputs they
are tried with and what they must decide.

## Runs

Components that share no state are checked side by side in one run: the MC module
EXTENDS one of them (`MCHnChain` both of its two), takes the others with `INSTANCE`, and
`part` says which of them behaves; a property of such a run that is a conjunction names
the components' own properties. The other parts keep their initial state, so their states do not multiply.

| Run | Asks | Bounds, and why they are enough |
|---|---|---|
| `mm_tree` | do dead verdicts and the orphan buffer stay right for every order, forged bodies and clock | 4 blocks: a fork below the tip whose one side is invalid and whose other is timestamped in the future; depth 3 gives grandchildren waiting for a dead or late block |
| `mm_finality` | does the fork choice implement `TipChoice`; is the cursor on the heaviest tip; is an approval stable | two branches of two that tie at both heights, two Ergo heights, undo ring of one, so that a switch by two rebuilds from genesis |
| `watch` | is any commitment lost; are anchors inclusions; is what is approved settled; is a served branch validated in the end | seven Ergo headers in a fork of depth three, a child committed before its parent, the same block committed twice; `K_LAG = N_MINT = MaxReorg = 2` with heights up to 4, so items expire, references settle and the follower can be cut off |
| `mm_node` | do crashes and failed writes leave logs that pair and boot; does a producer resume; is the first seed's chain reached. Seed tier: is anything forged taken; does anybody wait for ever | three own blocks, two of them siblings (a block made again after a crash), a seed's branch as long as the own one; two faults, so a second one meets what the first left. One lying seed before the honest one, every kind of request, one stalled stranger, two records written |
| `wallet` | is the ledger the replay of its blocks; is a scan the published state; does what is selected apply. Circuit: is value conserved, is only the holder able to spend | chain of three with reorganisations of two, undo depth two; three commands, one lost answer. Field of 11 with ranges of 4, so that values wrap; three mints, two transfers, two parties |
| `peg` | is what was minted absorbed, once; do nodes agree on a proof; does the vault hold what it should | locks with a usable or an unusable destination, a timeout the chain passes, one burn, one reorganisation, a follower up to two behind, a confirmation depth of three; three transactions, so any two of merge, refund and redeem follow a lock |
| `hn_chain` | live state, log, pools, fork choice. Ledger: value, notes, windows, exact rollback | five blocks, two of them genesis, so branches of different weight and length compete; two spends, one deposit, one crash. Windows of two and one, so entries slide out and back; five ways to misstate a block |
| `hn_peer` | does a follower end on the producer's chain, with its deposits | two nodes, either alone producing for a follower or asked by its producer; two devnet blocks, one replaced; one fault (timeout or restart) |
| `settlement` | does the vault settle only what nodes accept, and all that is ripe; is the seam the node's state; is each exit paid once; does a digest bind; does the bridge account | four blocks over three Ergo headers with one reorganisation and two kept receipts, windows of two. Batches of up to three exits, padded to four leaves, with repeated, misstated and foreign entries. Every filling of a digest table of two values over two field elements. Two withdrawals, two receipts, two blocks of the bridge's devnet |
| `spend` | is any accepted spend unsound; does every honest one prove. Wallet: notes, double spends, scans. Aux-PoW: shares, proofs, anchors, codec; difficulty | a tree of eight leaves filled one by one, amounts of two limbs over a field of 17 with the limbs 0, 1, 2 (the first out of range) and -1, two transactions. Two wallets of one seed over two blocks. All small inputs of `AuxPow` and `Daa` |
| `wallet_reuse` | does what is selected apply, after a lost answer and four payments | violated, see Findings |
| `hn_sync` | does `sync_from` return between two producers | violated, see Findings |

Deadlock is checked in `mm_tree`, `mm_finality`, `hn_chain` and `watch`; the other
models end where their bounds on blocks, commands or faults are used up, and their
cfg says so. Each property of a passing run has a mutant in `PROJECT.json`: a
mutation of one mapped definition, written beside it, that TLC refutes; so none of
them holds by the shape of the model.

**Fairness** is assumed where liveness is asked:

- `AnchorWatch`: `WF` of `Call`, `ForkChoiceStep` and of a pass step, succeeding or
  failing: `main.rs` ticks for ever and every call terminates. `SF` of `Rescan`,
  `Fetch` and `Apply`: a source that is asked on every tick is not down on all of
  them. Nothing is assumed of Ergo, of the seeds, or of what is served;
  `CommittedActivates` therefore speaks of branches that are served, and excepts
  those of which a commitment left the window.
- `MmNode`: `WF` of `Boot \/ BootRefused`, `PersistBlock` and `PersistWitness`: the
  process is started again and a call ends. `SF` of `SyncFrom(FirstSeed, {})`: the
  schedule runs on every tick, so if a full pass over the first seed is possible
  again and again, one of them happens. `FollowsFirstSeed` speaks of a seed that in
  the end stays on one tip.
- `SeedTier`: `WF` of the server thread, of the node's write and of the client: threads
  are scheduled, and a socket that stalls times out (`seed.rs` sets both timeouts).
  Nothing is assumed of strangers.
- `HnPeer`: `WF` of every node's loop and of the devnet: both run for ever. `SF` of
  a poll, of production and of a peer's two answers: they are tried on every turn of the
  loop, and a mutex that is free again and again is had in the end. Nothing is
  assumed of faults, which are bounded. `Converges` asks that following leads to
  one node, since nodes that follow each other may time out for ever, each with
  its chain locked while it asks the other.

## Findings

1. `wallet_reuse`: a payment's change is journalled only after the node has answered
   (`aegis-wallet/src/main.rs:249-250`). After a lost answer the next command uses the
   derivation index again, which makes two leaves with one nullifier; a payment that
   spends both names that nullifier twice, `admit` does not compare the two
   (`mempool.rs:134`), and every candidate with it is refused by the ledger.
2. `hn_sync`: `sync_from` (`hn/chain.rs:227`) fetches from its own block count. On a
   branch that forks below it the fetched blocks are orphans, the count does not
   move, and the loop goes on for ever with the chain mutex held.

The following disagreements between code and docs were met while modelling. The
properties of the passing runs are stated so as to hold in spite of them.

- The first bytes offered for a waiting body shut out the genuine ones
  (`mm_forkchoice.rs:285`), so with forged bodies the tree depends on the order of
  arrival, against `mm_forkchoice.rs:21`. `ImplementsTipChoice` is checked with
  genuine bodies.
- A commitment whose block nobody serves is not pending weight (`anchor_watch.rs:640`),
  so `is_final` does not charge it, against `dev-docs/sidechain/p2p.md:403`.
- An Ergo reorg below the followed tip leaves the follower on an unknown parent
  (`anchor_watch.rs:483`).
- `record_canonical` takes any accepted block for canonical (`seed.rs:236`): a branch of
  equal work synced from a seed pushes the node's own chain out of the order that a
  restart replays, against `store.rs:15`. `SoloResumes` and `FollowsFirstSeed` are
  what remains true.
- A record torn by a crash is skipped and not cut off (`hn/chain.rs:668`), so what is
  appended behind it is unreadable at the next restart. `HnChain` has the behaviour
  (`TornWrites`); `hn_chain` leaves it out.
- A refused production loses the pools and keeps their nullifiers indexed
  (`hn/chain.rs:565`), against `hn/chain.rs:442`.
- Deposits at the devnet's tip that are replaced are minted all the same
  (`hn/pegin_watch.rs:126`): heights are scanned once, and deposits never removed.
- A scan over HTTP sets its cursor to an output count of a later moment than its
  outputs (`engine/wallet/src/wallet.rs:149`) and may miss notes of the block in
  between; `ScanFinds` is about wallets in the node's process.
- The fee of a lock transaction is credited to the pot once for every receipt of the
  transaction (`pegmint_steps.rs:568`).
- `verify_pegmint` inside `try_extend` cannot defer, so nodes at different depths of
  Ergo may disagree, as `chain.rs:106` itself warns; `VerdictAgrees` is about
  `verify_pegmint_full`.
- The guest settles whole blocks and wants every withdrawal in them `pegout_delay` old,
  so more than `MAX_BATCH` withdrawals without a gap of that length are never settled
  (`bridge-tools/src/vault_epoch.rs:86`); and a producer whose clock runs backwards makes
  blocks that nodes accept and the guest refuses (`hn/chain.rs:623`). `RipeSettles`
  offers no such stretch and asks that the clock runs.
- The follower never sees a header that is not a child of its tip, and `unscanned`
  never holds two headers.

## Proofs

`MmForkChoiceProofs` proves for every block tree, retention depth, set of faults,
clock and number of shares:

- `DeadCorrect`, `WakeUpCorrect`, `CursorCorrect`, `HeaviestCorrect`,
  `FinalityCorrect`: the invariants `mm_tree` and `mm_finality` check;
- `TypeCorrect` and `TreeCorrect`: types, and that every node carries the exact work
  of its branch;
- `IndCorrect`: `IndInv`, the inductive invariant they are parts or consequences of.

The induction goes in layers, each resting on the ones before: types and cursor
(`TypeInit`, `TypeStep`), tree and dead verdicts (`TreeDeadStep`), the work list
(`ReadyStep`), the tip (`TipStep`), approvals (`FinalStep`); each step lemma has one
step per action. Below them are lemmas on paths, on total work, on `ForkIndex` and
`SwitchTo`, and on partial maps.

Assumed are the named assumptions of `MmForkChoice` only: the headers form a
finite tree rooted at genesis whose paths are prefix-closed, work is positive and
`SumWork` is additive, ids are ordered, parameters have their types.

Why `IndInv` is stronger than what it proves. `CursorOnTip`, `HeaviestTip` and
`NoReadyLeftBehind` speak of the moment a call returns; in the middle of a call
the cursor may stand on any branch. `CursorInv` says it always stands on exactly
one, which is what makes `SwitchTo` land on its target however it got there
(`SwitchToArrives`). `QueueInv` says that a block that is ready is still in the
work list. `FinalityStable` says nothing between the approval and a reorg, so
`ApprovalInv` carries the accounting of `is_final` along: below every approved
block there is a node whose lead over any branch outside the approved subtree is
`L_FINAL` plus all pending work known at the approval that is still pending, less
the branch's own work first heard of later. Activating a pending block moves
work from one term to another; a dead verdict only removes some.

`MmNodeProofs` proves for every block tree, every set of seeds and any bound on
crashes and failed writes, from `NodeAssumption` alone (the headers form a tree,
a torn record is not a block):

- `PairedCorrect` and `BootCorrect`: `LogsPaired` and `CrashNeverRefuses`, which
  `mm_node` checks;
- `LogCorrect`: `LogInv`, the inductive invariant behind them.

Neither property is inductive: that a witness is only appended behind its block
rests on `recorded` being no more than the block log holds, and that a log has no
two records of a block on it being no less. `RecordedInv` is the second half, kept
through failed writes, which mark a block as recorded and leave it off the disk;
`CleanInv` is the first, and that a running node's logs have no torn record, so a
crash in an append leaves at most one, at the end. Below are lemmas on one record
more (`AppendLog`, `AppendedLog`) and on what `read_records` keeps
(`CompletePrefix`, `CompleteLog`: the first torn record exists by well-foundedness).

The same module proves that the fork choice implements `TipChoice`, the property
`mm_finality` checks:

- `ChoiceImplemented`: every behaviour in which no body is dropped for a reason that
  may pass (`NoTransientRejection`) implements it. The proviso is needed: a body that
  was refused for its clock, or whose bytes were forged, is gone while its offer stands
  (see Findings);
- `GenuineChoiceImplemented`: if bodies are genuine and timestamps within the drift
  bound, every behaviour does. `mm_finality` runs under this hypothesis;
- `TipDecided`: between calls the tip is the one block the offers decide, so nodes that
  were offered the same stand on the same tip in whatever order it came.

The refinement mapping is `tip` to `canonical` and `due` to a call in progress. The
step needs that when a call returns the validated blocks are exactly those supported by
the offers: `OfferInv` says that what was offered is validated, dead, or still held, and
by `QueueInv` nothing that is ready is left behind.

`AnchorWatchProofs` proves the invariants of `watch` for every Ergo tree, page size,
window and number of failures:

- `WatchDrivesForkChoice`: `WatchSpec` implies the `Spec` of `MmForkChoice`, so each
  theorem about the fork choice holds under watch, follower and seed schedule;
- `CommitmentsCorrect`: `CommitmentsKept`, that no commitment falls between the buffers;
- `AnchorInclusionCorrect`: `AnchorIsInclusion`;
- `ApprovedSettledCorrect`: `ApprovedIsSettled`, if Ergo never reorganises by more than
  `N_MINT` headers (`MaxReorg <= N_MINT`). A deeper reorg takes an approved inclusion
  away, which is what the constant is for.

`BufferInv` has the types of the buffers and of the calls in progress, and that a header
in them is followed. `FollowInv` says that the followed headers are one chain, the tip's:
a batch starts above the tip, so a header that is accepted is a child of it. An anchor
then stays on the chain of the tip. The followed chain need not be a prefix of Ergo's;
but what lies `MaxReorg` or more below a header the node has fetched is on Ergo's chain
and stays there, and `SettledInv` says that each approval has its inclusion that deep. Below is
`SelectionProofs`, on what `retain` keeps, with induction over the naturals stated for
sets (`UpTo`), which the provers can use.

`HnLedgerProofs` has the lemmas on `apply_block` and `rollback` as operators: types,
`RollbackUndoes` (rolling back what was applied gives the state back, windows
included), `NotesApply` (no note twice, spent notes are in the tree), and sums over
lists. `HnStateProofs` proves, for every length of the chain, size of the blocks and of
the windows, and every claim a block may make:

- `LedgerRollsBackCorrect`: `LedgerRollsBack`;
- `LedgerConservesCorrect`: `LedgerConserves`, with its parts `LedgerTypeCorrect` (no
  balance below zero) and `NotesUniqueCorrect` as theorems of their own.

`Bounded` (the model's bounds have their types) and `NbitsPositive` (`next_nbits` answers
a positive number, `daa.rs` ends in `max(1)`) are hypotheses, `LedgerAssumption` and
`BalanceAssumption` (what the circuit proves) assumptions of `HnLedger`. A rollback
restores a state that is no longer there to reason about, so `HistoryInv` speaks of all
states of the live branch: each is well typed, each undo record leads from one to
the one before, each has the window of its own prefix, and each conserves.
`NotesOk` says that a spend whose output is in the tree has its inputs spent, which makes
the leaves of a valid block new although nothing in `apply_block` compares them.
`MoneyOk` adds that notes have the values their origin fixes: the spends of a block then
take from the unspent notes what their outputs and fees are worth (`SpendAll`, one spend
at a time), the new leaves bring outputs, mints and coinbase (`LeavesWorth`), and the
difference is what `ShieldedNext` books without seeing a value.

`HnChainProofs` proves, for every tree of blocks and any number of crashes:

- `CanonicalIsHeaviestCorrect`: `CanonicalIsHeaviest`, torn records included;
- `LogRebuildsTreeCorrect`: `LogRebuildsTree`, if no write is torn (see Findings);
- `PoolsAreSoundCorrect`: `PoolsAreSound`.

A branch is rebuilt by replaying it, so `TreeInv` (its part `ChainOk`) ties every node's
state and work to its parent's by `BranchStates`, whose entries do not change when a node
is added. That
the tip is heaviest needs positive work: in the fast path a block extends the tip
without a comparison. A restart runs the same steps over the log (`Replays`), so the
invariant holds of every prefix of a replay, and `LogInv` says that the log's is the
node's own chain. `PoolInv` carries what the pools spend against the index and the
canonical state.

`PegInProofs` proves, for every set of wallets, burns and destinations, any number of
blocks, transactions and reorganisations, and whatever headers a proof shows:

- `VerdictAgreesCorrect`: `VerdictAgrees`;
- `MintedIsAbsorbedCorrect`: `MintedIsAbsorbed`;
- `VaultLedgerCorrect`: the first half of `VaultIsAccounted`, the vault's balance;
- `VaultIsAccountedCorrect`: all of it.

The first two are under the hypothesis `DeepEnough`, `MaxReorg + FollowerLag <= N_MINT`: what
`pegmint.rs` calls buried is deeper than Ergo reorganises and than a follower on a lost
branch is behind. A follower on the best chain may be behind at will. The run has
`MaxReorg = 1`, `FollowerLag = 2`, `N_MINT = 3`, where it holds with nothing to spare.

`Chains` says that the three chains are built of blocks at their own heights whose
outputs keep the shapes of the contracts (`TxIsShaped`, one lemma for each kind of
transaction), that blocks of one id are one block, that fork numbers only grow along
the best chain, and that a follower agrees with Ergo but for its last `MaxReorg` blocks,
unless it is within its lag. Then the settled part of what a follower has is Ergo's
(`SettledAlike`), so nodes that do not defer judge by one view (`ViewsAlike`).
`Minting` says that the anchor lies under every later reorganisation, that every leaf
is backed by a lock and a merge as deep as that (`Backed`; `MintedIsAbsorbed` alone
would not survive a reorganisation), that the used set is the leaves' ids, and that each
undo record names what its block added (`Undoable`), which is what a rollback takes away
and nothing else. Sums over sets of boxes are `SumFunction` of the community modules;
`SumsExist` gives its unfolding by least counterexample, without an induction theorem.

The vault needs no depth. `VaultLedgerCorrect` has no hypothesis;
`VaultIsAccountedCorrect` has one, `"garbage33" \notin Dests`, which the run's
destinations meet too: `DepositReceipt.es:73` lets the vault absorb a receipt whose
destination is any 33 bytes, and `state.rs:284` mints only to a point of the curve, so a
receipt that names something else of that length is absorbed and never minted. The
balance holds with such receipts as well. The invariant is `Lawful`: every block of the
best chain holds a transaction that the unspent boxes of the chain below allowed, which a
new block and a new branch both keep. `Good` then climbs the chain block by block
(`LawfulIsGood`): what is spent was made (`Refers`), there is one vault and one redeemed
set, and they satisfy the ledger (`Holding`). A step is one lemma for each kind of
transaction: five are `Calm`, they touch neither box (`BystanderKeeps`); a merge pays in
exactly what it absorbs, no receipt counted twice, because the vault's script compares
amounts and an unsigned receipt must be readable (`MergePays`); a payout pays one burn
that the redeemed set did not hold (`PayoutPays`). That the sums of the contract, over a
list of inputs, are sums over sets of boxes is `MergedWorth`.

Only model-checked: what the provers cannot reach. Liveness, fairness and `ENABLED`
stay with TLC. So do `NodeResumes` of `MmNode`, the legacy ledger and wallet, and the
hash-native settlement, bridge and wallet: much of what they compute is a fold of an
operator over a list or a set, whose value for every input the provers cannot derive
before it is written as a recursive function, as it is in `HnLedger` and `HnChain`. The
circuits (`SpendsAreSound`, `DigestBinds`) are claims about all witnesses over one small
field, and aux-PoW and difficulty (`AuxPow` has `RECURSIVE` operators) about all small
inputs; there TLC enumerates what a proof would have to argue.

## Not modelled

Wire encodings and constants, key storage and address text, JSON, telemetry and the
template server, the injection of constants into the contracts, vendored code. What
cryptography promises is assumed: Poseidon2 and Blake2b are injective, the curve-tree
membership proof, FRI, the STARK configurations and the zkVM are sound. Within the
modelled parts:

- errors the code treats as unreachable (a rebuild that fails in `switch_to`);
- changing Ergo difficulty, and an Ergo header whose extension never authenticates:
  such a header ends every pass of the watch before new ones are fetched
  (`anchor_watch.rs:480`), which the fairness of `AnchorWatch` excludes;
- u64 width in the ledgers, whose checks use unbounded integers: `ValidReward`
  refuses the negative total that the producer of `hn/chain.rs:495` would compute
  before it is refused, and the wallet's `amount + fee` (`engine/wallet/src/wallet.rs:231`),
  which nothing checks, cannot wrap;
- a crash between the records that `create_genesis` appends (`hn/chain.rs:117`):
  `HnChain` lets it happen, and what follows is a node whose genesis lacks
  allocations, which no property forbids;
- the panic of `build_spend_trace_with_paths` (`spend/monolith.rs:546`) when a block lands
  between the wallet's queries for root and paths: `HnWallet` ends the call there;
- disk corruption other than an append cut short;
- several seeds that disagree in one walk of `chain_page` (`seed.rs:1058`): the first
  that answers decides, so `FollowsFirstSeed` promises the first seed's chain only;
- a seed's witness is bound to its id by its header alone (`seed.rs:953`):
  `WithholdNeverForge` promises no more of it, and the fork choice's caller checks the rest.

## Plan

1. Theorems: `PaidOnce` of `DevnetBridge`, under the hypothesis that one vault NFT is
   minted (in the run the wallet's two boxes allow no second that deploys);
   `OwnTxsDisjoint` of `HnWallet`; `SoloResumes` of `MmNode`, once its replay is a
   recursive function.
2. `MmNode` with two seeds that disagree, composed with `SeedTier`.
3. `RipeSettles` with producers whose clocks run backwards, once the code decides
   which side is to yield.
