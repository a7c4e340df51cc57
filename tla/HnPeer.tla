-------------------------------- MODULE HnPeer ---------------------------------
(***************************************************************************)
(* Several hn-node processes and the devnet they watch (bin/hn_node.rs):   *)
(* each runs one loop that polls the vault watch, queues confirmed         *)
(* deposits, syncs blocks and pulls the mempool of its peer, and produces. *)
(* The loop holds the chain mutex while it waits for the peer, whose API   *)
(* thread answers only when it gets its own chain's mutex                  *)
(* (hn/chain.rs, hn/http_client.rs, hn/api.rs, hn/pegin_watch.rs).         *)
(*                                                                         *)
(* Of a block only its parent and its peg-ins matter here; work is counted *)
(* in blocks (HnChain has weights, state and the log).  External: the      *)
(* devnet, a chain that may replace its last block, and the network.       *)
(***************************************************************************)
EXTENDS Integers, Sequences, FiniteSets, SequencesExt

CONSTANTS
    Node,
    Peers,           \* the ways --peer-url may be set: the node a node
                     \* follows, or itself for none
    Producers,       \* the nodes with --produce
    Confirmations,   \* pegin_confirmations
    Deposits,        \* boxes paid to the vault on the devnet
    MaxDev, MaxBlocks, MaxFaults   \* bounds of the model

ASSUME PeerAssumption ==
    /\ Peers \subseteq [Node -> Node] /\ Producers \subseteq Node
    /\ {Confirmations, MaxDev, MaxBlocks, MaxFaults} \subseteq Nat

VARIABLES
    Peer,      \* the --peer-url of every node
    dev,       \* the devnet's best chain: [height, fork, box]
    devAll,    \* every block the devnet ever served at some height
    watch,     \* VaultWatch: cursor, deposits, latest_height
    blocks,    \* every block made: [parent, pegins], named by its position
    known,     \* the blocks in a node's tree
    branch,    \* HnChain.blocks: a node's canonical branch
    queue,     \* HnChain.pegin_queue
    pc,        \* where the loop of a node stands
    faults     \* restarts of nodes and lost blocks of the devnet so far

devVars == <<Peer, dev, devAll>>
chainVars == <<blocks, known, branch>>
vars == <<devVars, watch, chainVars, queue, pc, faults>>

-----------------------------------------------------------------------------
(* The devnet *)

Paid == {b.box : b \in ToSet(dev)}

MineDev ==
  \E box \in (Deposits \ Paid) \union {"none"} :
    LET b == [height |-> Len(dev) + 1, fork |-> 0, box |-> box]
    IN  /\ Len(dev) < MaxDev
        /\ dev' = Append(dev, b) /\ devAll' = devAll \union {b}
        /\ UNCHANGED <<Peer, watch, chainVars, queue, pc, faults>>

ForkDev ==
  LET b == [height |-> Len(dev), fork |-> 1, box |-> "none"]
      c == [height |-> Len(dev) + 1, fork |-> 1, box |-> "none"]
  IN  /\ faults < MaxFaults /\ dev # <<>> /\ Len(dev) < MaxDev /\ Last(dev).fork = 0
      /\ dev' = Front(dev) \o <<b, c>>
      /\ devAll' = devAll \union {b, c}
      /\ faults' = faults + 1
      /\ UNCHANGED <<Peer, watch, chainVars, queue, pc>>

-----------------------------------------------------------------------------
(* VaultWatch *)

NewWatch == [cursor |-> 1, deposits |-> {}, latest |-> 0]

(* /blocks/at/h lists every block the devnet node knows at h. *)
FoundAt(h) == {[box |-> b.box, height |-> b.height] :
                 b \in {d \in devAll : d.height = h /\ d.box # "none"}}

(* The entry of a box already seen is left as it is. *)
Insert(deposits, found) ==
  deposits \union {f \in found : \A d \in deposits : d.box # f.box}

ScannedFromTip(w, upto) ==
  [cursor |-> upto + 1, latest |-> Len(dev),
   deposits |-> IF upto < w.cursor THEN w.deposits
                ELSE Insert(w.deposits, FoundAt(upto))]

Scanned(w, upto) ==
  LET seen[h \in 0 .. upto] ==
        IF h < w.cursor THEN w.deposits ELSE Insert(seen[h - 1], FoundAt(h))
  IN  [cursor |-> upto + 1, deposits |-> seen[upto], latest |-> Len(dev)]

(* confirmed, confirmed_claims: the depth counts the deposit's own block. *)
Confirmed(w, box) ==
  \E d \in w.deposits : d.box = box /\ w.latest - d.height + 1 >= Confirmations

-----------------------------------------------------------------------------
(* HnChain *)

Tip(b) == IF b = <<>> THEN 0 ELSE Last(b)

(* path_ids *)
Path(id) ==
  LET path[i \in 0 .. Len(blocks)] ==
        IF i = 0 THEN <<>> ELSE Append(path[blocks[i].parent], i)
  IN  path[id]

Minted(b) == UNION {blocks[b[i]].pegins : i \in DOMAIN b}

(* What one block of a batch does to c = [known, branch, ok]. *)
PegInsConfirmed(n, id) == \A box \in blocks[id].pegins : Confirmed(watch[n], box)

Applies(parentBranch, id) == blocks[id].pegins \intersect Minted(parentBranch) = {}

IngestBlock(n, c, id) ==
  LET parent == blocks[id].parent
      base   == Path(parent)
  IN  CASE ~c.ok -> c
        [] c.ok /\ ~PegInsConfirmed(n, id) -> [c EXCEPT !.ok = FALSE]
        [] c.ok /\ PegInsConfirmed(n, id)
                /\ (id \in c.known \/ parent \notin c.known \union {0}) -> c
        [] OTHER ->
             IF ~Applies(base, id) THEN [c EXCEPT !.ok = FALSE]
             ELSE [known  |-> c.known \union {id},
                   branch |-> IF Len(base) + 1 > Len(c.branch)
                              THEN Append(base, id) ELSE c.branch,
                   ok     |-> TRUE]

(* The batch stops at a block that is invalid or not yet confirmed. *)
IngestBatch(n, batch) ==
  FoldLeft(LAMBDA c, id : IngestBlock(n, c, id),
           [known |-> known[n], branch |-> branch[n], ok |-> TRUE], batch)

SetChain(n, c) ==
  /\ known' = [known EXCEPT ![n] = c.known]
  /\ branch' = [branch EXCEPT ![n] = c.branch]
  /\ UNCHANGED blocks

-----------------------------------------------------------------------------
(* The loop of a node *)

(* The main thread holds the chain mutex across its requests to the peer. *)
Locked(n) == pc[n] \in {"count", "blocks", "gossip"}

Waiting(n) == Locked(n) /\ Locked(Peer[n])

Goto(n, label) == pc' = [pc EXCEPT ![n] = label]

(* One pass up to the sync, with the chain mutex taken only for moments:    *)
(* poll as many heights as the devnet answers, queue_pegin every confirmed *)
(* claim.                                                                  *)
PollGives(n, w) ==
  /\ pc[n] = "poll"
  /\ watch' = [watch EXCEPT ![n] = w]
  /\ queue' = [queue EXCEPT ![n] =
                 IF n \in Producers
                 THEN @ \union {box \in Deposits : /\ Confirmed(w, box)
                                                  /\ box \notin Minted(branch[n])}
                 ELSE @]
  /\ Goto(n, IF Peer[n] = n THEN "produce" ELSE "count")
  /\ UNCHANGED <<devVars, chainVars, faults>>

Poll(n) == PollGives(n, Scanned(watch[n], Len(dev)))

PollStops(n) ==
  \/ \E upto \in watch[n].cursor - 1 .. Len(dev) - 1 : PollGives(n, Scanned(watch[n], upto))
  \/ PollGives(n, watch[n])

(* sync_from: the peer's block count, then its blocks from our own count. *)
Enough(n) == Len(branch[n]) >= Len(branch[Peer[n]])

CountAnswer(n) ==
  /\ pc[n] = "count" /\ ~Locked(Peer[n])
  /\ Goto(n, IF Enough(n) THEN "gossip" ELSE "blocks")
  /\ UNCHANGED <<devVars, watch, chainVars, queue, faults>>

BlocksSince(p, from) == SubSeq(branch[p], from + 1, Len(branch[p]))

BlocksAnswer(n) ==
  LET batch == BlocksSince(Peer[n], Len(branch[n]))
      c     == IngestBatch(n, batch)
  IN  /\ pc[n] = "blocks" /\ ~Locked(Peer[n])
      /\ SetChain(n, c)
      /\ Goto(n, IF batch = <<>> \/ ~c.ok THEN "gossip" ELSE "count")
      /\ UNCHANGED <<devVars, watch, queue, faults>>

(* pull_mempool *)
GossipAnswer(n) ==
  /\ pc[n] = "gossip" /\ ~Locked(Peer[n])
  /\ Goto(n, "produce")
  /\ UNCHANGED <<devVars, watch, chainVars, queue, faults>>

(* A request times out when the peer's mutex is not released in time: the *)
(* peer itself waits for a locked node.  No answer reads as none. *)
Timeout(n) ==
  /\ Waiting(n) /\ Waiting(Peer[n])
  /\ Goto(n, IF pc[n] = "gossip" THEN "produce" ELSE "gossip")
  /\ UNCHANGED <<devVars, watch, chainVars, queue, faults>>

(* produce_block_anchored: the queue is taken whether or not the block *)
(* applies. *)
Produce(n) ==
  LET id == Len(blocks) + 1
  IN  /\ pc[n] = "produce" /\ n \in Producers /\ Len(blocks) < MaxBlocks
      /\ queue' = [queue EXCEPT ![n] = {}]
      /\ IF queue[n] \intersect Minted(branch[n]) = {}
         THEN /\ blocks' = Append(blocks, [parent |-> Tip(branch[n]), pegins |-> queue[n]])
              /\ known' = [known EXCEPT ![n] = @ \union {id}]
              /\ branch' = [branch EXCEPT ![n] = Append(@, id)]
         ELSE UNCHANGED chainVars
      /\ Goto(n, "poll")
      /\ UNCHANGED <<devVars, watch, faults>>

(* No --produce, or the devnet gives no anchor. *)
SkipProduce(n) ==
  /\ pc[n] = "produce"
  /\ Goto(n, "poll")
  /\ UNCHANGED <<devVars, watch, chainVars, queue, faults>>

(* open replays the log to the same branch; the watch starts over. *)
Restart(n) ==
  /\ faults < MaxFaults
  /\ faults' = faults + 1
  /\ watch' = [watch EXCEPT ![n] = NewWatch]
  /\ queue' = [queue EXCEPT ![n] = {}]
  /\ Goto(n, "poll")
  /\ UNCHANGED <<devVars, chainVars>>

Init ==
  /\ Peer \in Peers
  /\ dev = <<>> /\ devAll = {}
  /\ watch = [n \in Node |-> NewWatch]
  /\ blocks = <<>>
  /\ known = [n \in Node |-> {}] /\ branch = [n \in Node |-> <<>>]
  /\ queue = [n \in Node |-> {}]
  /\ pc = [n \in Node |-> "poll"]
  /\ faults = 0

Loop(n) ==
  \/ Poll(n) \/ PollStops(n)
  \/ CountAnswer(n) \/ BlocksAnswer(n) \/ GossipAnswer(n) \/ Timeout(n)
  \/ Produce(n) \/ SkipProduce(n)

Next ==
  \/ MineDev
  \/ ForkDev
  \/ \E n \in Node : Loop(n) \/ Restart(n)

(* The loop of a node goes on; a request whose peer releases its mutex over *)
(* and over is answered; the devnet answers a poll and gives an anchor now  *)
(* and then, and grows. *)
Fairness ==
  /\ WF_vars(MineDev)
  /\ \A n \in Node :
       /\ WF_vars(Loop(n))
       /\ SF_vars(Poll(n)) /\ SF_vars(Produce(n))
       /\ SF_vars(CountAnswer(n)) /\ SF_vars(BlocksAnswer(n))

Spec == Init /\ [][Next]_vars /\ Fairness

-----------------------------------------------------------------------------
(* Properties *)

(* sync_from returns: a node that asks its peer for blocks gets back to its *)
(* own work, and releases the chain mutex its API needs. *)
SyncReturns == \A n \in Node : (pc[n] = "count") ~> (pc[n] = "produce" \/ pc[n] = "poll")

(* Following leads every node to one that follows none. *)
OneRoot ==
  /\ Cardinality({n \in Node : Peer[n] = n}) = 1
  /\ \A S \in SUBSET Node :
       (S # {} /\ \A n \in S : Peer[n] # n) => \E n \in S : Peer[n] \notin S

(* Every node ends on one branch, that of the producer, if following leads  *)
(* to one node: nodes that follow each other may time out for ever, each    *)
(* with its chain locked while it asks the other. *)
Converges == OneRoot => <>[](\A n, m \in Node : branch[n] = branch[m])

(* A deposit a producer has queued is minted by it, and on every node that  *)
(* follows it, if a block is still to come and no fault is. *)
DepositMinted ==
  \A box \in Deposits, p \in Producers, n \in Node :
    (/\ box \in queue[p] /\ (n = p \/ OneRoot)
     /\ Len(blocks) < MaxBlocks /\ faults = MaxFaults) ~> (box \in Minted(branch[n]))

(* Both: a follower ends on the producer's chain and with its deposits. *)
PeersConverge == Converges /\ DepositMinted
================================================================================
