----------------------------- MODULE MmForkChoice -----------------------------
(***************************************************************************)
(* Real-work fork choice over the validated Aegis block tree               *)
(* (aegis-node/src/mm_forkchoice.rs) together with the linear Chain it     *)
(* drives as a materialisation cursor (aegis-node/src/chain.rs).           *)
(*                                                                         *)
(* The block universe is fixed up front: an id is a header hash, so the    *)
(* parent link, the work (sc_nbits), the timestamp and every id-committed  *)
(* validation verdict of a block are constants.  What varies is the order  *)
(* in which shares, bodies and anchors arrive, which bytes arrive for a    *)
(* body, and the wall clock of each call.                                  *)
(*                                                                         *)
(* A public method of MmForkChoice takes &mut self and runs to completion. *)
(* ingest_share and ingest_body are split here at the iterations of their  *)
(* activation loop; `phase` keeps every other call out until the loop and  *)
(* the final refresh_canonical have run.                                   *)
(***************************************************************************)
EXTENDS Integers, Sequences, FiniteSets

CONSTANTS
  Block,        \* ids of the blocks that may ever be heard of
  Genesis,      \* id of genesis_header(network)
  Parent,       \* header.prev_id of every block
  Path,         \* ids from genesis to a block, root first (path_ids)
  Work,         \* decode_compact_bits(header.sc_nbits)
  SumWork,      \* total work of a set of blocks
  Rank,         \* position of an id in the lexicographic order of ids
  Fault,        \* which id-committed rule a block breaks, or "none"
  Ts,           \* header.timestamp_ms
  Bodies,       \* which bytes may arrive for a body: "good", "forged"
  ErgoHeight,   \* Ergo heights carried by shares and anchors
  MaxNow,       \* bound on the wall clock
  MAX_FUTURE_DRIFT,
  STATE_RETENTION_BLOCKS,
  L_FINAL       \* work lead asked of is_final

Id == Block \cup {Genesis}

Anc(b) == {Path[b][i] : i \in DOMAIN Path[b]}

Faults == {"none", "header", "body", "state"}

\* The headers form a tree rooted at genesis: a hash link cannot be cyclic, and
\* a prefix of a path is the path of the block it ends at.
ASSUME TreeAssumption ==
  /\ Genesis \notin Block
  /\ IsFiniteSet(Block)
  /\ Parent \in [Block -> Id]
  /\ Path \in [Id -> Seq(Id)]
  /\ Path[Genesis] = <<Genesis>>
  /\ \A b \in Block : Path[b] = Append(Path[Parent[b]], b)
  /\ \A b \in Id : \A i \in DOMAIN Path[b] :
       Path[Path[b][i]] = SubSeq(Path[b], 1, i)

\* Work is positive and SumWork is finitely additive.
ASSUME WorkAssumption ==
  /\ Work \in [Block -> Nat \ {0}]
  /\ SumWork \in [SUBSET Block -> Nat]
  /\ \A b \in Block : SumWork[{b}] = Work[b]
  /\ \A S, T \in SUBSET Block :
       S \cap T = {} => SumWork[S \cup T] = SumWork[S] + SumWork[T]

ASSUME OrderAssumption ==
  /\ Rank \in [Id -> Nat]
  /\ \A a, b \in Id : Rank[a] = Rank[b] => a = b

ASSUME ParamAssumption ==
  /\ Fault \in [Block -> Faults]
  /\ Ts \in [Block -> Nat]
  /\ Bodies \subseteq {"good", "forged"}
  /\ ErgoHeight \subseteq Nat
  /\ MaxNow \in Nat
  /\ MAX_FUTURE_DRIFT \in Nat
  /\ STATE_RETENTION_BLOCKS \in Nat
  /\ L_FINAL \in Nat \ {0}

VARIABLES
  nodes,        \* validated tree: ids
  work,         \* cumulative_work of every node
  pending,      \* ids with a share and no validated body
  ergo,         \* lowest Ergo height of the shares of a node or pending id
  stashed,      \* orphan buffer: id -> bytes held for its body
  dead,         \* permanent dead verdicts
  anchors,      \* id -> lowest Ergo inclusion height
  canonical,    \* canonical tip
  materialized, \* tip the cursor stands on
  chain,        \* ids held by the linear Chain, genesis first
  undo,         \* entries in the Chain's undo ring
  queue,        \* work list of activate_ready_from
  phase,        \* "idle" | "activate": is a public call in progress
  now           \* the caller's wall clock

\* Observers, read by no action of the fork choice: what was offered, and
\* what is_final approved (with the shares known at that moment).
VARIABLES shares, offered, approved

treeVars == <<nodes, work, pending, ergo, stashed, dead>>
cursorVars == <<canonical, materialized, chain, undo>>
obsVars == <<shares, offered, approved>>
vars == <<treeVars, anchors, cursorVars, queue, phase, now, obsVars>>

--------------------------------------------------------------------------------
(* Partial maps *)

Put(f, k, v) == [x \in DOMAIN f \cup {k} |-> IF x = k THEN v ELSE f[x]]
Drop(f, S) == [x \in DOMAIN f \ S |-> f[x]]
Lower(f, k, h) == Put(f, k, IF k \in DOMAIN f /\ f[k] <= h THEN f[k] ELSE h)

--------------------------------------------------------------------------------
(* The Chain as a cursor *)

MinOf(a, b) == IF a <= b THEN a ELSE b

\* Length of the common prefix of two paths, which are equal up to some index.
ForkIndex(p, q) ==
  CHOOSE k \in 0 .. MinOf(Len(p), Len(q)) :
    /\ SubSeq(p, 1, k) = SubSeq(q, 1, k)
    /\ \/ k = MinOf(Len(p), Len(q))
       \/ p[k + 1] # q[k + 1]

\* The undo ring keeps the newest STATE_RETENTION_BLOCKS entries.
Retained(n) == MinOf(n, STATE_RETENTION_BLOCKS)

\* Mutant: a dry ring leaves the cursor where the rollback stopped.
SwitchToFromDryRing(target) ==
  LET tp == Path[target]
      cp == Path[materialized]
      fork == ForkIndex(tp, cp)
      back == MinOf(undo, Len(cp) - fork)
  IN [chain |-> SubSeq(chain, 1, Len(chain) - back)
                  \o SubSeq(tp, fork + 1, Len(tp)),
      undo |-> Retained(undo - back + Len(tp) - fork)]

\* switch_to: roll back to the fork point through the undo ring and re-extend;
\* when the ring runs dry on the way, start again from genesis.
SwitchTo(target) ==
  LET tp == Path[target]
      cp == Path[materialized]
      fork == ForkIndex(tp, cp)
      back == Len(cp) - fork
  IN IF back <= undo
     THEN [chain |-> SubSeq(chain, 1, Len(chain) - back)
                       \o SubSeq(tp, fork + 1, Len(tp)),
           undo |-> Retained(undo - back + Len(tp) - fork)]
     ELSE [chain |-> <<Genesis>> \o SubSeq(tp, 2, Len(tp)),
           undo |-> Retained(Len(tp) - 1)]

\* Verdict of try_extend, through verdict_is_permanent.  The order of the checks
\* decides: version, link, height and MTP come before the drift bound; DAA and
\* transfer proofs before the coinbase proof; the state transition comes last.
Verdict(b, body, t) ==
  CASE Fault[b] = "header" -> "permanent"
    [] Fault[b] # "header" /\ Ts[b] > t + MAX_FUTURE_DRIFT -> "transient"
    [] Fault[b] = "body" /\ Ts[b] <= t + MAX_FUTURE_DRIFT -> "permanent"
    [] /\ Fault[b] \in {"none", "state"} /\ Ts[b] <= t + MAX_FUTURE_DRIFT
       /\ body = "forged" -> "transient"
    [] OTHER -> IF Fault[b] = "none" THEN "ok" ELSE "permanent"

--------------------------------------------------------------------------------
(* Order on validated nodes *)

IsAncestorOrEq(a, d) == a \in Anc(d)

\* First block of a's path that is not on b's path.
Distinguishing(a, b) ==
  CHOOSE c \in Anc(a) \ Anc(b) : c # Genesis /\ Parent[c] \in Anc(b)

\* (ergo_height, id) < (ergo_height, id)
EarlierKey(c, d) ==
  \/ ergo[c] < ergo[d]
  \/ ergo[c] = ergo[d] /\ Rank[c] < Rank[d]

\* Mutant: the earlier anchor beats the greater work.
PreferredByAnchor(a, b) ==
  /\ a # b
  /\ ~ IsAncestorOrEq(a, b)
  /\ \/ IsAncestorOrEq(b, a)
     \/ EarlierKey(Distinguishing(a, b), Distinguishing(b, a))

\* preferred: strict "a beats b".
Preferred(a, b) ==
  /\ a # b
  /\ \/ work[a] > work[b]
     \/ /\ work[a] = work[b]
        /\ ~ IsAncestorOrEq(a, b)
        /\ \/ IsAncestorOrEq(b, a)
           \/ EarlierKey(Distinguishing(a, b), Distinguishing(b, a))

--------------------------------------------------------------------------------
Init ==
  /\ nodes = {Genesis}
  /\ work = [n \in {Genesis} |-> 0]
  /\ pending = {}
  /\ ergo = [n \in {Genesis} |-> 0]
  /\ stashed = [b \in {} |-> "good"]
  /\ dead = {}
  /\ anchors = [b \in {} |-> 0]
  /\ canonical = Genesis
  /\ materialized = Genesis
  /\ chain = <<Genesis>>
  /\ undo = 0
  /\ queue = <<>>
  /\ phase = "idle"
  /\ now = 0
  /\ shares = [b \in {} |-> 0]
  /\ offered = {}
  /\ approved = {}

\* ingest_share for a block already in the tree: only the tie-break key moves,
\* and then the fork choice is run again (ShareIngest::Known).
IngestKnownShare(b, h) ==
  /\ phase = "idle"
  /\ b \in nodes
  /\ h < ergo[b]
  /\ ergo' = [ergo EXCEPT ![b] = h]
  /\ shares' = Lower(shares, b, h)
  /\ phase' = "activate"
  /\ UNCHANGED <<nodes, work, pending, stashed, dead, anchors, cursorVars,
                 queue, now, offered, approved>>

\* ingest_share for a block that is neither dead nor validated: the weight
\* becomes pending and the block is tried.
IngestNewShare(b, h) ==
  /\ phase = "idle"
  /\ b \notin dead
  /\ b \notin nodes
  /\ pending' = pending \cup {b}
  /\ ergo' = Lower(ergo, b, h)
  /\ queue' = <<b>>
  /\ phase' = "activate"
  /\ shares' = Lower(shares, b, h)
  /\ UNCHANGED <<nodes, work, stashed, dead, anchors, cursorVars, now,
                 offered, approved>>

\* Mutant: the descendants of a dead block stay in the orphan buffer.
KilledAlone(b) == {b}

\* mark_dead(b): b and every stashed block reached from it through stashed
\* blocks lose share and body and are dead for good.
Killed(b) ==
  {b} \cup {d \in DOMAIN stashed :
              /\ b \in Anc(d)
              /\ \A x \in Anc(d) \ {b} : b \in Anc(x) => x \in DOMAIN stashed}

MarkDead(b) ==
  /\ pending' = pending \ Killed(b)
  /\ ergo' = Drop(ergo, pending \cap Killed(b))
  /\ stashed' = Drop(stashed, Killed(b))
  /\ dead' = dead \cup Killed(b)

\* ingest_body on a dead prefix.
IngestDeadBody(b, body) ==
  /\ phase = "idle"
  /\ b \notin nodes
  /\ b \notin dead
  /\ Parent[b] \in dead
  /\ MarkDead(b)
  /\ offered' = offered \cup {<<b, body>>}
  /\ UNCHANGED <<nodes, work, anchors, cursorVars, queue, phase, now,
                 shares, approved>>

\* ingest_body: the first bytes offered for an id stay in the orphan buffer
\* until they are tried.
IngestBody(b, body) ==
  /\ phase = "idle"
  /\ b \notin nodes
  /\ b \notin dead
  /\ Parent[b] \notin dead
  /\ stashed' = IF b \in DOMAIN stashed THEN stashed ELSE Put(stashed, b, body)
  /\ queue' = <<b>>
  /\ phase' = "activate"
  /\ offered' = offered \cup {<<b, body>>}
  /\ UNCHANGED <<nodes, work, pending, ergo, dead, anchors, cursorVars, now,
                 shares, approved>>

--------------------------------------------------------------------------------
(* activate_ready_from / try_activate: one iteration of the work list *)

Ready(b) == b \in DOMAIN stashed /\ b \in pending /\ Parent[b] \in nodes

Rest == SubSeq(queue, 1, Len(queue) - 1)
Popped == queue[Len(queue)]

\* Mutant: the children that wait for an activated block are not revisited.
NoWaitingChildren(b) == {}

\* The stashed children of b, listed in the order the BTreeMap yields them.
WaitingChildren(b) == {c \in DOMAIN stashed : Parent[c] = b}
Listings(S) ==
  {s \in [1 .. Cardinality(S) -> S] :
     /\ \A i, j \in DOMAIN s : i < j => Rank[s[i]] < Rank[s[j]]
     /\ \A c \in S : \E i \in DOMAIN s : s[i] = c}

SkipUnready ==
  /\ phase = "activate"
  /\ queue # <<>>
  /\ ~ Ready(Popped)
  /\ queue' = Rest
  /\ UNCHANGED <<treeVars, anchors, cursorVars, phase, now, obsVars>>

Activate ==
  /\ phase = "activate"
  /\ queue # <<>>
  /\ LET b == Popped
         at == SwitchTo(Parent[b])
     IN /\ Ready(b)
        /\ Verdict(b, stashed[b], now) = "ok"
        /\ chain' = Append(at.chain, b)
        /\ undo' = Retained(at.undo + 1)
        /\ materialized' = b
        /\ nodes' = nodes \cup {b}
        /\ work' = Put(work, b, work[Parent[b]] + Work[b])
        /\ pending' = pending \ {b}
        /\ stashed' = Drop(stashed, {b})
        /\ \E kids \in Listings(WaitingChildren(b)) : queue' = Rest \o kids
  /\ UNCHANGED <<ergo, dead, anchors, canonical, phase, now, obsVars>>

RejectPermanent ==
  /\ phase = "activate"
  /\ queue # <<>>
  /\ LET b == Popped
         at == SwitchTo(Parent[b])
     IN /\ Ready(b)
        /\ Verdict(b, stashed[b], now) = "permanent"
        /\ chain' = at.chain
        /\ undo' = at.undo
        /\ materialized' = Parent[b]
        /\ MarkDead(b)
        /\ queue' = Rest
  /\ UNCHANGED <<nodes, work, anchors, canonical, phase, now, obsVars>>

RejectTransient ==
  /\ phase = "activate"
  /\ queue # <<>>
  /\ LET b == Popped
         at == SwitchTo(Parent[b])
     IN /\ Ready(b)
        /\ Verdict(b, stashed[b], now) = "transient"
        /\ chain' = at.chain
        /\ undo' = at.undo
        /\ materialized' = Parent[b]
        /\ stashed' = Drop(stashed, {b})
        /\ queue' = Rest
  /\ UNCHANGED <<nodes, work, pending, ergo, dead, anchors, canonical, phase,
                 now, obsVars>>

\* Mutant: first seen wins a tie.
RefreshFirstSeen ==
  /\ phase = "activate"
  /\ queue = <<>>
  /\ \E best \in nodes :
       /\ \A n \in nodes : work[n] <= work[best]
       /\ work[best] = work[canonical] => best = canonical
       /\ canonical' = best
       /\ chain' = SwitchTo(best).chain
       /\ undo' = SwitchTo(best).undo
       /\ materialized' = best
  /\ phase' = "idle"
  /\ UNCHANGED <<treeVars, anchors, queue, now, obsVars>>

\* refresh_canonical: the scan over nodes.keys() ends on the node no other
\* beats (PreferredIsTotal makes it unique, so the scan order is immaterial).
RefreshCanonical ==
  /\ phase = "activate"
  /\ queue = <<>>
  /\ \E best \in nodes :
       /\ \A n \in nodes : ~ Preferred(n, best)
       /\ canonical' = best
       /\ chain' = SwitchTo(best).chain
       /\ undo' = SwitchTo(best).undo
       /\ materialized' = best
  /\ phase' = "idle"
  /\ UNCHANGED <<treeVars, anchors, queue, now, obsVars>>

--------------------------------------------------------------------------------
(* Peg finality *)

RecordAnchor(b, h) ==
  /\ phase = "idle"
  /\ anchors' = Lower(anchors, b, h)
  /\ UNCHANGED <<treeVars, cursorVars, queue, phase, now, obsVars>>

\* The highest anchor on the canonical branch included at or below settledErgo.
IsSettledAnchor(s, settledErgo) ==
  /\ s \in Anc(canonical) \cap DOMAIN anchors
  /\ anchors[s] <= settledErgo
  /\ \A t \in Anc(canonical) \cap DOMAIN anchors :
       anchors[t] <= settledErgo => t \in Anc(s)

\* The heaviest validated block a hostile branch could fork from.
HostileAtMost(b, bound) ==
  /\ 0 <= bound
  /\ \A n \in nodes : IsAncestorOrEq(b, n) \/ work[n] <= bound

\* Mutant: weight without a validated body is not charged.
NoPendingHostileWork == 0
PendingHostileWork == SumWork[pending]

IsFinal(b, settledErgo) ==
  /\ b \in nodes
  /\ IsAncestorOrEq(b, canonical)
  /\ \E s \in nodes :
       /\ IsSettledAnchor(s, settledErgo)
       /\ IsAncestorOrEq(b, s)
       /\ HostileAtMost(b, work[s] - PendingHostileWork - L_FINAL)

\* A peg caller acts on is_final(b): remembered with the shares known by then.
Approve(b, settledErgo) ==
  /\ phase = "idle"
  /\ approved = {}
  /\ IsFinal(b, settledErgo)
  /\ approved' = {[id |-> b, known |-> (nodes \cup pending \cup dead) \ {Genesis}]}
  /\ UNCHANGED <<treeVars, anchors, cursorVars, queue, phase, now,
                 shares, offered>>

--------------------------------------------------------------------------------
\* The wall clock handed to the next call; no call relies on it being monotone.
Tick(t) ==
  /\ phase = "idle"
  /\ t # now
  /\ now' = t
  /\ UNCHANGED <<treeVars, anchors, cursorVars, queue, phase, obsVars>>

Calls ==
  \/ \E b \in Block, h \in ErgoHeight :
        \/ IngestKnownShare(b, h)
        \/ IngestNewShare(b, h)
        \/ RecordAnchor(b, h)
        \/ Approve(b, h)
  \/ \E b \in Block, body \in Bodies :
        \/ IngestDeadBody(b, body)
        \/ IngestBody(b, body)
  \/ \E t \in 0 .. MaxNow : Tick(t)

Steps ==
  \/ SkipUnready
  \/ Activate
  \/ RejectPermanent
  \/ RejectTransient
  \/ RefreshCanonical

Next == Calls \/ Steps

Spec == Init /\ [][Next]_vars
--------------------------------------------------------------------------------
(* Properties *)

\* Types of the fork-choice state (struct MmForkChoice and its Chain cursor).
TypeOK ==
  /\ nodes \subseteq Id
  /\ work \in [nodes -> Nat]
  /\ pending \subseteq Block
  /\ ergo \in [nodes \cup pending -> Nat]
  /\ DOMAIN stashed \subseteq Block
  /\ stashed \in [DOMAIN stashed -> Bodies]
  /\ dead \subseteq Block
  /\ DOMAIN anchors \subseteq Block
  /\ anchors \in [DOMAIN anchors -> ErgoHeight]
  /\ canonical \in nodes
  /\ materialized \in nodes
  /\ chain \in Seq(Id)
  /\ undo \in 0 .. STATE_RETENTION_BLOCKS
  /\ queue \in Seq(Block)
  /\ phase \in {"idle", "activate"}
  /\ now \in 0 .. MaxNow
  /\ DOMAIN shares \subseteq Block
  /\ shares \in [DOMAIN shares -> ErgoHeight]
  /\ offered \subseteq Block \X Bodies
  /\ \A a \in approved : a.id \in Block /\ a.known \subseteq Block

\* A block is counted once: validated, pending and dead exclude each other, a
\* validated block holds no orphan-buffer slot, the tree is closed under prev_id
\* and every node carries the real work of its whole branch (try_activate).
TreeInv ==
  /\ Genesis \in nodes
  /\ nodes \cap pending = {}
  /\ nodes \cap dead = {}
  /\ nodes \cap DOMAIN stashed = {}
  /\ work[Genesis] = 0
  /\ \A b \in nodes : Anc(b) \subseteq nodes
  /\ \A b \in nodes \ {Genesis} : work[b] = work[Parent[b]] + Work[b]

\* A dead verdict poisons the branch and nothing else (mark_dead, ingest_body):
\* no weight or body of a dead block is kept, no child of a dead block is
\* validated or waiting, and every dead block has an id-committed fault in its
\* own ancestry, so bytes the id does not commit to never kill it.
DeadPrefix ==
  /\ dead \cap (pending \cup DOMAIN stashed) = {}
  /\ \A b \in Block : Parent[b] \in dead => b \notin nodes \cup DOMAIN stashed
  /\ \A b \in dead : \E x \in Anc(b) \ {Genesis} : Fault[x] # "none"

\* No lost wake-up: when a call returns, no block has share, body and validated
\* parent and still waits (activate_ready_from).
NoReadyLeftBehind ==
  phase = "idle" => \A b \in Block : ~ Ready(b)

\* When a call returns, the linear Chain holds exactly the canonical branch,
\* whichever side branches it visited and wherever the undo ring ran dry
\* (switch_to, refresh_canonical).
CursorOnTip ==
  phase = "idle" => materialized = canonical /\ chain = Path[canonical]

\* When a call returns, no validated block is heavier than the canonical tip.
HeaviestTip ==
  phase = "idle" => \A n \in nodes : work[n] <= work[canonical]

\* A block all of whose branch was offered with shares and genuine bodies.
Supported(b) ==
  \A x \in Anc(b) \ {Genesis} :
    x \in DOMAIN shares /\ <<x, "good">> \in offered /\ Fault[x] = "none"

\* The fork choice implements TipChoice: buffers, tree, cursor and the steps in
\* the middle of a call are invisible, and a call that returns leaves the tip
\* that the offers alone determine (refresh_canonical).
Choice == INSTANCE TipChoice WITH tip <- canonical, due <- phase = "activate"
ImplementsTipChoice == Choice!Spec

\* Shares outside the approved block's subtree that were not known on approval.
LateShares(a) ==
  {b \in (nodes \cup pending) \ (a.known \cup {Genesis}) : a.id \notin Anc(b)}

\* Peg finality: what is_final approved stays on the canonical branch while the
\* competing work of shares first heard of afterwards is below the asked lead;
\* no reveal of a body, tie flip or dead verdict can undo it (is_final).
FinalityStable ==
  phase = "idle" =>
    \A a \in approved :
      SumWork[LateShares(a)] < L_FINAL => IsAncestorOrEq(a.id, canonical)

--------------------------------------------------------------------------------
(* An inductive invariant *)

\* Between any two steps, in the middle of a call too, the Chain holds exactly
\* the path of the tip the cursor stands on.
CursorInv == chain = Path[materialized]

\* A block that is ready is still in the work list, which is empty between calls.
QueueInv ==
  /\ phase = "idle" => queue = <<>>
  /\ \A b \in Block : Ready(b) => \E i \in DOMAIN queue : queue[i] = b

\* Competing work of n that nobody knew of when a was approved.
LateWork(a, n) == SumWork[Anc(n) \ (a.known \cup {Genesis})]

\* Below every approved block lies a node that no branch outside its subtree can
\* catch up with on the work known at the approval: the lead is L_FINAL, whatever
\* part of the pending work has since been validated or found dead.
ApprovalInv ==
  \A a \in approved :
    /\ a.known \subseteq nodes \cup pending \cup dead
    /\ \E s \in nodes :
         /\ a.id \in Anc(s)
         /\ \A n \in nodes :
              a.id \notin Anc(n) =>
                work[n] + SumWork[pending \cap a.known] + L_FINAL
                  <= work[s] + LateWork(a, n)

\* The state between any two steps: what TypeOK, TreeInv, DeadPrefix,
\* NoReadyLeftBehind, CursorOnTip, HeaviestTip and FinalityStable rest on.
IndInv ==
  /\ TypeOK
  /\ TreeInv
  /\ DeadPrefix
  /\ CursorInv
  /\ CursorOnTip
  /\ QueueInv
  /\ HeaviestTip
  /\ ApprovalInv

===============================================================================
