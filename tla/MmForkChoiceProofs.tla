-------------------------- MODULE MmForkChoiceProofs --------------------------
(***************************************************************************)
(* Proofs about MmForkChoice for every header tree, every work function    *)
(* and every retention depth.                                              *)
(***************************************************************************)
EXTENDS MmForkChoice, SelectionProofs, FiniteSetTheorems, SequenceTheorems,
        WellFoundedInduction, TLAPS

--------------------------------------------------------------------------------
(* The header tree *)

\* A path ends at the block it belongs to (path_ids).
LEMMA PathEnd ==
  ASSUME NEW b \in Id
  PROVE  /\ Path[b] \in Seq(Id)
         /\ Len(Path[b]) \in Nat \ {0}
         /\ Path[b][Len(Path[b])] = b
         /\ DOMAIN Path[b] = 1 .. Len(Path[b])
<1>1. Path[b] \in Seq(Id)
  BY TreeAssumption
<1>2. CASE b = Genesis
  BY <1>1, <1>2, TreeAssumption
<1>3. CASE b \in Block
  <2>1. Path[Parent[b]] \in Seq(Id) /\ Path[b] = Append(Path[Parent[b]], b)
    BY <1>3, TreeAssumption
  <2>. QED
    BY <1>1, <2>1
<1>. QED
  BY <1>2, <1>3 DEF Id

\* A block is its own ancestor, and ancestors are ids.
LEMMA AncSelf ==
  ASSUME NEW b \in Id
  PROVE  b \in Anc(b) /\ Anc(b) \subseteq Id
BY PathEnd DEF Anc

\* The ancestors of a block are those of its parent and the block.
LEMMA AncStep ==
  ASSUME NEW b \in Block
  PROVE  /\ Parent[b] \in Id
         /\ Anc(b) = Anc(Parent[b]) \cup {b}
<1>1. Parent[b] \in Id /\ b \in Id
  BY TreeAssumption DEF Id
<1>2. Path[b] = Append(Path[Parent[b]], b)
  BY TreeAssumption
<1>3. /\ Path[Parent[b]] \in Seq(Id)
      /\ DOMAIN Path[Parent[b]] = 1 .. Len(Path[Parent[b]])
  BY <1>1, PathEnd
<1>4. /\ DOMAIN Path[b] = 1 .. Len(Path[Parent[b]]) + 1
      /\ \A i \in 1 .. Len(Path[Parent[b]]) : Path[b][i] = Path[Parent[b]][i]
      /\ Path[b][Len(Path[Parent[b]]) + 1] = b
  BY <1>1, <1>2, <1>3
<1>5. DOMAIN Path[b] = DOMAIN Path[Parent[b]] \cup {Len(Path[Parent[b]]) + 1}
  <2>1. Len(Path[Parent[b]]) \in Nat
    BY <1>3
  <2>. QED
    BY <1>3, <1>4, <2>1
<1>6. \A x : x \in Anc(b) <=> x \in Anc(Parent[b]) \/ x = b
  BY <1>3, <1>4, <1>5, Zenon DEF Anc
<1>. QED
  BY <1>1, <1>6

\* The ancestors of an ancestor are ancestors.
LEMMA AncTransitive ==
  ASSUME NEW b \in Id, NEW c \in Anc(b)
  PROVE  Anc(c) \subseteq Anc(b)
<1>1. PICK i \in DOMAIN Path[b] : c = Path[b][i]
  BY DEF Anc
<1>2. Path[c] = SubSeq(Path[b], 1, i)
  BY <1>1, TreeAssumption
<1>3. Path[b] \in Seq(Id) /\ i \in 1 .. Len(Path[b])
  BY <1>1, PathEnd
<1>4. /\ DOMAIN Path[c] = 1 .. i
      /\ \A j \in 1 .. i : Path[c][j] = Path[b][j]
  BY <1>2, <1>3
<1>. QED
  BY <1>3, <1>4, PathEnd DEF Anc

\* Two blocks that are ancestors of each other are the same block.
LEMMA AncAntisymmetric ==
  ASSUME NEW b \in Id, NEW c \in Anc(b), b \in Anc(c)
  PROVE  b = c
<1>1. PICK i \in DOMAIN Path[b] : c = Path[b][i]
  BY DEF Anc
<1>2. PICK j \in DOMAIN Path[c] : b = Path[c][j]
  BY DEF Anc
<1>3. c \in Id
  BY AncSelf
<1>4. Path[c] = SubSeq(Path[b], 1, i) /\ Path[b] = SubSeq(Path[c], 1, j)
  BY <1>1, <1>2, <1>3, TreeAssumption
<1>5. i \in 1 .. Len(Path[b]) /\ j \in 1 .. Len(Path[c])
  BY <1>1, <1>2, <1>3, PathEnd
<1>6. Path[b] \in Seq(Id) /\ Path[c] \in Seq(Id)
  BY <1>3, PathEnd
<1>7. Len(Path[c]) = i /\ Len(Path[b]) = j
  BY <1>4, <1>5, <1>6
<1>. QED
  BY <1>1, <1>3, <1>5, <1>7, PathEnd

\* Every path starts at genesis.
LEMMA PathHead ==
  ASSUME NEW b \in Id
  PROVE  Path[b][1] = Genesis
<1>. DEFINE c == Path[b][1]
<1>1. /\ Path[b] \in Seq(Id)
      /\ 1 \in DOMAIN Path[b]
      /\ c \in Id
  BY PathEnd
<1>2. Path[c] = SubSeq(Path[b], 1, 1)
  BY <1>1, TreeAssumption
<1>3. Len(Path[c]) = 1
  BY <1>1, <1>2, PathEnd
<1>4. SUFFICES ASSUME c \in Block PROVE FALSE
  BY <1>1 DEF Id
<1>5. Parent[c] \in Id /\ Path[c] = Append(Path[Parent[c]], c)
  BY <1>4, TreeAssumption
<1>6. Len(Path[Parent[c]]) >= 1 /\ Len(Path[Parent[c]]) \in Nat /\ Path[Parent[c]] \in Seq(Id)
  BY <1>5, PathEnd
<1>7. Len(Path[c]) = Len(Path[Parent[c]]) + 1 /\ Len(Path[Parent[c]]) + 1 # 1
  BY <1>5, <1>6
<1>. QED
  BY <1>3, <1>6, <1>7

\* Genesis is the only ancestor of genesis.
LEMMA AncGenesis == Anc(Genesis) = {Genesis}
BY TreeAssumption DEF Anc

--------------------------------------------------------------------------------
(* Total work *)

\* No blocks, no work.
LEMMA SumWorkEmpty == SumWork[{}] = 0
<1>1. {} \in SUBSET Block /\ {} \cap {} = {} /\ {} \cup {} = {}
  OBVIOUS
<1>2. SumWork[{} \cup {}] = SumWork[{}] + SumWork[{}]
  BY <1>1, WorkAssumption
<1>3. SumWork[{}] \in Nat
  BY <1>1, WorkAssumption
<1>4. ASSUME NEW n \in Nat, n = n + n
      PROVE  n = 0
  BY <1>4
<1>. QED
  BY <1>1, <1>2, <1>3, <1>4

\* One more block adds its own work, which is positive.
LEMMA SumWorkAdd ==
  ASSUME NEW S \in SUBSET Block, NEW b \in Block, b \notin S
  PROVE  /\ SumWork[S] \in Nat /\ Work[b] \in Nat /\ Work[b] > 0
         /\ SumWork[S \cup {b}] = SumWork[S] + Work[b]
<1>1. {b} \in SUBSET Block /\ S \cap {b} = {}
  OBVIOUS
<1>2. SumWork[S \cup {b}] = SumWork[S] + SumWork[{b}]
  BY <1>1, WorkAssumption
<1>3. SumWork[S] \in Nat /\ SumWork[{b}] = Work[b] /\ Work[b] \in Nat \ {0}
  BY WorkAssumption
<1>. QED
  BY <1>2, <1>3

\* Fewer blocks, no more work.
LEMMA SumWorkMonotone ==
  ASSUME NEW T \in SUBSET Block, NEW S \in SUBSET T
  PROVE  SumWork[S] \in Nat /\ SumWork[T] \in Nat /\ SumWork[S] <= SumWork[T]
<1>1. /\ S \in SUBSET Block /\ T \ S \in SUBSET Block
      /\ S \cap (T \ S) = {} /\ S \cup (T \ S) = T
  OBVIOUS
<1>2. SumWork[S \cup (T \ S)] = SumWork[S] + SumWork[T \ S]
  BY <1>1, WorkAssumption
<1>3. SumWork[S] \in Nat /\ SumWork[T \ S] \in Nat /\ SumWork[T] \in Nat
  BY <1>1, WorkAssumption
<1>. QED
  BY <1>1, <1>2, <1>3

--------------------------------------------------------------------------------
(* The cursor *)

\* Two paths have a fork point, and they agree up to it (switch_to).
LEMMA ForkPoint ==
  ASSUME NEW p \in Seq(Id), NEW q \in Seq(Id)
  PROVE  /\ ForkIndex(p, q) \in 0 .. Len(p)
         /\ ForkIndex(p, q) \in 0 .. Len(q)
         /\ SubSeq(p, 1, ForkIndex(p, q)) = SubSeq(q, 1, ForkIndex(p, q))
<1>. DEFINE m == MinOf(Len(p), Len(q))
            T == {k \in 0 .. m : k = m \/ p[k + 1] # q[k + 1]}
<1>1. Len(p) \in Nat /\ Len(q) \in Nat
  OBVIOUS
<1>2. m \in Nat /\ m <= Len(p) /\ m <= Len(q)
  BY <1>1 DEF MinOf
<1>3. PICK k \in T : \A j \in T : k <= j
  <2>1. T \in SUBSET Nat /\ m \in T
    BY <1>2
  <2>. QED
    BY <2>1, LeastNat
<1>4. \A j \in 1 .. k : p[j] = q[j]
  <2>. SUFFICES ASSUME NEW j \in 1 .. k PROVE p[j] = q[j]
    OBVIOUS
  <2>1. j - 1 \in 0 .. m /\ ~ (k <= j - 1) /\ j - 1 # m /\ (j - 1) + 1 = j
    BY <1>2, <1>3
  <2>. HIDE DEF m
  <2>. QED
    BY <1>3, <2>1
<1>5. k \in 0 .. m /\ (k = m \/ p[k + 1] # q[k + 1])
  BY <1>3
<1>. HIDE DEF m, T
<1>6. SubSeq(p, 1, k) = SubSeq(q, 1, k)
  BY <1>1, <1>2, <1>4, <1>5
<1>7. \E n \in 0 .. m : /\ SubSeq(p, 1, n) = SubSeq(q, 1, n)
                        /\ n = m \/ p[n + 1] # q[n + 1]
  BY <1>5, <1>6
<1>. DEFINE f == ForkIndex(p, q)
<1>8. f \in 0 .. m /\ SubSeq(p, 1, f) = SubSeq(q, 1, f)
  BY <1>7 DEF ForkIndex, m
<1>. HIDE DEF f
<1>9. f \in 0 .. Len(p) /\ f \in 0 .. Len(q)
  BY <1>1, <1>2, <1>8
<1>. QED
  BY <1>8, <1>9 DEF f

\* A sequence is what comes up to an index and what follows it.
LEMMA SplitAt ==
  ASSUME NEW s \in Seq(Id), NEW k \in 0 .. Len(s)
  PROVE  SubSeq(s, 1, k) \o SubSeq(s, k + 1, Len(s)) = s
<1>. DEFINE l == SubSeq(s, 1, k)
            r == SubSeq(s, k + 1, Len(s))
<1>1. /\ l \in Seq(Id) /\ Len(l) = k
      /\ \A i \in 1 .. k : l[i] = s[i]
  OBVIOUS
<1>2. /\ r \in Seq(Id) /\ Len(r) = Len(s) - k
      /\ \A i \in 1 .. Len(s) - k : r[i] = s[k + i]
  OBVIOUS
<1>. HIDE DEF l, r
<1>3. /\ l \o r \in Seq(Id) /\ Len(l \o r) = Len(s)
      /\ \A i \in 1 .. Len(s) : (l \o r)[i] = s[i]
  <2>1. /\ l \o r \in Seq(Id)
        /\ Len(l \o r) = Len(l) + Len(r)
        /\ \A i \in 1 .. Len(l) + Len(r) :
             (l \o r)[i] = IF i <= Len(l) THEN l[i] ELSE r[i - Len(l)]
    BY <1>1, <1>2, ConcatProperties
  <2>2. Len(s) \in Nat /\ Len(l) + Len(r) = Len(s)
    BY <1>1, <1>2
  <2>3. ASSUME NEW i \in 1 .. Len(s) PROVE (l \o r)[i] = s[i]
    <3>1. CASE i <= k
      BY <1>1, <2>1, <2>2, <3>1
    <3>2. CASE i > k
      <4>1. i - k \in 1 .. Len(s) - k /\ k + (i - k) = i /\ ~ (i <= k)
        BY <2>2, <3>2
      <4>. QED
        BY <1>1, <1>2, <2>1, <2>2, <4>1
    <3>. QED
      BY <2>2, <3>1, <3>2
  <2>. QED
    BY <2>1, <2>2, <2>3
<1>4. l \o r = s
  BY <1>3, SeqEqual
<1>. QED
  BY <1>4 DEF l, r

\* switch_to ends on the path of its target, through the undo ring or from
\* genesis, and never keeps more undo entries than the ring holds.
LEMMA SwitchToArrives ==
  ASSUME NEW target \in Id, materialized \in Id, chain = Path[materialized],
         undo \in 0 .. STATE_RETENTION_BLOCKS
  PROVE  /\ SwitchTo(target).chain = Path[target]
         /\ SwitchTo(target).undo \in 0 .. STATE_RETENTION_BLOCKS
<1>. DEFINE tp == Path[target]
            cp == Path[materialized]
            fork == ForkIndex(tp, cp)
            back == Len(cp) - fork
<1>1. /\ tp \in Seq(Id) /\ Len(tp) \in Nat \ {0} /\ tp[1] = Genesis
      /\ cp \in Seq(Id) /\ Len(cp) \in Nat \ {0}
  BY PathEnd, PathHead
<1>2. /\ fork \in 0 .. Len(tp) /\ fork \in 0 .. Len(cp)
      /\ SubSeq(tp, 1, fork) = SubSeq(cp, 1, fork)
  BY <1>1, ForkPoint
<1>3. STATE_RETENTION_BLOCKS \in Nat
  BY ParamAssumption
<1>4. CASE back <= undo
  <2>1. SwitchTo(target) = [chain |-> SubSeq(chain, 1, Len(chain) - back)
                                        \o SubSeq(tp, fork + 1, Len(tp)),
                            undo |-> Retained(undo - back + Len(tp) - fork)]
    BY <1>4 DEF SwitchTo
  <2>. HIDE DEF fork, tp
  <2>2. Len(chain) - back = fork
    BY <1>1, <1>2
  <2>3. SubSeq(chain, 1, Len(chain) - back) = SubSeq(tp, 1, fork)
    BY <1>2, <2>2
  <2>4. SubSeq(chain, 1, Len(chain) - back) \o SubSeq(tp, fork + 1, Len(tp)) = tp
    BY <1>1, <1>2, <2>3, SplitAt
  <2>5. Retained(undo - back + Len(tp) - fork) \in 0 .. STATE_RETENTION_BLOCKS
    <3>1. undo - back + Len(tp) - fork \in Nat
      BY <1>1, <1>2, <1>3, <1>4
    <3>. QED
      BY <1>3, <3>1 DEF Retained, MinOf
  <2>. QED
    <3>1. SwitchTo(target) = [chain |-> tp,
                              undo |-> Retained(undo - back + Len(tp) - fork)]
      BY <2>1, <2>4
    <3>. QED
      BY <2>5, <3>1 DEF tp
<1>5. CASE ~ (back <= undo)
  <2>1. SwitchTo(target) = [chain |-> <<Genesis>> \o SubSeq(tp, 2, Len(tp)),
                            undo |-> Retained(Len(tp) - 1)]
    BY <1>5 DEF SwitchTo
  <2>. HIDE DEF fork, tp
  <2>2. <<Genesis>> \o SubSeq(tp, 2, Len(tp)) = tp
    BY <1>1, Genesis \in Id DEF Id
  <2>3. Retained(Len(tp) - 1) \in 0 .. STATE_RETENTION_BLOCKS
    BY <1>1, <1>3 DEF Retained, MinOf
  <2>. QED
    BY <2>1, <2>2, <2>3 DEF tp
<1>. QED
  BY <1>4, <1>5

--------------------------------------------------------------------------------
(* Partial maps *)

\* What Put and Lower store is what they are given or what was there.
LEMMA PutType ==
  ASSUME NEW V, NEW D, NEW f \in [D -> V], NEW k, NEW v \in V
  PROVE  /\ DOMAIN f = D
         /\ Put(f, k, v) \in [D \cup {k} -> V]
         /\ Lower(f, k, v) \in [D \cup {k} -> V]
<1>1. DOMAIN f = D
  OBVIOUS
<1>2. ASSUME NEW w \in V
      PROVE  [x \in D \cup {k} |-> IF x = k THEN w ELSE f[x]] \in [D \cup {k} -> V]
  OBVIOUS
<1>3. (IF k \in D /\ f[k] <= v THEN f[k] ELSE v) \in V
  OBVIOUS
<1>. QED
  BY <1>1, <1>2, <1>3 DEF Put, Lower

\* Put stores one value and leaves the others alone.
LEMMA PutValue ==
  ASSUME NEW V, NEW D, NEW f \in [D -> V], NEW k, NEW v
  PROVE  Put(f, k, v)[k] = v /\ \A x \in D : x # k => Put(f, k, v)[x] = f[x]
<1>1. DOMAIN f = D
  OBVIOUS
<1>. QED
  BY <1>1 DEF Put

\* Drop forgets keys and keeps the rest.
LEMMA DropType ==
  ASSUME NEW V, NEW D, NEW f \in [D -> V], NEW S
  PROVE  Drop(f, S) \in [D \ S -> V]
BY DEF Drop

\* What mark_dead forgets was never validated, and is a block.
LEMMA KilledBlocks ==
  ASSUME NEW b \in Block, DOMAIN stashed \subseteq Block
  PROVE  Killed(b) \subseteq Block
BY DEF Killed

--------------------------------------------------------------------------------
(* Type correctness *)

TypeInv == TypeOK /\ CursorInv /\ nodes \cap pending = {} /\ nodes \cap DOMAIN stashed = {}

\* The work list gives up a block and stays a list of blocks.
LEMMA PopType ==
  ASSUME queue \in Seq(Block), queue # <<>>
  PROVE  Popped \in Block /\ Rest \in Seq(Block)
<1>1. Len(queue) \in Nat \ {0}
  BY EmptySeq
<1>. QED
  BY <1>1 DEF Popped, Rest

\* A block that is tried is a block with a validated parent.
LEMMA ReadyType ==
  ASSUME TypeOK, phase = "activate", queue # <<>>, Ready(Popped)
  PROVE  /\ Popped \in Block /\ Rest \in Seq(Block)
         /\ Parent[Popped] \in nodes /\ Parent[Popped] \in Id
         /\ Popped \in pending /\ Popped \in DOMAIN stashed
BY PopType DEF TypeOK, Ready

\* Trying a block leaves the cursor on its parent.
LEMMA CursorOnParent ==
  ASSUME TypeInv, NEW n \in nodes
  PROVE  /\ SwitchTo(n).chain = Path[n]
         /\ SwitchTo(n).undo \in 0 .. STATE_RETENTION_BLOCKS
         /\ Path[n] \in Seq(Id)
BY SwitchToArrives, PathEnd DEF TypeInv, TypeOK, CursorInv

\* mark_dead keeps the types.
LEMMA MarkDeadType ==
  ASSUME TypeInv, NEW b \in Block, MarkDead(b), nodes' = nodes
  PROVE  /\ pending' \subseteq Block /\ nodes' \cap pending' = {}
         /\ nodes' \cap DOMAIN stashed' = {}
         /\ ergo' \in [nodes \cup pending' -> Nat]
         /\ DOMAIN stashed' \subseteq Block
         /\ stashed' \in [DOMAIN stashed' -> Bodies]
         /\ dead' \subseteq Block
<1>1. Killed(b) \subseteq Block
  BY KilledBlocks DEF TypeInv, TypeOK
<1>2. (nodes \cup pending) \ (pending \cap Killed(b)) = nodes \cup pending'
  BY DEF TypeInv, MarkDead
<1>3. ergo' \in [nodes \cup pending' -> Nat]
  BY <1>2, DropType DEF TypeInv, TypeOK, MarkDead
<1>4. stashed' \in [DOMAIN stashed \ Killed(b) -> Bodies]
  BY DropType DEF TypeInv, TypeOK, MarkDead
<1>. QED
  BY <1>1, <1>3, <1>4 DEF TypeInv, TypeOK, MarkDead

\* The types hold initially.
LEMMA TypeInit == Init => TypeInv
<1>1. SUFFICES ASSUME Init PROVE TypeInv
  OBVIOUS
<1>2. Genesis \in Id /\ Genesis \notin Block /\ Path[Genesis] = <<Genesis>>
  BY TreeAssumption DEF Id
<1>3. 0 \in 0 .. STATE_RETENTION_BLOCKS /\ 0 \in 0 .. MaxNow
  BY ParamAssumption
<1>. QED
  BY <1>1, <1>2, <1>3 DEF Init, TypeInv, TypeOK, CursorInv

\* Every step keeps them.
LEMMA TypeStep == TypeInv /\ [Next]_vars => TypeInv'
<1>. SUFFICES ASSUME TypeInv, [Next]_vars PROVE TypeInv'
  OBVIOUS
<1>. USE DEF TypeInv
<1>1. ASSUME NEW b \in Block, NEW h \in ErgoHeight, IngestKnownShare(b, h)
      PROVE  TypeInv'
  <2>1. h \in Nat
    BY ParamAssumption
  <2>2. ergo' \in [nodes' \cup pending' -> Nat]
    BY <1>1, <2>1 DEF TypeOK, IngestKnownShare
  <2>3. shares' \in [DOMAIN shares \cup {b} -> ErgoHeight]
    BY <1>1, PutType DEF TypeOK, IngestKnownShare
  <2>. QED
    BY <1>1, <2>2, <2>3 DEF TypeOK, CursorInv, IngestKnownShare, cursorVars
<1>2. ASSUME NEW b \in Block, NEW h \in ErgoHeight, IngestNewShare(b, h)
      PROVE  TypeInv'
  <2>1. h \in Nat
    BY ParamAssumption
  <2>2. ergo' \in [nodes \cup pending \cup {b} -> Nat]
    BY <1>2, <2>1, PutType DEF TypeOK, IngestNewShare
  <2>3. shares' \in [DOMAIN shares \cup {b} -> ErgoHeight]
    BY <1>2, PutType DEF TypeOK, IngestNewShare
  <2>4. nodes' \cup pending' = nodes \cup pending \cup {b}
    BY <1>2 DEF IngestNewShare
  <2>. QED
    BY <1>2, <2>2, <2>3, <2>4 DEF TypeOK, CursorInv, IngestNewShare, cursorVars
<1>3. ASSUME NEW b \in Block, NEW h \in ErgoHeight, RecordAnchor(b, h)
      PROVE  TypeInv'
  <2>1. anchors' \in [DOMAIN anchors \cup {b} -> ErgoHeight]
    BY <1>3, PutType DEF TypeOK, RecordAnchor
  <2>. QED
    BY <1>3, <2>1 DEF TypeOK, CursorInv, RecordAnchor, treeVars, cursorVars, obsVars
<1>4. ASSUME NEW b \in Block, NEW h \in ErgoHeight, Approve(b, h)
      PROVE  TypeInv'
  BY <1>4 DEF TypeOK, CursorInv, Approve, treeVars, cursorVars, Id
<1>5. ASSUME NEW b \in Block, NEW body \in Bodies, IngestDeadBody(b, body)
      PROVE  TypeInv'
  <2>1. MarkDead(b) /\ nodes' = nodes
    BY <1>5 DEF IngestDeadBody
  <2>2. /\ pending' \subseteq Block /\ nodes' \cap pending' = {}
        /\ nodes' \cap DOMAIN stashed' = {}
        /\ ergo' \in [nodes \cup pending' -> Nat]
        /\ DOMAIN stashed' \subseteq Block
        /\ stashed' \in [DOMAIN stashed' -> Bodies]
        /\ dead' \subseteq Block
    BY <2>1, MarkDeadType
  <2>. QED
    BY <1>5, <2>1, <2>2 DEF TypeOK, CursorInv, IngestDeadBody, cursorVars
<1>6. ASSUME NEW b \in Block, NEW body \in Bodies, IngestBody(b, body)
      PROVE  TypeInv'
  <2>1. \/ stashed' = stashed
        \/ stashed' \in [DOMAIN stashed \cup {b} -> Bodies]
    BY <1>6, PutType DEF TypeOK, IngestBody
  <2>. QED
    BY <1>6, <2>1 DEF TypeOK, CursorInv, IngestBody, cursorVars
<1>7. ASSUME NEW t \in 0 .. MaxNow, Tick(t)
      PROVE  TypeInv'
  BY <1>7 DEF TypeOK, CursorInv, Tick, treeVars, cursorVars, obsVars
<1>8. CASE SkipUnready
  BY <1>8, PopType DEF TypeOK, CursorInv, SkipUnready, treeVars, cursorVars, obsVars
<1>9. CASE Activate
  <2>. DEFINE b == Popped
              at == SwitchTo(Parent[b])
  <2>1. /\ b \in Block /\ Rest \in Seq(Block) /\ Parent[b] \in nodes
        /\ b \in pending /\ b \in DOMAIN stashed
    BY <1>9, ReadyType DEF Activate
  <2>2. at.chain = Path[Parent[b]] /\ at.undo \in 0 .. STATE_RETENTION_BLOCKS
    BY <2>1, CursorOnParent
  <2>3. chain' = Path[b] /\ materialized' = b /\ Path[b] \in Seq(Id)
    BY <1>9, <2>1, <2>2, TreeAssumption DEF Activate, Id
  <2>4. undo' \in 0 .. STATE_RETENTION_BLOCKS
    <3>1. undo' = Retained(at.undo + 1)
      BY <1>9 DEF Activate
    <3>2. at.undo + 1 \in Nat /\ STATE_RETENTION_BLOCKS \in Nat
      BY <2>2, ParamAssumption
    <3>. QED
      BY <3>1, <3>2 DEF Retained, MinOf
  <2>5. work' \in [nodes' -> Nat]
    <3>1. Work[b] \in Nat /\ work[Parent[b]] \in Nat
      BY <2>1, WorkAssumption DEF TypeOK
    <3>2. work[Parent[b]] + Work[b] \in Nat
      BY <3>1
    <3>. QED
      BY <1>9, <3>2, PutType DEF TypeOK, Activate
  <2>6. stashed' \in [DOMAIN stashed \ {b} -> Bodies]
    BY <1>9, DropType DEF TypeOK, Activate
  <2>7. nodes' = nodes \cup {b} /\ pending' = pending \ {b} /\ ergo' = ergo
    BY <1>9 DEF Activate
  <2>8. queue' \in Seq(Block)
    <3>1. PICK kids \in Listings(WaitingChildren(b)) : queue' = Rest \o kids
      BY <1>9 DEF Activate
    <3>2. /\ WaitingChildren(b) \subseteq Block
          /\ Cardinality(WaitingChildren(b)) \in Nat
      BY TreeAssumption, FS_Subset, FS_CardinalityType DEF TypeOK, WaitingChildren
    <3>3. kids \in Seq(Block)
      BY <3>1, <3>2 DEF Listings
    <3>. QED
      BY <2>1, <3>1, <3>3
  <2>9. /\ dead' = dead /\ anchors' = anchors /\ canonical' = canonical
        /\ phase' = phase /\ now' = now
        /\ shares' = shares /\ offered' = offered /\ approved' = approved
    BY <1>9 DEF Activate, obsVars
  <2>10. nodes' \cup pending' = nodes \cup pending
    BY <2>1, <2>7
  <2>. HIDE DEF b, at
  <2>. QED
    BY <2>1, <2>3, <2>4, <2>5, <2>6, <2>7, <2>8, <2>9, <2>10
    DEF TypeOK, CursorInv, Id
<1>10. CASE RejectPermanent
  <2>. DEFINE b == Popped
              at == SwitchTo(Parent[b])
  <2>1. /\ b \in Block /\ Rest \in Seq(Block) /\ Parent[b] \in nodes
    BY <1>10, ReadyType DEF RejectPermanent
  <2>2. /\ at.chain = Path[Parent[b]] /\ at.undo \in 0 .. STATE_RETENTION_BLOCKS
        /\ Path[Parent[b]] \in Seq(Id)
    BY <2>1, CursorOnParent
  <2>3. MarkDead(b) /\ nodes' = nodes
    BY <1>10 DEF RejectPermanent
  <2>4. /\ pending' \subseteq Block /\ nodes' \cap pending' = {}
        /\ nodes' \cap DOMAIN stashed' = {}
        /\ ergo' \in [nodes \cup pending' -> Nat]
        /\ DOMAIN stashed' \subseteq Block
        /\ stashed' \in [DOMAIN stashed' -> Bodies]
        /\ dead' \subseteq Block
    BY <2>1, <2>3, MarkDeadType
  <2>. QED
    BY <1>10, <2>1, <2>2, <2>4 DEF TypeOK, CursorInv, RejectPermanent, obsVars
<1>11. CASE RejectTransient
  <2>. DEFINE b == Popped
              at == SwitchTo(Parent[b])
  <2>1. /\ b \in Block /\ Rest \in Seq(Block) /\ Parent[b] \in nodes
    BY <1>11, ReadyType DEF RejectTransient
  <2>2. /\ at.chain = Path[Parent[b]] /\ at.undo \in 0 .. STATE_RETENTION_BLOCKS
        /\ Path[Parent[b]] \in Seq(Id)
    BY <2>1, CursorOnParent
  <2>3. stashed' \in [DOMAIN stashed \ {b} -> Bodies]
    BY <1>11, DropType DEF TypeOK, RejectTransient
  <2>. QED
    BY <1>11, <2>1, <2>2, <2>3 DEF TypeOK, CursorInv, RejectTransient, obsVars
<1>12. CASE RefreshCanonical
  <2>1. PICK best \in nodes :
          /\ canonical' = best /\ materialized' = best
          /\ chain' = SwitchTo(best).chain /\ undo' = SwitchTo(best).undo
    BY <1>12 DEF RefreshCanonical
  <2>2. /\ chain' = Path[best] /\ undo' \in 0 .. STATE_RETENTION_BLOCKS
        /\ Path[best] \in Seq(Id)
    BY <2>1, CursorOnParent
  <2>. QED
    BY <1>12, <2>1, <2>2 DEF TypeOK, CursorInv, RefreshCanonical, treeVars, obsVars
<1>13. CASE UNCHANGED vars
  BY <1>13 DEF TypeOK, CursorInv, vars, treeVars, cursorVars, obsVars
<1>. QED
  BY <1>1, <1>2, <1>3, <1>4, <1>5, <1>6, <1>7, <1>8, <1>9, <1>10, <1>11, <1>12,
     <1>13 DEF Next, Calls, Steps

\* Every reachable state of the fork choice is well typed.
THEOREM TypeCorrect == Spec => []TypeOK
<1>1. TypeInv => TypeOK
  BY DEF TypeInv
<1>. QED
  BY <1>1, TypeInit, TypeStep, PTL DEF Spec

--------------------------------------------------------------------------------
(* The validated tree and the dead blocks *)

TreeDeadInv == TypeInv /\ TreeInv /\ DeadPrefix

\* mark_dead leaves no stashed child behind.
LEMMA KilledClosed ==
  ASSUME NEW b \in Block, NEW c \in Block, c \in DOMAIN stashed,
         Parent[c] \in Killed(b), DOMAIN stashed \subseteq Block
  PROVE  c \in Killed(b)
<1>. DEFINE p == Parent[c]
<1>1. p \in Block /\ p \in Id /\ Anc(c) = Anc(p) \cup {c}
  BY KilledBlocks, AncStep
<1>2. b \in Id /\ b \in Anc(p)
  <2>1. CASE p = b
    BY <2>1, AncSelf DEF Id
  <2>2. CASE p # b
    BY <2>2 DEF Killed, Id
  <2>. QED
    BY <2>1, <2>2
<1>3. ASSUME NEW x \in Anc(p) \ {b}, b \in Anc(x)
      PROVE  x \in DOMAIN stashed
  <2>1. CASE p = b
    BY <1>2, <1>3, <2>1, AncAntisymmetric
  <2>2. CASE p # b
    BY <1>3, <2>2 DEF Killed
  <2>. QED
    BY <2>1, <2>2
<1>. QED
  BY <1>1, <1>2, <1>3 DEF Killed

\* A permanent verdict is about bytes the id commits to.
LEMMA PermanentFault ==
  ASSUME NEW b \in Block, NEW body \in Bodies, NEW t,
         Verdict(b, body, t) = "permanent"
  PROVE  Fault[b] # "none"
<1>1. Fault[b] \in Faults
  BY ParamAssumption
<1>2. SUFFICES ASSUME Fault[b] = "none" PROVE Verdict(b, body, t) # "permanent"
  OBVIOUS
<1>3. CASE Ts[b] > t + MAX_FUTURE_DRIFT
  BY <1>2, <1>3 DEF Verdict
<1>4. CASE ~ (Ts[b] > t + MAX_FUTURE_DRIFT)
  BY <1>2, <1>4 DEF Verdict
<1>. QED
  BY <1>3, <1>4

\* mark_dead of a block whose ancestry has a fault keeps tree and verdicts apart.
LEMMA MarkDeadStep ==
  ASSUME TreeDeadInv, TypeInv', NEW b \in Block, b \notin nodes, MarkDead(b),
         nodes' = nodes, work' = work,
         \E x \in Anc(b) \ {Genesis} : Fault[x] # "none"
  PROVE  TreeInv' /\ DeadPrefix'
<1>. USE DEF TreeDeadInv
<1>1. DOMAIN stashed \subseteq Block /\ Killed(b) \subseteq Block
  BY KilledBlocks DEF TypeInv, TypeOK
<1>2. Killed(b) \cap nodes = {}
  BY DEF TreeInv, Killed
<1>3. TreeInv'
  <2>1. nodes' \cap dead' = {} /\ nodes' \cap pending' = {}
    BY <1>2 DEF TreeInv, MarkDead
  <2>. QED
    BY <2>1 DEF TreeInv, TypeInv
<1>4. /\ dead' = dead \cup Killed(b) /\ pending' = pending \ Killed(b)
      /\ DOMAIN stashed' = DOMAIN stashed \ Killed(b)
  BY DEF MarkDead, Drop
<1>5. dead' \cap (pending' \cup DOMAIN stashed') = {}
  BY <1>4 DEF DeadPrefix
<1>6. ASSUME NEW c \in Block, Parent[c] \in dead'
      PROVE  c \notin nodes' \cup DOMAIN stashed'
  <2>1. CASE Parent[c] \in dead
    BY <1>4, <2>1 DEF DeadPrefix
  <2>2. CASE Parent[c] \in Killed(b)
    <3>1. c \notin nodes
      <4>1. Parent[c] \in Anc(c)
        BY AncStep, AncSelf
      <4>. QED
        BY <1>2, <2>2, <4>1 DEF TreeInv
    <3>2. c \notin DOMAIN stashed'
      BY <1>1, <1>4, <2>2, KilledClosed
    <3>. QED
      BY <3>1, <3>2
  <2>. QED
    BY <1>4, <1>6, <2>1, <2>2
<1>7. ASSUME NEW d \in dead'
      PROVE  \E x \in Anc(d) \ {Genesis} : Fault[x] # "none"
  <2>1. CASE d \in dead
    BY <2>1 DEF DeadPrefix
  <2>2. CASE d \in Killed(b)
    <3>1. d \in Id /\ b \in Id /\ b \in Anc(d)
      BY <1>1, <2>2, AncSelf DEF Killed, Id
    <3>. QED
      BY <3>1, AncTransitive
  <2>. QED
    BY <1>4, <2>1, <2>2
<1>. QED
  BY <1>3, <1>5, <1>6, <1>7 DEF DeadPrefix

\* A new fork choice is a one-node tree without verdicts.
LEMMA TreeDeadInit == Init => TreeDeadInv
<1>1. SUFFICES ASSUME Init PROVE TreeDeadInv
  OBVIOUS
<1>. QED
  BY <1>1, TypeInit, AncGenesis DEF Init, TreeDeadInv, TreeInv, DeadPrefix

\* Validating a block grows the tree at a leaf (try_activate).
LEMMA ActivateStep ==
  ASSUME TypeInv, Activate
  PROVE  /\ Popped \in Block /\ Popped \in pending /\ Popped \in DOMAIN stashed
         /\ Parent[Popped] \in nodes
         /\ nodes' = nodes \cup {Popped}
         /\ pending' = pending \ {Popped}
         /\ DOMAIN stashed' = DOMAIN stashed \ {Popped}
         /\ work'[Popped] = work[Parent[Popped]] + Work[Popped]
         /\ \A n \in nodes : work'[n] = work[n]
         /\ dead' = dead /\ approved' = approved /\ canonical' = canonical
         /\ phase = "activate" /\ phase' = phase
<1>1. /\ Popped \in Block /\ Popped \in pending /\ Popped \in DOMAIN stashed
      /\ Parent[Popped] \in nodes
  BY ReadyType DEF TypeInv, Activate
<1>2. Popped \notin nodes
  BY <1>1 DEF TypeInv
<1>3. work' = Put(work, Popped, work[Parent[Popped]] + Work[Popped])
  BY DEF Activate
<1>4. work \in [nodes -> Nat]
  BY DEF TypeInv, TypeOK
<1>5. /\ work'[Popped] = work[Parent[Popped]] + Work[Popped]
      /\ \A n \in nodes : work'[n] = work[n]
  BY <1>2, <1>3, <1>4, PutValue
<1>. QED
  BY <1>1, <1>5 DEF Activate, Drop, obsVars

\* Every step keeps the tree apart from the dead verdicts.
LEMMA TreeDeadStep == TreeDeadInv /\ [Next]_vars => TreeDeadInv'
<1>. SUFFICES ASSUME TreeDeadInv, [Next]_vars PROVE TreeDeadInv'
  OBVIOUS
<1>0. TypeInv'
  BY TypeStep DEF TreeDeadInv
<1>. USE DEF TreeDeadInv
<1>1. ASSUME /\ nodes' = nodes /\ work' = work /\ dead' = dead
             /\ pending' = pending /\ stashed' = stashed
      PROVE  TreeDeadInv'
  BY <1>0, <1>1 DEF TreeInv, DeadPrefix
<1>2. ASSUME NEW b \in Block, NEW h \in ErgoHeight, IngestNewShare(b, h)
      PROVE  TreeDeadInv'
  BY <1>0, <1>2 DEF TreeInv, DeadPrefix, IngestNewShare
<1>3. ASSUME NEW b \in Block, NEW body \in Bodies, IngestDeadBody(b, body)
      PROVE  TreeDeadInv'
  <2>1. Parent[b] \in dead /\ Parent[b] \in Block /\ Parent[b] \in Id
    BY <1>3 DEF IngestDeadBody, TypeInv, TypeOK, Id
  <2>2. \E x \in Anc(b) \ {Genesis} : Fault[x] # "none"
    BY <2>1, AncStep DEF DeadPrefix
  <2>3. b \notin nodes /\ MarkDead(b) /\ nodes' = nodes /\ work' = work
    BY <1>3 DEF IngestDeadBody
  <2>. QED
    BY <1>0, <2>2, <2>3, MarkDeadStep
<1>4. ASSUME NEW b \in Block, NEW body \in Bodies, IngestBody(b, body)
      PROVE  TreeDeadInv'
  <2>1. DOMAIN stashed' \subseteq DOMAIN stashed \cup {b}
    BY <1>4 DEF IngestBody, Put
  <2>. QED
    BY <1>0, <1>4, <2>1 DEF TreeInv, DeadPrefix, IngestBody
<1>5. CASE Activate
  <2>. DEFINE b == Popped
  <2>1. /\ b \in Block /\ b \in pending /\ b \in DOMAIN stashed
        /\ Parent[b] \in nodes /\ nodes' = nodes \cup {b}
        /\ pending' = pending \ {b} /\ DOMAIN stashed' = DOMAIN stashed \ {b}
        /\ work'[b] = work[Parent[b]] + Work[b]
        /\ \A n \in nodes : work'[n] = work[n]
        /\ dead' = dead
    BY <1>5, ActivateStep
  <2>. HIDE DEF b
  <2>2. b \notin nodes /\ b \notin dead
    BY <2>1 DEF TreeInv, DeadPrefix
  <2>3. Anc(b) = Anc(Parent[b]) \cup {b}
    BY <2>1, AncStep
  <2>4. \A n \in nodes' : Anc(n) \subseteq nodes'
    BY <2>1, <2>3 DEF TreeInv
  <2>5. ASSUME NEW n \in nodes' \ {Genesis}
        PROVE  work'[n] = work'[Parent[n]] + Work[n]
    <3>1. CASE n = b
      BY <2>1, <3>1
    <3>2. CASE n \in nodes
      <4>1. n \in Block
        BY <2>5, <3>2 DEF TypeInv, TypeOK, Id
      <4>2. Parent[n] \in nodes
        BY <3>2, <4>1, AncStep, AncSelf DEF TreeInv
      <4>. QED
        BY <2>1, <2>5, <3>2, <4>2 DEF TreeInv
    <3>. QED
      BY <2>1, <2>5, <3>1, <3>2
  <2>6. TreeInv'
    BY <1>0, <2>1, <2>2, <2>4, <2>5 DEF TreeInv
  <2>7. DeadPrefix'
    BY <2>1, <2>2 DEF TreeInv, DeadPrefix
  <2>. QED
    BY <1>0, <2>6, <2>7
<1>6. CASE RejectPermanent
  <2>. DEFINE b == Popped
  <2>1. b \in Block /\ b \in pending /\ b \in DOMAIN stashed
    BY <1>6, ReadyType DEF RejectPermanent, TypeInv
  <2>2. MarkDead(b) /\ nodes' = nodes /\ work' = work
    BY <1>6 DEF RejectPermanent
  <2>3. stashed[b] \in Bodies
    BY <2>1 DEF TypeInv, TypeOK
  <2>4. Fault[b] # "none"
    BY <1>6, <2>1, <2>3, PermanentFault DEF RejectPermanent
  <2>5. b \in Anc(b) \ {Genesis}
    BY <2>1, AncSelf, TreeAssumption DEF Id
  <2>6. b \notin nodes
    BY <2>1 DEF TreeInv
  <2>. HIDE DEF b
  <2>. QED
    BY <1>0, <2>1, <2>2, <2>4, <2>5, <2>6, MarkDeadStep
<1>7. CASE RejectTransient
  <2>1. DOMAIN stashed' \subseteq DOMAIN stashed
    BY <1>7 DEF RejectTransient, Drop
  <2>. QED
    BY <1>0, <1>7, <2>1 DEF RejectTransient, TreeInv, DeadPrefix
<1>8. ASSUME NEW b \in Block, NEW h \in ErgoHeight, IngestKnownShare(b, h)
      PROVE  TreeDeadInv'
  BY <1>1, <1>8 DEF IngestKnownShare
<1>9. ASSUME \/ \E b \in Block, h \in ErgoHeight : RecordAnchor(b, h) \/ Approve(b, h)
             \/ \E t \in 0 .. MaxNow : Tick(t)
             \/ SkipUnready
             \/ RefreshCanonical
             \/ UNCHANGED vars
      PROVE  TreeDeadInv'
  BY <1>1, <1>9 DEF RecordAnchor, Approve, Tick, SkipUnready, RefreshCanonical,
                    vars, treeVars
<1>. QED
  BY <1>2, <1>3, <1>4, <1>5, <1>6, <1>7, <1>8, <1>9 DEF Next, Calls, Steps

\* A block is validated, pending or dead but never two of these, the tree is
\* closed under prev_id and every node carries the work of its branch.
THEOREM TreeCorrect == Spec => []TreeInv
<1>1. TreeDeadInv => TreeInv
  BY DEF TreeDeadInv
<1>. QED
  BY <1>1, TreeDeadInit, TreeDeadStep, PTL DEF Spec

\* Only a fault the id commits to kills a block, and with it exactly its branch.
THEOREM DeadCorrect == Spec => []DeadPrefix
<1>1. TreeDeadInv => DeadPrefix
  BY DEF TreeDeadInv
<1>. QED
  BY <1>1, TreeDeadInit, TreeDeadStep, PTL DEF Spec

--------------------------------------------------------------------------------
(* No lost wake-up *)

ReadyInv == TypeInv /\ QueueInv

\* Popping the work list loses no other block.
LEMMA RestKeeps ==
  ASSUME queue \in Seq(Block), NEW i \in DOMAIN queue, queue[i] # Popped
  PROVE  \E j \in DOMAIN Rest : Rest[j] = queue[i]
<1>1. /\ Len(queue) \in Nat /\ DOMAIN queue = 1 .. Len(queue)
      /\ i \in 1 .. Len(queue)
  OBVIOUS
<1>2. i # Len(queue)
  BY DEF Popped
<1>3. i \in 1 .. Len(queue) - 1
  BY <1>1, <1>2
<1>4. DOMAIN Rest = 1 .. Len(queue) - 1 /\ Rest[i] = queue[i]
  BY <1>1, <1>3 DEF Rest
<1>. QED
  BY <1>3, <1>4

\* A step that makes no block ready and pops one that is ready no more.
LEMMA PopStep ==
  ASSUME ReadyInv, queue # <<>>, queue' = Rest, phase = "activate", phase' = phase,
         \A x \in Block : Ready(x)' => Ready(x) /\ x # Popped
  PROVE  QueueInv'
<1>. SUFFICES ASSUME NEW x \in Block, Ready(x)'
              PROVE  \E j \in DOMAIN queue' : queue'[j] = x
  BY DEF QueueInv
<1>1. PICK i \in DOMAIN queue : queue[i] = x
  BY DEF ReadyInv, QueueInv
<1>2. x # Popped
  OBVIOUS
<1>3. queue \in Seq(Block)
  BY DEF ReadyInv, TypeInv, TypeOK
<1>. QED
  BY <1>1, <1>2, <1>3, RestKeeps

\* A call enters the loop with the only block it may have made ready.
LEMMA EnterStep ==
  ASSUME ReadyInv, phase = "idle", phase' = "activate", NEW b \in Block,
         queue' = <<b>>, \A x \in Block : Ready(x)' => Ready(x) \/ x = b
  PROVE  QueueInv'
<1>1. \A x \in Block : ~ Ready(x)
  BY DEF ReadyInv, QueueInv
<1>2. 1 \in DOMAIN <<b>> /\ <<b>>[1] = b
  OBVIOUS
<1>. QED
  BY <1>1, <1>2 DEF QueueInv

\* A step between calls, or the last one of a call, leaves nothing ready.
LEMMA RestStep ==
  ASSUME ReadyInv, queue = <<>>, queue' = queue,
         \A x \in Block : Ready(x)' => Ready(x)
  PROVE  QueueInv'
<1>1. DOMAIN queue = {}
  OBVIOUS
<1>. QED
  BY <1>1 DEF ReadyInv, QueueInv

\* At start nothing is ready and no call is in progress.
LEMMA ReadyInit == Init => ReadyInv
<1>1. SUFFICES ASSUME Init PROVE ReadyInv
  OBVIOUS
<1>. QED
  BY <1>1, TypeInit DEF Init, ReadyInv, QueueInv, Ready

\* Every step leaves each ready block in the work list of its call.
LEMMA ReadyStep == ReadyInv /\ [Next]_vars => ReadyInv'
<1>. SUFFICES ASSUME ReadyInv, [Next]_vars PROVE QueueInv'
  BY TypeStep DEF ReadyInv
<1>0. phase = "idle" => queue = <<>>
  BY DEF ReadyInv, QueueInv
<1>1. ASSUME NEW b \in Block, NEW h \in ErgoHeight, IngestKnownShare(b, h)
      PROVE  QueueInv'
  <2>1. \A x \in Block : ~ Ready(x)
    BY <1>1, <1>0 DEF IngestKnownShare, ReadyInv, QueueInv
  <2>2. \A x \in Block : ~ Ready(x)'
    BY <1>1, <2>1 DEF IngestKnownShare, Ready
  <2>. QED
    BY <1>1, <2>2 DEF IngestKnownShare, QueueInv
<1>2. ASSUME NEW b \in Block, NEW h \in ErgoHeight, IngestNewShare(b, h)
      PROVE  QueueInv'
  BY <1>2, EnterStep DEF IngestNewShare, Ready
<1>3. ASSUME NEW b \in Block, NEW h \in ErgoHeight,
             RecordAnchor(b, h) \/ Approve(b, h)
      PROVE  QueueInv'
  BY <1>0, <1>3, RestStep DEF RecordAnchor, Approve, Ready, treeVars
<1>4. ASSUME NEW b \in Block, NEW body \in Bodies, IngestDeadBody(b, body)
      PROVE  QueueInv'
  BY <1>0, <1>4, RestStep DEF IngestDeadBody, MarkDead, Drop, Ready
<1>5. ASSUME NEW b \in Block, NEW body \in Bodies, IngestBody(b, body)
      PROVE  QueueInv'
  <2>1. DOMAIN stashed' \subseteq DOMAIN stashed \cup {b}
    BY <1>5 DEF IngestBody, Put
  <2>. QED
    BY <1>5, <2>1, EnterStep DEF IngestBody, Ready
<1>6. ASSUME NEW t \in 0 .. MaxNow, Tick(t)
      PROVE  QueueInv'
  BY <1>0, <1>6, RestStep DEF Tick, Ready, treeVars
<1>7. CASE SkipUnready
  BY <1>7, PopStep DEF SkipUnready, Ready, treeVars
<1>8. CASE Activate
  <2>. DEFINE b == Popped
  <2>1. /\ b \in Block /\ nodes' = nodes \cup {b} /\ pending' = pending \ {b}
        /\ DOMAIN stashed' = DOMAIN stashed \ {b} /\ phase' = "activate"
    BY <1>8, ActivateStep DEF ReadyInv
  <2>2. PICK kids \in Listings(WaitingChildren(b)) : queue' = Rest \o kids
    BY <1>8 DEF Activate
  <2>3. /\ queue \in Seq(Block) /\ Rest \in Seq(Block)
        /\ WaitingChildren(b) \subseteq Block
    BY <1>8, PopType DEF Activate, ReadyInv, TypeInv, TypeOK, WaitingChildren
  <2>4. Cardinality(WaitingChildren(b)) \in Nat
    BY <2>3, TreeAssumption, FS_Subset, FS_CardinalityType
  <2>5. kids \in Seq(Block)
    <3>1. kids \in [1 .. Cardinality(WaitingChildren(b)) -> WaitingChildren(b)]
      BY <2>2 DEF Listings
    <3>. QED
      BY <2>3, <2>4, <3>1
  <2>. SUFFICES ASSUME NEW x \in Block, Ready(x)'
                PROVE  \E j \in DOMAIN queue' : queue'[j] = x
    BY <2>1 DEF QueueInv
  <2>6. x # b /\ x \in DOMAIN stashed /\ x \in pending /\ Parent[x] \in nodes \cup {b}
    BY <2>1 DEF Ready
  <2>7. CASE Parent[x] = b
    <3>1. x \in WaitingChildren(b)
      BY <2>6, <2>7 DEF WaitingChildren
    <3>2. PICK i \in DOMAIN kids : kids[i] = x
      BY <2>2, <3>1 DEF Listings
    <3>. HIDE DEF b
    <3>3. /\ Len(Rest) + i \in DOMAIN (Rest \o kids)
          /\ (Rest \o kids)[Len(Rest) + i] = kids[i]
      BY <2>3, <2>5
    <3>. QED
      BY <2>2, <3>2, <3>3
  <2>8. CASE Parent[x] \in nodes
    <3>1. PICK i \in DOMAIN queue : queue[i] = x
      BY <2>6, <2>8 DEF ReadyInv, QueueInv, Ready
    <3>2. PICK j \in DOMAIN Rest : Rest[j] = x
      BY <2>3, <2>6, <3>1, RestKeeps
    <3>. HIDE DEF b
    <3>3. j \in DOMAIN (Rest \o kids) /\ (Rest \o kids)[j] = Rest[j]
      BY <2>3, <2>5
    <3>. QED
      BY <2>2, <3>2, <3>3
  <2>. QED
    BY <2>6, <2>7, <2>8
<1>9. CASE RejectPermanent
  <2>1. Popped \in Killed(Popped)
    BY DEF Killed
  <2>. QED
    BY <1>9, <2>1, PopStep DEF RejectPermanent, MarkDead, Drop, Ready
<1>10. CASE RejectTransient
  BY <1>10, PopStep DEF RejectTransient, Drop, Ready
<1>11. CASE RefreshCanonical
  BY <1>11, RestStep DEF RefreshCanonical, treeVars, Ready
<1>12. CASE UNCHANGED vars
  BY <1>12 DEF vars, treeVars, ReadyInv, QueueInv, Ready
<1>. QED
  BY <1>1, <1>2, <1>3, <1>4, <1>5, <1>6, <1>7, <1>8, <1>9, <1>10, <1>11, <1>12
  DEF Next, Calls, Steps

\* No call returns with a block that has share, body and validated parent waiting.
THEOREM WakeUpCorrect == Spec => []NoReadyLeftBehind
<1>1. ReadyInv => NoReadyLeftBehind
  BY DEF ReadyInv, QueueInv, NoReadyLeftBehind
<1>. QED
  BY <1>1, ReadyInit, ReadyStep, PTL DEF Spec

--------------------------------------------------------------------------------
(* The canonical tip *)

TipInv == TypeInv /\ CursorOnTip /\ HeaviestTip

\* At start the cursor stands on genesis.
LEMMA TipInit == Init => TipInv
<1>1. SUFFICES ASSUME Init PROVE TipInv
  OBVIOUS
<1>. QED
  BY <1>1, TypeInit DEF Init, TipInv, TypeInv, CursorInv, CursorOnTip, HeaviestTip

\* Every step keeps the cursor on a path, and a call ends on the heaviest tip.
LEMMA TipStep == TipInv /\ [Next]_vars => TipInv'
<1>. SUFFICES ASSUME TipInv, [Next]_vars PROVE TipInv'
  OBVIOUS
<1>0. TypeInv'
  BY TypeStep DEF TipInv
<1>1. ASSUME phase' = "activate" PROVE TipInv'
  BY <1>0, <1>1 DEF TipInv, CursorOnTip, HeaviestTip
<1>2. ASSUME phase' = phase, nodes' = nodes, work' = work, UNCHANGED cursorVars
      PROVE  TipInv'
  BY <1>0, <1>2 DEF TipInv, CursorOnTip, HeaviestTip, cursorVars
<1>3. ASSUME NEW b \in Block, NEW h \in ErgoHeight,
             IngestKnownShare(b, h) \/ IngestNewShare(b, h)
      PROVE  TipInv'
  BY <1>1, <1>3 DEF IngestKnownShare, IngestNewShare
<1>4. ASSUME NEW b \in Block, NEW h \in ErgoHeight,
             RecordAnchor(b, h) \/ Approve(b, h)
      PROVE  TipInv'
  BY <1>2, <1>4 DEF RecordAnchor, Approve, treeVars
<1>5. ASSUME NEW b \in Block, NEW body \in Bodies,
             IngestDeadBody(b, body) \/ IngestBody(b, body)
      PROVE  TipInv'
  BY <1>1, <1>2, <1>5 DEF IngestDeadBody, IngestBody
<1>6. ASSUME NEW t \in 0 .. MaxNow, Tick(t)
      PROVE  TipInv'
  BY <1>2, <1>6 DEF Tick, treeVars
<1>7. CASE SkipUnready \/ Activate \/ RejectPermanent \/ RejectTransient
  BY <1>1, <1>7 DEF SkipUnready, Activate, RejectPermanent, RejectTransient
<1>8. CASE RefreshCanonical
  <2>1. PICK best \in nodes :
          /\ \A n \in nodes : ~ Preferred(n, best)
          /\ canonical' = best /\ materialized' = best
    BY <1>8 DEF RefreshCanonical
  <2>2. nodes' = nodes /\ work' = work
    BY <1>8 DEF RefreshCanonical, treeVars
  <2>3. ASSUME NEW n \in nodes PROVE work[n] <= work[best]
    <3>1. work[n] \in Nat /\ work[best] \in Nat
      BY <2>1 DEF TipInv, TypeInv, TypeOK
    <3>2. n = best \/ ~ (work[n] > work[best])
      BY <2>1 DEF Preferred
    <3>. QED
      BY <3>1, <3>2
  <2>. QED
    BY <1>0, <2>1, <2>2, <2>3
    DEF TipInv, TypeInv, CursorInv, CursorOnTip, HeaviestTip
<1>9. CASE UNCHANGED vars
  BY <1>2, <1>9 DEF vars, treeVars
<1>. QED
  BY <1>3, <1>4, <1>5, <1>6, <1>7, <1>8, <1>9 DEF Next, Calls, Steps

\* Between calls the Chain holds exactly the canonical branch.
THEOREM CursorCorrect == Spec => []CursorOnTip
<1>1. TipInv => CursorOnTip
  BY DEF TipInv
<1>. QED
  BY <1>1, TipInit, TipStep, PTL DEF Spec

\* Between calls no validated block is heavier than the canonical tip.
THEOREM HeaviestCorrect == Spec => []HeaviestTip
<1>1. TipInv => HeaviestTip
  BY DEF TipInv
<1>. QED
  BY <1>1, TipInit, TipStep, PTL DEF Spec

--------------------------------------------------------------------------------
(* Peg finality *)

FinalInv == TreeDeadInv /\ ApprovalInv

\* The weights ApprovalInv compares are natural numbers.
LEMMA ApprovalTypes ==
  ASSUME TypeInv, NEW a \in approved, NEW n \in nodes
  PROVE  /\ a.id \in Block /\ a.known \subseteq Block
         /\ work[n] \in Nat /\ LateWork(a, n) \in Nat
         /\ SumWork[pending \cap a.known] \in Nat
         /\ L_FINAL \in Nat \ {0}
<1>1. a.id \in Block /\ a.known \subseteq Block /\ pending \subseteq Block
      /\ n \in Id /\ work[n] \in Nat
  BY DEF TypeInv, TypeOK
<1>2. Anc(n) \ (a.known \cup {Genesis}) \in SUBSET Block
  BY <1>1, AncSelf DEF Id
<1>3. pending \cap a.known \in SUBSET Block
  BY <1>1
<1>. QED
  BY <1>1, <1>2, <1>3, WorkAssumption, ParamAssumption DEF LateWork

\* A step that validates nothing keeps every approval.
LEMMA ApprovalKept ==
  ASSUME FinalInv, nodes' = nodes, work' = work, approved' = approved,
         \A a \in approved : /\ a.known \subseteq nodes' \cup pending' \cup dead'
                             /\ pending' \cap a.known \subseteq pending \cap a.known
  PROVE  ApprovalInv'
<1>. SUFFICES ASSUME NEW a \in approved
              PROVE  \E s \in nodes :
                       /\ a.id \in Anc(s)
                       /\ \A n \in nodes :
                            a.id \notin Anc(n) =>
                              work[n] + SumWork[pending' \cap a.known] + L_FINAL
                                <= work[s] + LateWork(a, n)
  BY DEF ApprovalInv, LateWork
<1>1. PICK s \in nodes :
        /\ a.id \in Anc(s)
        /\ \A n \in nodes :
             a.id \notin Anc(n) =>
               work[n] + SumWork[pending \cap a.known] + L_FINAL
                 <= work[s] + LateWork(a, n)
  BY DEF FinalInv, ApprovalInv
<1>2. pending \subseteq Block
  BY DEF FinalInv, TreeDeadInv, TypeInv, TypeOK
<1>3. /\ SumWork[pending' \cap a.known] \in Nat
      /\ SumWork[pending' \cap a.known] <= SumWork[pending \cap a.known]
  BY <1>2, SumWorkMonotone
<1>4. ASSUME NEW n \in nodes, a.id \notin Anc(n)
      PROVE  work[n] + SumWork[pending' \cap a.known] + L_FINAL
               <= work[s] + LateWork(a, n)
  <2>1. work[n] + SumWork[pending \cap a.known] + L_FINAL
          <= work[s] + LateWork(a, n)
    BY <1>1, <1>4
  <2>2. /\ work[n] \in Nat /\ work[s] \in Nat /\ LateWork(a, n) \in Nat
        /\ SumWork[pending \cap a.known] \in Nat /\ L_FINAL \in Nat
    BY ApprovalTypes DEF FinalInv, TreeDeadInv
  <2>. QED
    BY <1>3, <2>1, <2>2
<1>. QED
  BY <1>1, <1>4

\* Validating a block: its work was charged as pending, or it is late work.
LEMMA ApprovalActivate ==
  ASSUME FinalInv, Activate
  PROVE  ApprovalInv'
<1>. DEFINE b == Popped
            p == Parent[Popped]
<1>1. /\ b \in Block /\ b \in pending /\ p \in nodes
      /\ nodes' = nodes \cup {b} /\ pending' = pending \ {b}
      /\ work'[b] = work[p] + Work[b] /\ \A n \in nodes : work'[n] = work[n]
      /\ dead' = dead /\ approved' = approved
  BY ActivateStep DEF FinalInv, TreeDeadInv
<1>2. Anc(b) = Anc(p) \cup {b} /\ b # Genesis
  BY <1>1, AncStep, TreeAssumption
<1>3. pending \subseteq Block /\ b \notin nodes
  BY <1>1 DEF FinalInv, TreeDeadInv, TypeInv, TypeOK
<1>. HIDE DEF b, p
<1>. SUFFICES ASSUME NEW a \in approved
              PROVE  \E s \in nodes' :
                       /\ a.id \in Anc(s)
                       /\ \A n \in nodes' :
                            a.id \notin Anc(n) =>
                              work'[n] + SumWork[pending' \cap a.known] + L_FINAL
                                <= work'[s] + LateWork(a, n)
  BY <1>1 DEF FinalInv, ApprovalInv, LateWork
<1>4. PICK s \in nodes :
        /\ a.id \in Anc(s)
        /\ \A n \in nodes :
             a.id \notin Anc(n) =>
               work[n] + SumWork[pending \cap a.known] + L_FINAL
                 <= work[s] + LateWork(a, n)
  BY DEF FinalInv, ApprovalInv
<1>5. /\ SumWork[pending' \cap a.known] \in Nat
      /\ SumWork[pending' \cap a.known] <= SumWork[pending \cap a.known]
  BY <1>1, <1>3, SumWorkMonotone
<1>6. ASSUME NEW n \in nodes, a.id \notin Anc(n)
      PROVE  work[n] + SumWork[pending' \cap a.known] + L_FINAL
               <= work[s] + LateWork(a, n)
  <2>1. work[n] + SumWork[pending \cap a.known] + L_FINAL
          <= work[s] + LateWork(a, n)
    BY <1>4, <1>6
  <2>2. /\ work[n] \in Nat /\ work[s] \in Nat /\ LateWork(a, n) \in Nat
        /\ SumWork[pending \cap a.known] \in Nat /\ L_FINAL \in Nat
    BY ApprovalTypes DEF FinalInv, TreeDeadInv
  <2>. QED
    BY <1>5, <2>1, <2>2
<1>7. ASSUME a.id \notin Anc(b)
      PROVE  work[p] + Work[b] + SumWork[pending' \cap a.known] + L_FINAL
               <= work[s] + LateWork(a, b)
  <2>1. work[p] + SumWork[pending \cap a.known] + L_FINAL
          <= work[s] + LateWork(a, p)
    BY <1>1, <1>2, <1>4, <1>7
  <2>2. /\ work[p] \in Nat /\ work[s] \in Nat /\ LateWork(a, p) \in Nat
        /\ SumWork[pending \cap a.known] \in Nat /\ L_FINAL \in Nat
        /\ Work[b] \in Nat /\ a.known \subseteq Block
    BY <1>1, ApprovalTypes, WorkAssumption DEF FinalInv, TreeDeadInv
  <2>3. CASE b \in a.known
    <3>1. /\ b \notin pending' \cap a.known
          /\ pending \cap a.known = (pending' \cap a.known) \cup {b}
          /\ pending' \cap a.known \in SUBSET Block
      BY <1>1, <1>3, <2>3
    <3>2. SumWork[pending \cap a.known] = SumWork[pending' \cap a.known] + Work[b]
      BY <1>1, <3>1, SumWorkAdd
    <3>3. Anc(b) \ (a.known \cup {Genesis}) = Anc(p) \ (a.known \cup {Genesis})
      BY <1>2, <2>3
    <3>4. LateWork(a, b) = LateWork(a, p)
      BY <3>3 DEF LateWork
    <3>. QED
      BY <1>5, <2>1, <2>2, <3>2, <3>4
  <2>4. CASE b \notin a.known
    <3>1. /\ Anc(b) \ (a.known \cup {Genesis})
               = (Anc(p) \ (a.known \cup {Genesis})) \cup {b}
          /\ Anc(p) \ (a.known \cup {Genesis}) \in SUBSET Block
          /\ b \notin Anc(p) \ (a.known \cup {Genesis})
      <4>1. Anc(p) \subseteq nodes /\ nodes \subseteq Id
        BY <1>1 DEF FinalInv, TreeDeadInv, TreeInv, TypeInv, TypeOK
      <4>. QED
        BY <1>2, <1>3, <2>4, <4>1 DEF Id
    <3>2. LateWork(a, b) = LateWork(a, p) + Work[b]
      BY <1>1, <3>1, SumWorkAdd DEF LateWork
    <3>. QED
      BY <1>5, <2>1, <2>2, <3>2
  <2>. QED
    BY <2>3, <2>4
<1>8. ASSUME NEW n \in nodes', a.id \notin Anc(n)
      PROVE  work'[n] + SumWork[pending' \cap a.known] + L_FINAL
               <= work'[s] + LateWork(a, n)
  <2>1. CASE n \in nodes
    BY <1>1, <1>6, <1>8, <2>1
  <2>2. CASE n = b
    BY <1>1, <1>7, <1>8, <2>2
  <2>. QED
    BY <1>1, <2>1, <2>2
<1>. QED
  BY <1>1, <1>4, <1>8

\* What is_final asks is what ApprovalInv states of the moment of the approval.
LEMMA ApprovalMade ==
  ASSUME FinalInv, NEW b \in Block, NEW h \in ErgoHeight, Approve(b, h)
  PROVE  ApprovalInv'
<1>. DEFINE k == (nodes \cup pending \cup dead) \ {Genesis}
            a == [id |-> b, known |-> k]
<1>1. /\ approved' = {a} /\ nodes' = nodes /\ work' = work
      /\ pending' = pending /\ dead' = dead
  BY DEF Approve, treeVars
<1>2. PICK s \in nodes :
        /\ b \in Anc(s)
        /\ HostileAtMost(b, work[s] - PendingHostileWork - L_FINAL)
  BY DEF Approve, IsFinal, IsAncestorOrEq
<1>3. pending \cap k = pending
  BY TreeAssumption DEF FinalInv, TreeDeadInv, TypeInv, TypeOK
<1>4. ASSUME NEW n \in nodes, b \notin Anc(n)
      PROVE  work[n] + SumWork[pending \cap k] + L_FINAL <= work[s] + LateWork(a, n)
  <2>1. work[n] <= work[s] - SumWork[pending] - L_FINAL
    BY <1>2, <1>4 DEF HostileAtMost, IsAncestorOrEq, PendingHostileWork
  <2>2. LateWork(a, n) = 0
    <3>1. Anc(n) \ (k \cup {Genesis}) = {}
      BY DEF FinalInv, TreeDeadInv, TreeInv
    <3>. QED
      BY <3>1, SumWorkEmpty DEF LateWork
  <2>3. /\ work[n] \in Nat /\ work[s] \in Nat /\ L_FINAL \in Nat
        /\ SumWork[pending] \in Nat
    BY WorkAssumption, ParamAssumption DEF FinalInv, TreeDeadInv, TypeInv, TypeOK
  <2>4. SumWork[pending \cap k] = SumWork[pending]
    BY <1>3
  <2>. HIDE DEF k, a
  <2>. QED
    BY <2>1, <2>2, <2>3, <2>4
<1>5. k \subseteq nodes' \cup pending' \cup dead'
  BY <1>1
<1>6. a.id = b /\ a.known = k
  OBVIOUS
<1>. HIDE DEF k, a
<1>. QED
  BY <1>1, <1>2, <1>4, <1>5, <1>6 DEF ApprovalInv, LateWork

\* At start nothing is approved.
LEMMA FinalInit == Init => FinalInv
<1>1. SUFFICES ASSUME Init PROVE FinalInv
  OBVIOUS
<1>. QED
  BY <1>1, TreeDeadInit DEF Init, FinalInv, ApprovalInv

\* Every step keeps the lead of every approved block.
LEMMA FinalStep == FinalInv /\ [Next]_vars => FinalInv'
<1>. SUFFICES ASSUME FinalInv, [Next]_vars PROVE ApprovalInv'
  BY TreeDeadStep DEF FinalInv
<1>0. \A a \in approved : a.known \subseteq nodes \cup pending \cup dead
  BY DEF FinalInv, ApprovalInv
<1>1. ASSUME nodes' = nodes, work' = work, pending' = pending, dead' = dead,
             approved' = approved
      PROVE  ApprovalInv'
  BY <1>0, <1>1, ApprovalKept
<1>2. ASSUME nodes' = nodes, work' = work, approved' = approved,
             NEW b \in Block, MarkDead(b)
      PROVE  ApprovalInv'
  BY <1>0, <1>2, ApprovalKept DEF MarkDead
<1>3. ASSUME NEW b \in Block, NEW h \in ErgoHeight, IngestNewShare(b, h)
      PROVE  ApprovalInv'
  BY <1>0, <1>3, ApprovalKept DEF IngestNewShare
<1>4. ASSUME NEW b \in Block, NEW h \in ErgoHeight, Approve(b, h)
      PROVE  ApprovalInv'
  BY <1>4, ApprovalMade
<1>5. ASSUME NEW b \in Block, NEW body \in Bodies, IngestDeadBody(b, body)
      PROVE  ApprovalInv'
  BY <1>2, <1>5 DEF IngestDeadBody
<1>6. CASE Activate
  BY <1>6, ApprovalActivate
<1>7. CASE RejectPermanent
  <2>1. Popped \in Block
    BY <1>7, ReadyType
    DEF RejectPermanent, FinalInv, TreeDeadInv, TypeInv
  <2>. QED
    BY <1>2, <1>7, <2>1 DEF RejectPermanent, obsVars
<1>8. ASSUME \/ \E b \in Block, h \in ErgoHeight :
                   IngestKnownShare(b, h) \/ RecordAnchor(b, h)
             \/ \E b \in Block, body \in Bodies : IngestBody(b, body)
             \/ \E t \in 0 .. MaxNow : Tick(t)
             \/ SkipUnready \/ RejectTransient \/ RefreshCanonical
             \/ UNCHANGED vars
      PROVE  ApprovalInv'
  BY <1>1, <1>8 DEF IngestKnownShare, RecordAnchor, IngestBody, Tick, SkipUnready,
                    RejectTransient, RefreshCanonical, vars, treeVars, obsVars
<1>. QED
  BY <1>3, <1>4, <1>5, <1>6, <1>7, <1>8 DEF Next, Calls, Steps

\* An approved block that is no ancestor of the heaviest tip was overtaken by at
\* least L_FINAL of late work.
LEMMA FinalImplies == FinalInv /\ TipInv => FinalityStable
<1>. SUFFICES ASSUME FinalInv, TipInv, phase = "idle", NEW a \in approved,
                     SumWork[LateShares(a)] < L_FINAL, a.id \notin Anc(canonical)
              PROVE  FALSE
  BY DEF FinalityStable, IsAncestorOrEq
<1>1. canonical \in nodes /\ nodes \subseteq Id /\ Anc(canonical) \subseteq nodes
      /\ pending \subseteq Block
  BY DEF FinalInv, TreeDeadInv, TreeInv, TypeInv, TypeOK
<1>2. PICK s \in nodes :
        work[canonical] + SumWork[pending \cap a.known] + L_FINAL
          <= work[s] + LateWork(a, canonical)
  BY <1>1 DEF FinalInv, ApprovalInv
<1>3. /\ LateShares(a) \in SUBSET Block
      /\ Anc(canonical) \ (a.known \cup {Genesis}) \in SUBSET LateShares(a)
  BY <1>1, AncTransitive DEF LateShares, Id
<1>4. /\ LateWork(a, canonical) \in Nat /\ SumWork[LateShares(a)] \in Nat
      /\ LateWork(a, canonical) <= SumWork[LateShares(a)]
  BY <1>3, SumWorkMonotone DEF LateWork
<1>5. work[s] <= work[canonical]
  BY DEF TipInv, HeaviestTip
<1>6. /\ work[canonical] \in Nat /\ work[s] \in Nat /\ L_FINAL \in Nat
      /\ SumWork[pending \cap a.known] \in Nat
  BY <1>1, ApprovalTypes DEF FinalInv, TreeDeadInv
<1>. QED
  BY <1>2, <1>4, <1>5, <1>6

\* Peg finality: no body revealed later, tie flipped or block found dead takes an
\* approved block off the canonical branch; only late work of L_FINAL or more can.
THEOREM FinalityCorrect == Spec => []FinalityStable
<1>1. FinalInv /\ TipInv => FinalityStable
  BY FinalImplies
<1>. QED
  BY <1>1, FinalInit, FinalStep, TipInit, TipStep, PTL DEF Spec

\* The inductive invariant the runs check as a whole.
THEOREM IndCorrect == Spec => []IndInv
<1>1. FinalInv /\ TipInv /\ ReadyInv => IndInv
  BY DEF FinalInv, TreeDeadInv, TypeInv, TipInv, ReadyInv, IndInv
<1>. QED
  BY <1>1, FinalInit, FinalStep, TipInit, TipStep, ReadyInit, ReadyStep, PTL DEF Spec

--------------------------------------------------------------------------------
(***************************************************************************)
(* MmForkChoice implements TipChoice, for every header tree, every work    *)
(* function and every retention depth: whenever a call returns, the        *)
(* canonical tip is a function of the shares and bodies offered so far.    *)
(*                                                                         *)
(* The one proviso is that no body is rejected transiently, for a clock    *)
(* that is behind or bytes the id does not commit to: such a body is       *)
(* dropped (RejectTransient) and has to be offered again.                  *)
(***************************************************************************)

(* The header tree *)

\* On the way from genesis to a block outside a set that holds genesis there is
\* a first block outside.
LEMMA FirstOutside ==
  ASSUME NEW b \in Id, NEW S, Genesis \in S, b \notin S
  PROVE  \E x \in Anc(b) : x \in Block /\ x \notin S /\ Parent[x] \in S
<1>. DEFINE p == Path[b]
            T == {i \in 1 .. Len(p) : p[i] \notin S}
<1>1. /\ p \in Seq(Id) /\ Len(p) \in Nat \ {0} /\ p[Len(p)] = b /\ p[1] = Genesis
      /\ DOMAIN p = 1 .. Len(p)
  BY PathEnd, PathHead
<1>2. Len(p) \in T /\ T \subseteq Nat
  BY <1>1
<1>3. PICK i \in T : \A j \in T : i <= j
  BY <1>2, LeastNat
<1>4. i \in 2 .. Len(p) /\ p[i] \notin S /\ p[i] \in Id
  BY <1>1
<1>5. i - 1 \in 1 .. Len(p) /\ p[i - 1] \in S
  BY <1>1, <1>3, <1>4
<1>. DEFINE x == p[i]
<1>6. x \in Block /\ x \in Anc(b)
  BY <1>1, <1>4 DEF Id, Anc
<1>7. Path[x] = SubSeq(p, 1, i)
  BY <1>1, <1>4, TreeAssumption
<1>8. Len(Path[x]) = i /\ Path[x][i - 1] = p[i - 1]
  BY <1>1, <1>4, <1>7
<1>9. Parent[x] \in Id /\ Path[x] = Append(Path[Parent[x]], x)
  BY <1>6, TreeAssumption
<1>10. /\ Path[Parent[x]] \in Seq(Id) /\ Len(Path[Parent[x]]) \in Nat \ {0}
       /\ Path[Parent[x]][Len(Path[Parent[x]])] = Parent[x]
  BY <1>9, PathEnd
<1>. HIDE DEF x, p
<1>11. Len(Path[Parent[x]]) = i - 1
  <2>1. Len(Path[x]) = Len(Path[Parent[x]]) + 1
    BY <1>9, <1>10
  <2>. QED
    BY <1>4, <1>8, <1>10, <2>1
<1>12. Parent[x] = p[i - 1]
  <2>1. Path[x][i - 1] = Path[Parent[x]][i - 1]
    BY <1>4, <1>9, <1>10, <1>11
  <2>. QED
    BY <1>8, <1>10, <1>11, <2>1
<1>. QED
  BY <1>4, <1>5, <1>6, <1>12 DEF x

\* Two ancestors of a block lie on one branch.
LEMMA AncChain ==
  ASSUME NEW b \in Id, NEW c \in Anc(b), NEW d \in Anc(b)
  PROVE  c \in Anc(d) \/ d \in Anc(c)
<1>1. PICK i \in DOMAIN Path[b], j \in DOMAIN Path[b] : c = Path[b][i] /\ d = Path[b][j]
  BY DEF Anc
<1>2. /\ Path[b] \in Seq(Id) /\ Len(Path[b]) \in Nat /\ i \in 1 .. Len(Path[b])
      /\ j \in 1 .. Len(Path[b])
  BY <1>1, PathEnd
<1>3. Path[c] = SubSeq(Path[b], 1, i) /\ Path[d] = SubSeq(Path[b], 1, j)
  BY <1>1, TreeAssumption
<1>4. CASE i <= j
  <2>1. i \in DOMAIN Path[d] /\ Path[d][i] = c
    BY <1>1, <1>2, <1>3, <1>4
  <2>. QED
    BY <2>1 DEF Anc
<1>5. CASE j <= i
  <2>1. j \in DOMAIN Path[c] /\ Path[c][j] = d
    BY <1>1, <1>2, <1>3, <1>5
  <2>. QED
    BY <2>1 DEF Anc
<1>. QED
  BY <1>2, <1>4, <1>5

\* A branch leaves another one at one block only, if at all.
LEMMA LeavesOnce ==
  ASSUME NEW a \in Id, NEW b \in Id, NEW x \in Anc(a) \ Anc(b), x \in Block,
         NEW y \in Anc(a) \ Anc(b), y \in Block,
         Parent[x] \in Anc(b), Parent[y] \in Anc(b)
  PROVE  x = y
<1>1. ASSUME NEW c \in Block, NEW d \in Block, c \in Anc(d), c # d,
             Parent[d] \in Anc(b)
      PROVE  c \in Anc(b)
  BY <1>1, AncStep, AncTransitive
<1>. QED
  BY <1>1, AncChain

--------------------------------------------------------------------------------
(* TipChoice's operators on the state of the fork choice *)

\* The two modules agree on ancestors and on which blocks the offers support.
LEMMA SameAnc == \A b : Choice!Anc(b) = Anc(b)
BY DEF Choice!Anc, Anc

\* A block is supported in one module iff it is in the other.
LEMMA SameSupported == \A b : Choice!Supported(b) <=> Supported(b)
BY SameAnc DEF Choice!Supported, Supported

\* A node carries the work of its whole branch (cumulative_work).
LEMMA NodeWork ==
  ASSUME TypeOK, TreeInv, NEW n \in nodes
  PROVE  work[n] = Choice!TotalWork(n)
<1>. DEFINE S == {m \in nodes : work[m] = SumWork[Anc(m) \ {Genesis}]}
<1>1. n \in Id /\ Anc(n) \subseteq nodes
  BY DEF TypeOK, TreeInv
<1>2. Genesis \in S
  <2>1. Anc(Genesis) \ {Genesis} = {}
    BY AncGenesis
  <2>. QED
    BY <2>1, SumWorkEmpty DEF TreeInv
<1>3. ASSUME NEW x \in Anc(n), x \in Block, Parent[x] \in S
      PROVE  x \in S
  <2>. DEFINE A == Anc(Parent[x]) \ {Genesis}
  <2>1. x \in nodes /\ x # Genesis /\ work[x] = work[Parent[x]] + Work[x]
    BY <1>1, <1>3, TreeAssumption DEF TreeInv
  <2>2. Parent[x] \in Id /\ Anc(x) \ {Genesis} = A \cup {x}
    BY <1>3, <2>1, AncStep
  <2>3. A \in SUBSET Block /\ x \notin A
    <3>1. Anc(Parent[x]) \subseteq Id
      BY <2>2, AncSelf
    <3>2. x \notin Anc(Parent[x])
      <4>1. Parent[x] \in Anc(x)
        BY <1>3, <2>2, AncStep, AncSelf
      <4>2. x = Parent[x] => FALSE
        BY <1>3, <2>2, PathEnd, TreeAssumption
      <4>. QED
        BY <1>3, <2>2, <4>1, <4>2, AncAntisymmetric
    <3>. QED
      BY <3>1, <3>2 DEF Id
  <2>4. SumWork[A \cup {x}] = SumWork[A] + Work[x]
    BY <1>3, <2>3, SumWorkAdd
  <2>. QED
    BY <1>3, <2>1, <2>2, <2>4
<1>4. n \in S
  BY <1>1, <1>2, <1>3, FirstOutside
<1>. QED
  BY <1>4, SameAnc DEF Choice!TotalWork

\* The block found by preferred is the one where the branches part.
LEMMA DistinguishingIs ==
  ASSUME NEW a \in Id, NEW b \in Id, NEW x \in Block, Choice!Leaves(x, a, b)
  PROVE  Distinguishing(a, b) = x
<1>1. x \in Anc(a) \ Anc(b) /\ Parent[x] \in Anc(b) /\ x # Genesis
  BY SameAnc, TreeAssumption DEF Choice!Leaves
<1>2. ASSUME NEW c \in Anc(a) \ Anc(b), c # Genesis /\ Parent[c] \in Anc(b)
      PROVE  c = x
  <2>1. c \in Block
    BY <1>2, AncSelf DEF Id
  <2>. QED
    BY <1>1, <1>2, <2>1, LeavesOnce
<1>. QED
  BY <1>1, <1>2 DEF Distinguishing

--------------------------------------------------------------------------------
(* What becomes of an offer *)

\* A block with a share is a node, pending or dead, and a node or pending block
\* has the lowest Ergo height of its shares as tie-break key.
ShareInv ==
  /\ pending \subseteq DOMAIN shares
  /\ DOMAIN shares \subseteq nodes \cup pending \cup dead
  /\ nodes \ {Genesis} \subseteq DOMAIN shares
  /\ \A b \in (nodes \cup pending) \ {Genesis} : ergo[b] = shares[b]

\* A genuine body that was offered is validated, waiting or dead.
BodyInv ==
  /\ \A b \in nodes \ {Genesis} : <<b, "good">> \in offered /\ Fault[b] = "none"
  /\ \A b \in Block :
       <<b, "good">> \in offered => b \in nodes \cup dead \cup DOMAIN stashed
  /\ \A b \in DOMAIN stashed : <<b, stashed[b]>> \in offered

\* Nothing offered is forgotten.
OfferInv == ShareInv /\ BodyInv

\* Nothing is offered at the start.
LEMMA OfferInit == Init => OfferInv
BY DEF Init, OfferInv, ShareInv, BodyInv

\* Only genuine bytes of a faultless block are validated.
LEMMA GoodVerdict ==
  ASSUME NEW b \in Block, NEW body \in Bodies, NEW t \in Nat,
         Verdict(b, body, t) = "ok"
  PROVE  body = "good" /\ Fault[b] = "none"
<1>1. Fault[b] \in Faults /\ body \in {"good", "forged"}
  BY ParamAssumption
<1>2. CASE Ts[b] > t + MAX_FUTURE_DRIFT
  BY <1>1, <1>2 DEF Verdict, Faults
<1>3. CASE ~ (Ts[b] > t + MAX_FUTURE_DRIFT) /\ Ts[b] <= t + MAX_FUTURE_DRIFT
  BY <1>1, <1>3 DEF Verdict, Faults
<1>4. Ts[b] > t + MAX_FUTURE_DRIFT \/ Ts[b] <= t + MAX_FUTURE_DRIFT
  BY ParamAssumption
<1>. QED
  BY <1>2, <1>3, <1>4

\* mark_dead keeps the books on shares.
LEMMA ShareMarkDead ==
  ASSUME TypeInv, ShareInv, NEW b \in Block, MarkDead(b), nodes' = nodes,
         shares' = shares
  PROVE  ShareInv'
<1>1. dead' = dead \cup Killed(b) /\ pending' = pending \ Killed(b)
  BY DEF MarkDead
<1>2. \A c \in (nodes \cup pending') : ergo'[c] = ergo[c]
  BY <1>1 DEF MarkDead, Drop, TypeInv, TypeOK
<1>. QED
  BY <1>1, <1>2 DEF ShareInv

\* Every step keeps the books on shares (ingest_share, mark_dead, try_activate).
LEMMA ShareStep == TypeInv /\ ShareInv /\ [Next]_vars => ShareInv'
<1>. SUFFICES ASSUME TypeInv, ShareInv, [Next]_vars PROVE ShareInv'
  OBVIOUS
<1>0. TypeOK /\ Genesis \notin Block
  BY TreeAssumption DEF TypeInv
<1>1. ASSUME UNCHANGED <<nodes, pending, ergo, dead, shares>>
      PROVE  ShareInv'
  BY <1>1 DEF ShareInv
<1>2. ASSUME NEW b \in Block, NEW h \in ErgoHeight, IngestKnownShare(b, h)
      PROVE  ShareInv'
  <2>1. /\ b \in nodes /\ b \in DOMAIN shares /\ b \in DOMAIN ergo
        /\ ergo[b] = shares[b] /\ h < ergo[b] /\ h \in Nat /\ ergo[b] \in Nat
    BY <1>0, <1>2, ParamAssumption DEF IngestKnownShare, ShareInv, TypeOK
  <2>2. /\ ergo' = [ergo EXCEPT ![b] = h] /\ shares' = Lower(shares, b, h)
        /\ UNCHANGED <<nodes, pending, dead>>
    BY <1>2 DEF IngestKnownShare
  <2>3. /\ DOMAIN shares' = DOMAIN shares /\ shares'[b] = h
        /\ \A x \in DOMAIN shares : x # b => shares'[x] = shares[x]
    BY <2>1, <2>2 DEF Lower, Put
  <2>4. \A c \in (nodes \cup pending) \ {Genesis} : ergo'[c] = shares'[c]
    BY <1>0, <2>1, <2>2, <2>3 DEF ShareInv, TypeOK
  <2>. QED
    BY <2>2, <2>3, <2>4 DEF ShareInv
<1>3. ASSUME NEW b \in Block, NEW h \in ErgoHeight, IngestNewShare(b, h)
      PROVE  ShareInv'
  <2>1. /\ b \notin nodes /\ b \notin dead /\ pending' = pending \cup {b}
        /\ ergo' = Lower(ergo, b, h) /\ shares' = Lower(shares, b, h)
        /\ UNCHANGED <<nodes, dead>>
    BY <1>3 DEF IngestNewShare
  <2>2. DOMAIN ergo = nodes \cup pending
    BY <1>0 DEF TypeOK
  <2>3. b \in DOMAIN shares <=> b \in DOMAIN ergo
    BY <2>1, <2>2 DEF ShareInv
  <2>4. b \in DOMAIN ergo => ergo[b] = shares[b]
    BY <1>0, <2>2 DEF ShareInv
  <2>5. \A c \in (nodes \cup pending') \ {Genesis} : ergo'[c] = shares'[c]
    <3>1. ergo'[b] = shares'[b]
      BY <2>1, <2>3, <2>4 DEF Lower, Put
    <3>2. ASSUME NEW c \in (nodes \cup pending) \ {Genesis}, c # b
          PROVE  ergo'[c] = shares'[c]
      BY <2>1, <2>2, <3>2 DEF ShareInv, Lower, Put
    <3>. QED
      BY <2>1, <3>1, <3>2
  <2>6. DOMAIN shares' = DOMAIN shares \cup {b}
    BY <2>1 DEF Lower, Put
  <2>. QED
    BY <2>1, <2>5, <2>6 DEF ShareInv
<1>4. ASSUME NEW b \in Block, NEW body \in Bodies, IngestDeadBody(b, body)
      PROVE  ShareInv'
  BY <1>0, <1>4, ShareMarkDead DEF IngestDeadBody
<1>5. CASE Activate
  <2>1. /\ Popped \in Block /\ Popped \in pending
        /\ nodes' = nodes \cup {Popped} /\ pending' = pending \ {Popped} /\ dead' = dead
    BY <1>5, ActivateStep
  <2>2. UNCHANGED <<ergo, shares>>
    BY <1>5 DEF Activate, obsVars
  <2>. QED
    BY <2>1, <2>2 DEF ShareInv
<1>6. CASE RejectPermanent
  <2>1. Popped \in Block /\ MarkDead(Popped) /\ nodes' = nodes /\ shares' = shares
    BY <1>0, <1>6, ReadyType DEF RejectPermanent, obsVars
  <2>. QED
    BY <1>0, <2>1, ShareMarkDead
<1>7. ASSUME NEW b \in Block, NEW body \in Bodies, IngestBody(b, body)
      PROVE  ShareInv'
  BY <1>1, <1>7 DEF IngestBody
<1>8. ASSUME NEW b \in Block, NEW h \in ErgoHeight, RecordAnchor(b, h) \/ Approve(b, h)
      PROVE  ShareInv'
  BY <1>1, <1>8 DEF RecordAnchor, Approve, treeVars, obsVars
<1>9. CASE SkipUnready \/ RejectTransient \/ RefreshCanonical
            \/ (\E t \in 0 .. MaxNow : Tick(t)) \/ UNCHANGED vars
  BY <1>1, <1>9
  DEF SkipUnready, RejectTransient, RefreshCanonical, Tick, vars, treeVars, obsVars
<1>. QED
  BY <1>2, <1>3, <1>4, <1>5, <1>6, <1>7, <1>8, <1>9 DEF Next, Calls, Steps

\* mark_dead keeps the books on bodies.
LEMMA BodyMarkDead ==
  ASSUME BodyInv, NEW b \in Block, MarkDead(b), nodes' = nodes,
         offered \subseteq offered',
         \A c \in Block : <<c, "good">> \in offered' \ offered => c = b
  PROVE  BodyInv'
<1>1. /\ dead' = dead \cup Killed(b)
      /\ DOMAIN stashed' = DOMAIN stashed \ Killed(b)
      /\ \A c \in DOMAIN stashed' : stashed'[c] = stashed[c]
  BY DEF MarkDead, Drop
<1>2. b \in Killed(b)
  BY DEF Killed
<1>. QED
  BY <1>1, <1>2 DEF BodyInv

\* A step that rejects no body for a reason that may pass forgets no offer.
LEMMA OfferStep ==
  TreeDeadInv /\ OfferInv /\ [Next /\ ~ RejectTransient]_vars => OfferInv'
<1>. SUFFICES ASSUME TreeDeadInv, OfferInv, [Next /\ ~ RejectTransient]_vars
              PROVE  BodyInv'
  BY ShareStep DEF OfferInv, TreeDeadInv
<1>. USE DEF TreeDeadInv
<1>0. TypeOK /\ TypeInv /\ Genesis \notin Block /\ BodyInv
  BY TreeAssumption DEF TypeInv, OfferInv
<1>1. ASSUME UNCHANGED <<nodes, stashed, dead, offered>>
      PROVE  BodyInv'
  BY <1>0, <1>1 DEF BodyInv
<1>2. ASSUME NEW b \in Block, NEW h \in ErgoHeight,
             IngestKnownShare(b, h) \/ IngestNewShare(b, h)
      PROVE  BodyInv'
  BY <1>1, <1>2 DEF IngestKnownShare, IngestNewShare
<1>4. ASSUME NEW b \in Block, NEW body \in Bodies, IngestDeadBody(b, body)
      PROVE  BodyInv'
  <2>1. MarkDead(b) /\ nodes' = nodes /\ offered' = offered \cup {<<b, body>>}
    BY <1>4 DEF IngestDeadBody
  <2>2. \A c \in Block : <<c, "good">> \in offered' \ offered => c = b
    BY <2>1
  <2>. QED
    BY <1>0, <2>1, <2>2, BodyMarkDead
<1>5. ASSUME NEW b \in Block, NEW body \in Bodies, IngestBody(b, body)
      PROVE  BodyInv'
  <2>1. /\ stashed' = IF b \in DOMAIN stashed THEN stashed ELSE Put(stashed, b, body)
        /\ offered' = offered \cup {<<b, body>>}
        /\ UNCHANGED <<nodes, dead>>
    BY <1>5 DEF IngestBody
  <2>2. DOMAIN stashed' = DOMAIN stashed \cup {b}
    BY <2>1 DEF Put
  <2>3. ASSUME NEW c \in DOMAIN stashed' PROVE <<c, stashed'[c]>> \in offered'
    BY <1>0, <2>1, <2>3 DEF Put, BodyInv
  <2>. QED
    BY <1>0, <2>1, <2>2, <2>3 DEF BodyInv
<1>6. CASE Activate
  <2>1. /\ Popped \in Block /\ Popped \in DOMAIN stashed /\ nodes' = nodes \cup {Popped}
        /\ DOMAIN stashed' = DOMAIN stashed \ {Popped} /\ dead' = dead
    BY <1>0, <1>6, ActivateStep
  <2>2. /\ Verdict(Popped, stashed[Popped], now) = "ok"
        /\ stashed' = Drop(stashed, {Popped}) /\ offered' = offered
    BY <1>6 DEF Activate, obsVars
  <2>3. stashed[Popped] = "good" /\ Fault[Popped] = "none"
    <3>1. now \in Nat /\ stashed[Popped] \in Bodies
      BY <1>0, <2>1, ParamAssumption DEF TypeOK
    <3>. QED
      BY <2>1, <2>2, <3>1, GoodVerdict
  <2>4. <<Popped, "good">> \in offered
    BY <1>0, <2>1, <2>3 DEF BodyInv
  <2>5. \A c \in DOMAIN stashed' : stashed'[c] = stashed[c]
    BY <2>2 DEF Drop
  <2>. QED
    BY <1>0, <2>1, <2>2, <2>3, <2>4, <2>5 DEF BodyInv
<1>7. CASE RejectPermanent
  <2>1. /\ Popped \in Block /\ MarkDead(Popped) /\ nodes' = nodes
        /\ offered' = offered
    BY <1>0, <1>7, ReadyType DEF RejectPermanent, obsVars
  <2>. QED
    BY <1>0, <2>1, BodyMarkDead
<1>8. ASSUME NEW b \in Block, NEW h \in ErgoHeight, RecordAnchor(b, h) \/ Approve(b, h)
      PROVE  BodyInv'
  BY <1>1, <1>8 DEF RecordAnchor, Approve, treeVars, obsVars
<1>9. CASE SkipUnready \/ RefreshCanonical \/ (\E t \in 0 .. MaxNow : Tick(t))
  BY <1>1, <1>9 DEF SkipUnready, RefreshCanonical, Tick, treeVars, obsVars
<1>10. CASE UNCHANGED vars
  BY <1>1, <1>10 DEF vars, treeVars, obsVars
<1>. QED
  BY <1>2, <1>4, <1>5, <1>6, <1>7, <1>8, <1>9, <1>10 DEF Next, Calls, Steps

--------------------------------------------------------------------------------
(* The fork choice decides what the offers alone determine *)

\* With an empty work list the validated tree is what the offers support.
LEMMA TreeIsSupported ==
  ASSUME TreeDeadInv, OfferInv, QueueInv, queue = <<>>
  PROVE  nodes = Choice!Tree
<1>. USE DEF TreeDeadInv
<1>1. TypeOK /\ Genesis \in nodes /\ nodes \subseteq Id
  BY DEF TypeInv, TypeOK, TreeInv
<1>2. ASSUME NEW b \in nodes, b # Genesis
      PROVE  b \in Block /\ Supported(b)
  BY <1>1, <1>2 DEF Id, TreeInv, OfferInv, ShareInv, BodyInv, Supported
<1>3. ASSUME NEW b \in Block, Supported(b), b \notin nodes
      PROVE  FALSE
  <2>1. b \in Id
    BY DEF Id
  <2>2. PICK x \in Anc(b) : x \in Block /\ x \notin nodes /\ Parent[x] \in nodes
    BY <1>1, <1>3, <2>1, FirstOutside
  <2>3. x # Genesis /\ Anc(x) \subseteq Anc(b)
    BY <2>1, <2>2, TreeAssumption, AncTransitive
  <2>4. x \in DOMAIN shares /\ <<x, "good">> \in offered
    BY <1>3, <2>2, <2>3 DEF Supported
  <2>5. x \notin dead
    <3>1. SUFFICES ASSUME x \in dead PROVE FALSE
      OBVIOUS
    <3>2. PICK z \in Anc(x) \ {Genesis} : Fault[z] # "none"
      BY <3>1 DEF DeadPrefix
    <3>. QED
      BY <1>3, <2>3, <3>2 DEF Supported
  <2>6. x \in pending /\ x \in DOMAIN stashed
    BY <2>2, <2>4, <2>5 DEF OfferInv, ShareInv, BodyInv
  <2>7. Ready(x)
    BY <2>2, <2>6 DEF Ready
  <2>8. DOMAIN queue = {}
    OBVIOUS
  <2>. QED
    BY <2>2, <2>7, <2>8 DEF QueueInv
<1>. QED
  BY <1>1, <1>2, <1>3, SameSupported DEF Choice!Tree

\* What beats a node by the offers is preferred by the fork choice.
LEMMA BeatsIsPreferred ==
  ASSUME TreeDeadInv, OfferInv, NEW a \in nodes, NEW b \in nodes,
         Choice!Beats(a, b)
  PROVE  Preferred(a, b)
<1>. USE DEF TreeDeadInv
<1>1. /\ a \in Id /\ b \in Id /\ Anc(a) \subseteq nodes /\ Anc(b) \subseteq nodes
      /\ work[a] \in Nat /\ work[b] \in Nat
  BY DEF TypeInv, TypeOK, TreeInv
<1>2. work[a] = Choice!TotalWork(a) /\ work[b] = Choice!TotalWork(b)
  BY NodeWork DEF TypeInv
<1>3. CASE work[a] > work[b]
  <2>1. a # b
    BY <1>1, <1>3
  <2>. QED
    BY <1>3, <2>1 DEF Preferred
<1>4. CASE ~ (work[a] > work[b])
  <2>1. work[a] = work[b]
    BY <1>2, <1>4 DEF Choice!Beats
  <2>2. PICK x \in Block, y \in Block :
          Choice!Leaves(x, a, b) /\ Choice!Leaves(y, b, a) /\ Choice!Earlier(x, y)
    BY <1>2, <1>4 DEF Choice!Beats
  <2>3. Distinguishing(a, b) = x /\ Distinguishing(b, a) = y
    BY <1>1, <2>2, DistinguishingIs
  <2>4. x \in Anc(a) \ Anc(b) /\ y \in Anc(b)
    BY <2>2, SameAnc DEF Choice!Leaves
  <2>5. ergo[x] = shares[x] /\ ergo[y] = shares[y]
    BY <1>1, <2>4, TreeAssumption DEF OfferInv, ShareInv
  <2>6. EarlierKey(Distinguishing(a, b), Distinguishing(b, a))
    BY <2>2, <2>3, <2>5 DEF Choice!Earlier, EarlierKey
  <2>7. a # b /\ ~ IsAncestorOrEq(a, b)
    BY <1>1, <2>4, AncTransitive, AncSelf DEF IsAncestorOrEq
  <2>. QED
    BY <2>1, <2>6, <2>7 DEF Preferred
<1>. QED
  BY <1>3, <1>4

\* The invariant the step mapping rests on.
RefineInv == TreeDeadInv /\ QueueInv /\ OfferInv

\* A new fork choice has been offered nothing and stands on genesis.
LEMMA ChoiceInit == Init => Choice!Init
BY DEF Init, Choice!Init

\* Every step of a call is an offer, a choice, or invisible.
LEMMA ChoiceStep ==
  RefineInv /\ [Next /\ ~ RejectTransient]_vars => [Choice!Next]_Choice!vars
<1>. SUFFICES ASSUME RefineInv, [Next /\ ~ RejectTransient]_vars
              PROVE  [Choice!Next]_Choice!vars
  OBVIOUS
<1>. USE DEF RefineInv
<1>1. ASSUME UNCHANGED <<shares, offered, canonical, phase>>
      PROVE  [Choice!Next]_Choice!vars
  BY <1>1 DEF Choice!vars
<1>2. ASSUME NEW b \in Block, NEW h \in ErgoHeight,
             IngestKnownShare(b, h) \/ IngestNewShare(b, h)
      PROVE  [Choice!Next]_Choice!vars
  <2>1. /\ phase = "idle" /\ phase' = "activate" /\ offered' = offered
        /\ canonical' = canonical /\ shares' = Lower(shares, b, h)
    BY <1>2 DEF IngestKnownShare, IngestNewShare, cursorVars
  <2>2. Choice!OfferShare(b, h)
    BY <2>1 DEF Choice!OfferShare, Lower, Put
  <2>. QED
    BY <2>2 DEF Choice!Next
<1>3. ASSUME NEW b \in Block, NEW body \in Bodies, IngestBody(b, body)
      PROVE  [Choice!Next]_Choice!vars
  <2>1. /\ phase = "idle" /\ phase' = "activate" /\ shares' = shares
        /\ canonical' = canonical /\ offered' = offered \cup {<<b, body>>}
    BY <1>3 DEF IngestBody, cursorVars
  <2>2. Choice!OfferBody(b, body)
    BY <2>1 DEF Choice!OfferBody
  <2>. QED
    BY <2>2 DEF Choice!Next
<1>4. ASSUME NEW b \in Block, NEW body \in Bodies, IngestDeadBody(b, body)
      PROVE  [Choice!Next]_Choice!vars
  <2>1. /\ phase = "idle" /\ phase' = phase /\ shares' = shares
        /\ canonical' = canonical /\ offered' = offered \cup {<<b, body>>}
        /\ Parent[b] \in dead
    BY <1>4 DEF IngestDeadBody, cursorVars
  <2>2. PICK x \in Anc(b) \ {Genesis} : Fault[x] # "none"
    BY <2>1, AncStep DEF TreeDeadInv, DeadPrefix
  <2>3. ASSUME NEW c \in Block PROVE Supported(c)' <=> Supported(c)
    <3>1. CASE b \in Anc(c)
      <4>1. x \in Anc(c)
        BY <2>2, <3>1, AncTransitive DEF Id
      <4>. QED
        BY <2>2, <4>1 DEF Supported
    <3>2. CASE b \notin Anc(c)
      BY <2>1, <3>2 DEF Supported
    <3>. QED
      BY <3>1, <3>2
  <2>4. \A c \in Block : Choice!Supported(c)' <=> Choice!Supported(c)
    <3>1. \A c : Choice!Supported(c)' <=> Supported(c)'
      BY SameAnc DEF Choice!Supported, Supported
    <3>. QED
      BY <2>3, <3>1, SameSupported
  <2>5. Choice!Tree' = Choice!Tree
    BY <2>4 DEF Choice!Tree
  <2>6. Choice!OfferBody(b, body)
    BY <2>1, <2>5 DEF Choice!OfferBody
  <2>. QED
    BY <2>6 DEF Choice!Next
<1>5. CASE RefreshCanonical
  <2>1. PICK best \in nodes :
          (\A n \in nodes : ~ Preferred(n, best)) /\ canonical' = best
    BY <1>5 DEF RefreshCanonical
  <2>2. /\ phase = "activate" /\ phase' = "idle" /\ queue = <<>>
        /\ nodes' = nodes /\ shares' = shares /\ offered' = offered
    BY <1>5 DEF RefreshCanonical, treeVars, obsVars
  <2>3. nodes = Choice!Tree
    BY <2>2, TreeIsSupported
  <2>4. \A n \in Choice!Tree : ~ Choice!Beats(n, best)
    BY <2>1, <2>3, BeatsIsPreferred
  <2>5. \A n : Choice!Beats(n, canonical)' <=> Choice!Beats(n, best)
    BY <2>1, <2>2 DEF Choice!Beats, Choice!Earlier, Choice!Leaves, Choice!TotalWork,
                      Choice!Anc
  <2>6. Choice!Choose
    BY <2>1, <2>2, <2>3, <2>4, <2>5 DEF Choice!Choose
  <2>. QED
    BY <2>6 DEF Choice!Next
<1>6. ASSUME NEW b \in Block, NEW h \in ErgoHeight, RecordAnchor(b, h) \/ Approve(b, h)
      PROVE  [Choice!Next]_Choice!vars
  BY <1>1, <1>6 DEF RecordAnchor, Approve, cursorVars, obsVars
<1>7. CASE SkipUnready \/ Activate \/ RejectPermanent \/ (\E t \in 0 .. MaxNow : Tick(t))
  BY <1>1, <1>7 DEF SkipUnready, Activate, RejectPermanent, Tick, cursorVars, obsVars
<1>8. CASE UNCHANGED vars
  BY <1>1, <1>8 DEF vars, cursorVars, obsVars
<1>. QED
  BY <1>2, <1>3, <1>4, <1>5, <1>6, <1>7, <1>8 DEF Next, Calls, Steps

\* No call of the behaviour drops a body for a reason that may pass.
NoTransientRejection == [][~ RejectTransient]_vars

\* Whenever a call returns, the tip is the one TipChoice's offers leave, whatever
\* the order of shares and bodies, whichever branches the cursor visited and
\* whatever was buffered or found dead on the way (ingest_share, ingest_body,
\* activate_ready_from, refresh_canonical).
THEOREM ChoiceImplemented == Spec /\ NoTransientRejection => ImplementsTipChoice
<1>1. Init => RefineInv
  BY TreeDeadInit, ReadyInit, OfferInit DEF RefineInv, ReadyInv
<1>2. RefineInv /\ [Next /\ ~ RejectTransient]_vars => RefineInv'
  BY TreeDeadStep, ReadyStep, OfferStep DEF RefineInv, ReadyInv, TreeDeadInv
<1>3. [Next]_vars /\ [~ RejectTransient]_vars => [Next /\ ~ RejectTransient]_vars
  OBVIOUS
<1>. QED
  BY <1>1, <1>2, <1>3, ChoiceInit, ChoiceStep, PTL
  DEF Spec, NoTransientRejection, ImplementsTipChoice, Choice!Spec

\* The same from assumptions on the inputs: only genuine bodies arrive, and no
\* block is timestamped beyond the drift bound of the earliest clock.
THEOREM GenuineChoiceImplemented ==
  ASSUME Bodies = {"good"}, \A b \in Block : Ts[b] <= MAX_FUTURE_DRIFT
  PROVE  Spec => ImplementsTipChoice
<1>1. ASSUME TypeInv, RejectTransient PROVE FALSE
  <2>1. /\ Popped \in Block /\ stashed[Popped] = "good" /\ now \in Nat
        /\ Verdict(Popped, stashed[Popped], now) = "transient"
    BY <1>1, ReadyType, ParamAssumption, SMTT(30) DEF RejectTransient, TypeInv, TypeOK
  <2>2. Ts[Popped] <= now + MAX_FUTURE_DRIFT /\ ~ (Ts[Popped] > now + MAX_FUTURE_DRIFT)
    BY <2>1, ParamAssumption
  <2>. QED
    BY <2>1, <2>2 DEF Verdict
<1>2. TypeInv => [~ RejectTransient]_vars
  BY <1>1
<1>. QED
  BY <1>2, TypeInit, TypeStep, ChoiceImplemented, PTL DEF Spec, NoTransientRejection

--------------------------------------------------------------------------------
(* The offers leave one tip *)

\* No block the offers support beats t.
Decides(t) == t \in Choice!Tree /\ \A n \in Choice!Tree : ~ Choice!Beats(n, t)

\* A descendant has more work than its ancestor.
LEMMA DescendantIsHeavier ==
  ASSUME NEW t \in Id, NEW s \in Anc(t), s # t
  PROVE  /\ Choice!TotalWork(s) \in Nat /\ Choice!TotalWork(t) \in Nat
         /\ Choice!TotalWork(t) > Choice!TotalWork(s)
<1>. DEFINE S == Anc(s) \ {Genesis}
            T == Anc(t) \ {Genesis}
<1>1. s \in Id /\ Anc(s) \subseteq Anc(t) /\ t \notin Anc(s)
  BY AncSelf, AncTransitive, AncAntisymmetric
<1>2. t \in Block /\ t # Genesis
  BY AncGenesis, TreeAssumption DEF Id
<1>3. S \in SUBSET Block /\ T \in SUBSET Block /\ S \cup {t} \in SUBSET T
  BY <1>1, <1>2, AncSelf DEF Id
<1>4. /\ SumWork[S] \in Nat /\ Work[t] \in Nat /\ Work[t] > 0
      /\ SumWork[S \cup {t}] = SumWork[S] + Work[t]
  BY <1>1, <1>2, <1>3, SumWorkAdd
<1>5. SumWork[T] \in Nat /\ SumWork[S \cup {t}] <= SumWork[T]
  BY <1>3, SumWorkMonotone
<1>6. SumWork[T] > SumWork[S]
  BY <1>4, <1>5
<1>. QED
  BY <1>4, <1>5, <1>6, SameAnc DEF Choice!TotalWork

\* Of two supported blocks one beats the other: ties are broken by the anchor
\* heights and, last, by the ids (preferred).
LEMMA DecidesOnce ==
  ASSUME TypeOK, NEW s, NEW t, Decides(s), Decides(t)
  PROVE  s = t
<1>. SUFFICES ASSUME s # t PROVE FALSE
  OBVIOUS
<1>1. /\ s \in Choice!Tree /\ t \in Choice!Tree /\ s \in Id /\ t \in Id
      /\ ~ Choice!Beats(s, t) /\ ~ Choice!Beats(t, s)
  BY DEF Decides, Choice!Tree, Id
<1>2. ASSUME NEW a \in Id PROVE Choice!TotalWork(a) \in Nat
  <2>1. Anc(a) \ {Genesis} \in SUBSET Block
    BY AncSelf DEF Id
  <2>. QED
    BY <2>1, SameAnc, WorkAssumption DEF Choice!TotalWork
<1>3. Choice!TotalWork(s) = Choice!TotalWork(t)
  BY <1>1, <1>2 DEF Choice!Beats
<1>4. s \notin Anc(t) /\ t \notin Anc(s)
  BY <1>1, <1>3, DescendantIsHeavier
<1>5. ASSUME NEW a \in Id, NEW b \in Id, a \in Choice!Tree, a \notin Anc(b)
      PROVE  \E x \in Block : /\ Choice!Leaves(x, a, b)
                              /\ x \in Anc(a) \ Anc(b)
                              /\ x \in DOMAIN shares
  <2>1. Genesis \in Anc(b)
    BY PathHead, PathEnd DEF Anc
  <2>2. PICK x \in Anc(a) : x \in Block /\ x \notin Anc(b) /\ Parent[x] \in Anc(b)
    BY <1>5, <2>1, FirstOutside
  <2>3. Choice!Leaves(x, a, b)
    BY <2>2, SameAnc DEF Choice!Leaves
  <2>4. a # Genesis /\ x # Genesis
    BY <1>5, <2>1, <2>2, TreeAssumption
  <2>5. x \in DOMAIN shares
    BY <1>5, <2>2, <2>4, SameSupported DEF Choice!Tree, Supported
  <2>. QED
    BY <2>2, <2>3, <2>5
<1>6. PICK x \in Block : /\ Choice!Leaves(x, s, t) /\ x \in Anc(s) \ Anc(t)
                         /\ x \in DOMAIN shares
  BY <1>1, <1>4, <1>5
<1>7. PICK y \in Block : /\ Choice!Leaves(y, t, s) /\ y \in Anc(t) \ Anc(s)
                         /\ y \in DOMAIN shares
  BY <1>1, <1>4, <1>5
<1>8. /\ shares[x] \in Nat /\ shares[y] \in Nat /\ Rank[x] \in Nat /\ Rank[y] \in Nat
      /\ Rank[x] # Rank[y]
  BY <1>6, <1>7, OrderAssumption, ParamAssumption DEF TypeOK, Id
<1>9. Choice!Earlier(x, y) \/ Choice!Earlier(y, x)
  BY <1>8 DEF Choice!Earlier
<1>. QED
  BY <1>1, <1>3, <1>6, <1>7, <1>9 DEF Choice!Beats

\* Between calls the canonical tip is the one block that the offers decide.
TipIsDecided == phase = "idle" => \A t : Decides(t) <=> t = canonical

\* A call ends on a tip that decides, and what happens between calls leaves it so.
LEMMA DecidedStep ==
  ASSUME phase = "idle" => Decides(canonical), phase' = "idle",
         [Choice!Next]_Choice!vars, phase \in {"idle", "activate"}
  PROVE  Decides(canonical)'
<1>1. ASSUME Choice!Tree' = Choice!Tree, shares' = shares, canonical' = canonical,
             phase = "idle"
      PROVE  Decides(canonical)'
  <2>1. \A n : Choice!Beats(n, canonical)' <=> Choice!Beats(n, canonical)
    BY <1>1 DEF Choice!Beats, Choice!Earlier, Choice!Leaves, Choice!TotalWork, Choice!Anc
  <2>. QED
    BY <1>1, <2>1 DEF Decides
<1>2. CASE UNCHANGED Choice!vars
  <2>1. Choice!Tree' = Choice!Tree
    BY <1>2 DEF Choice!vars, Choice!Tree, Choice!Supported, Choice!Anc
  <2>. QED
    BY <1>1, <1>2, <2>1 DEF Choice!vars
<1>3. ASSUME NEW b \in Block, NEW h \in ErgoHeight, Choice!OfferShare(b, h)
      PROVE  Decides(canonical)'
  BY <1>3 DEF Choice!OfferShare
<1>4. ASSUME NEW b \in Block, NEW body \in Bodies, Choice!OfferBody(b, body)
      PROVE  Decides(canonical)'
  BY <1>1, <1>4 DEF Choice!OfferBody
<1>5. CASE Choice!Choose
  <2>1. /\ canonical' \in Choice!Tree /\ \A n \in Choice!Tree : ~ Choice!Beats(n, canonical')
        /\ shares' = shares /\ offered' = offered
    BY <1>5 DEF Choice!Choose
  <2>2. Choice!Tree' = Choice!Tree
    BY <2>1 DEF Choice!Tree, Choice!Supported, Choice!Anc
  <2>3. \A n : Choice!Beats(n, canonical)' <=> Choice!Beats(n, canonical')
    BY <2>1 DEF Choice!Beats, Choice!Earlier, Choice!Leaves, Choice!TotalWork, Choice!Anc
  <2>. QED
    BY <2>1, <2>2, <2>3 DEF Decides
<1>. QED
  BY <1>2, <1>3, <1>4, <1>5 DEF Choice!Next

\* The canonical tip is a function of the shares and bodies offered: two nodes
\* that were offered the same, in whatever order, stand on the same tip between
\* calls (refresh_canonical).
THEOREM TipDecided == Spec /\ NoTransientRejection => []TipIsDecided
<1>. DEFINE DecidedInv == RefineInv /\ (phase = "idle" => Decides(canonical))
<1>1. Init => DecidedInv
  <2>1. SUFFICES ASSUME Init PROVE Decides(Genesis)
    BY TreeDeadInit, ReadyInit, OfferInit DEF RefineInv, ReadyInv, Init
  <2>2. \A b \in Block : ~ Supported(b)
    BY <2>1, AncSelf, TreeAssumption DEF Init, Supported, Id
  <2>3. Choice!Tree = {Genesis}
    BY <2>2, SameSupported DEF Choice!Tree
  <2>4. ~ Choice!Beats(Genesis, Genesis)
    <3>1. Choice!TotalWork(Genesis) = 0
      <4>1. Anc(Genesis) \ {Genesis} = {}
        BY AncGenesis
      <4>2. SumWork[{}] \in Nat
        BY SumWorkEmpty
      <4>. QED
        BY <4>1, SumWorkEmpty, SameAnc DEF Choice!TotalWork
    <3>. QED
      BY <3>1 DEF Choice!Beats, Choice!Leaves
  <2>. QED
    BY <2>3, <2>4 DEF Decides
<1>2. DecidedInv /\ [Next /\ ~ RejectTransient]_vars => DecidedInv'
  <2>. SUFFICES ASSUME DecidedInv, [Next /\ ~ RejectTransient]_vars PROVE DecidedInv'
    OBVIOUS
  <2>1. RefineInv'
    BY TreeDeadStep, ReadyStep, OfferStep DEF RefineInv, ReadyInv, TreeDeadInv
  <2>2. [Choice!Next]_Choice!vars
    BY ChoiceStep
  <2>3. phase \in {"idle", "activate"}
    BY DEF RefineInv, TreeDeadInv, TypeInv, TypeOK
  <2>. QED
    BY <2>1, <2>2, <2>3, DecidedStep
<1>3. DecidedInv => TipIsDecided
  BY DecidesOnce DEF RefineInv, TreeDeadInv, TypeInv, TipIsDecided
<1>4. [Next]_vars /\ [~ RejectTransient]_vars => [Next /\ ~ RejectTransient]_vars
  OBVIOUS
<1>. QED
  BY <1>1, <1>2, <1>3, <1>4, PTL DEF Spec, NoTransientRejection

===============================================================================
