----------------------------- MODULE HnChainProofs -----------------------------
(***************************************************************************)
(* The hash-native chain: the live state is the replay of the heaviest     *)
(* branch, the log rebuilds it, and what waits in the pools can go into    *)
(* one block.                                                              *)
(***************************************************************************)
EXTENDS HnChain, HnLedgerProofs

NodeType == [parent : Nat, block : BlockType, work : Nat]

\* A node's parent was registered before it.
TreeOk(ns) ==
  /\ ns \in Seq(NodeType)
  /\ \A i \in DOMAIN ns : ns[i].parent \in 0 .. (i - 1)

--------------------------------------------------------------------------------
(* The states of the branches *)

\* The equation BranchStates is defined by.
IsStates(f, ns, n) ==
  f = [i \in 0 .. n |->
         IF i = 0 THEN NewState ELSE ApplyBlock(f[ns[i].parent], ns[i].block)]

\* The equation at one point.
LEMMA StatesAt ==
  ASSUME NEW f, NEW ns, NEW n, IsStates(f, ns, n), NEW i \in 0 .. n
  PROVE  f[i] = IF i = 0 THEN NewState ELSE ApplyBlock(f[ns[i].parent], ns[i].block)
<1>. DEFINE e(j) == IF j = 0 THEN NewState ELSE ApplyBlock(f[ns[j].parent], ns[j].block)
            h == [j \in 0 .. n |-> e(j)]
<1>1. f = h
  BY DEF IsStates
<1>2. h[i] = e(i)
  OBVIOUS
<1>. HIDE DEF h
<1>. QED
  BY <1>1, <1>2

\* A function that satisfies the equation exists for every prefix of a tree.
LEMMA StatesExist ==
  ASSUME NEW ns, TreeOk(ns), NEW n \in 0 .. Len(ns)
  PROVE  \E f : IsStates(f, ns, n)
<1>. DEFINE T == {m \in 0 .. Len(ns) : ~ \E f : IsStates(f, ns, m)}
<1>. SUFFICES ASSUME T # {} PROVE FALSE
  OBVIOUS
<1>0. Len(ns) \in Nat /\ DOMAIN ns = 1 .. Len(ns) /\ T \in SUBSET Nat
  BY DEF TreeOk
<1>1. PICK m \in T : \A j \in T : m <= j
  BY <1>0, LeastNat
<1>2. m # 0
  <2>1. IsStates([i \in 0 .. 0 |-> NewState], ns, 0)
    BY DEF IsStates
  <2>. QED
    BY <2>1
<1>3. m \in 1 .. Len(ns) /\ m - 1 \in 0 .. Len(ns) /\ m - 1 \notin T
  BY <1>0, <1>1, <1>2
<1>4. PICK f : IsStates(f, ns, m - 1)
  BY <1>3
<1>. DEFINE last == ApplyBlock(f[ns[m].parent], ns[m].block)
            h == [i \in 0 .. m |-> IF i < m THEN f[i] ELSE last]
<1>5. \A i \in 0 .. m - 1 : h[i] = f[i]
  BY <1>3
<1>6. h[m] = last
  BY <1>3
<1>7. DOMAIN h = 0 .. m
  OBVIOUS
<1>. HIDE DEF h, last, T
<1>8. ASSUME NEW i \in 0 .. m
      PROVE  h[i] = IF i = 0 THEN NewState ELSE ApplyBlock(h[ns[i].parent], ns[i].block)
  <2>1. CASE i = 0
    <3>1. f[0] = NewState /\ h[0] = f[0]
      BY <1>3, <1>4, <1>5, StatesAt
    <3>. QED
      BY <2>1, <3>1
  <2>2. CASE i \in 1 .. m - 1
    <3>1. ns[i].parent \in 0 .. i - 1
      BY <1>0, <1>3, <2>2 DEF TreeOk
    <3>2. i \in 0 .. m - 1 /\ ns[i].parent \in 0 .. m - 1 /\ i # 0
      BY <1>3, <2>2, <3>1
    <3>3. f[i] = ApplyBlock(f[ns[i].parent], ns[i].block)
      BY <1>4, <3>2, StatesAt
    <3>. QED
      BY <1>5, <3>2, <3>3
  <2>3. CASE i = m
    <3>1. ns[m].parent \in 0 .. m - 1
      BY <1>0, <1>3 DEF TreeOk
    <3>2. h[ns[m].parent] = f[ns[m].parent]
      BY <1>5, <3>1
    <3>. QED
      BY <1>2, <1>6, <2>3, <3>2 DEF last
  <2>. QED
    BY <1>3, <2>1, <2>2, <2>3
<1>9. IsStates(h, ns, m)
  <2>1. h = [i \in 0 .. m |-> h[i]]
    BY <1>7 DEF h
  <2>. QED
    BY <1>8, <2>1 DEF IsStates
<1>. QED
  BY <1>1, <1>9 DEF T

\* The state of a branch is its tip applied to the state of its parent.
LEMMA BranchState ==
  ASSUME NEW ns, TreeOk(ns), NEW i \in 0 .. Len(ns)
  PROVE  BranchStates(ns)[i] =
           IF i = 0 THEN NewState ELSE ApplyBlock(BranchStates(ns)[ns[i].parent], ns[i].block)
<1>1. Len(ns) \in 0 .. Len(ns)
  BY DEF TreeOk
<1>2. PICK f : IsStates(f, ns, Len(ns))
  BY <1>1, StatesExist
<1>3. IsStates(BranchStates(ns), ns, Len(ns))
  BY <1>2 DEF BranchStates, IsStates
<1>. QED
  BY <1>3, StatesAt

\* A block registered later changes no branch there is.
LEMMA BranchesKept ==
  ASSUME NEW ns, TreeOk(ns), NEW x \in NodeType, x.parent \in 0 .. Len(ns)
  PROVE  /\ TreeOk(Append(ns, x))
         /\ \A i \in 0 .. Len(ns) : BranchStates(Append(ns, x))[i] = BranchStates(ns)[i]
         /\ BranchStates(Append(ns, x))[Len(ns) + 1]
              = ApplyBlock(BranchStates(ns)[x.parent], x.block)
<1>. DEFINE ms == Append(ns, x)
            n == Len(ns)
<1>1. /\ ns \in Seq(NodeType) /\ n \in Nat /\ DOMAIN ns = 1 .. n
      /\ \A i \in 1 .. n : ns[i].parent \in 0 .. (i - 1)
  BY DEF TreeOk
<1>2. /\ ms \in Seq(NodeType) /\ Len(ms) = n + 1 /\ ms[n + 1] = x
      /\ \A i \in 1 .. n : ms[i] = ns[i]
  BY <1>1, AppendProperties
<1>3. DOMAIN ms = 1 .. n + 1
  BY <1>1, <1>2
<1>. HIDE DEF ms
<1>4. TreeOk(ms)
  BY <1>1, <1>2, <1>3 DEF TreeOk
<1>. DEFINE T == {i \in 0 .. n : BranchStates(ms)[i] # BranchStates(ns)[i]}
<1>5. T = {}
  <2>. SUFFICES ASSUME T # {} PROVE FALSE
    OBVIOUS
  <2>0. T \in SUBSET Nat
    BY <1>1
  <2>1. PICK i \in T : \A j \in T : i <= j
    BY <2>0, LeastNat
  <2>2. i \in 0 .. n /\ i \in 0 .. Len(ms)
    BY <1>1, <1>2
  <2>3. /\ BranchStates(ms)[i] = IF i = 0 THEN NewState
             ELSE ApplyBlock(BranchStates(ms)[ms[i].parent], ms[i].block)
        /\ BranchStates(ns)[i] = IF i = 0 THEN NewState
             ELSE ApplyBlock(BranchStates(ns)[ns[i].parent], ns[i].block)
    BY <1>4, <2>2, BranchState
  <2>4. i # 0
    BY <2>3
  <2>5. i \in 1 .. n /\ ns[i].parent \in 0 .. n /\ ns[i].parent < i
    BY <1>1, <2>2, <2>4
  <2>6. ns[i].parent \notin T
    BY <1>1, <2>1, <2>5
  <2>7. BranchStates(ms)[ns[i].parent] = BranchStates(ns)[ns[i].parent]
    BY <2>5, <2>6
  <2>8. ms[i] = ns[i]
    BY <1>2, <2>5
  <2>. QED
    BY <2>3, <2>4, <2>7, <2>8
<1>6. \A i \in 0 .. n : BranchStates(ms)[i] = BranchStates(ns)[i]
  BY <1>5
<1>. HIDE DEF T
<1>7. n + 1 \in 0 .. Len(ms) /\ n + 1 # 0
  BY <1>1, <1>2
<1>8. BranchStates(ms)[n + 1] = ApplyBlock(BranchStates(ms)[x.parent], x.block)
  BY <1>2, <1>4, <1>7, BranchState
<1>. QED
  BY <1>4, <1>6, <1>8 DEF ms

--------------------------------------------------------------------------------
(* Fork choice *)

ChainType == [nodes : Seq(NodeType), tip : Nat, st : StateType]

\* What fork choice keeps: every branch ends in a state, work adds up along it, the
\* live state is that of the tip and no branch has more work.
ChainOk(c) ==
  /\ c \in ChainType
  /\ TreeOk(c.nodes)
  /\ c.tip \in 0 .. Len(c.nodes)
  /\ \A i \in 0 .. Len(c.nodes) :
       BranchStates(c.nodes)[i] \in StateType /\ NotesOk(BranchStates(c.nodes)[i])
  /\ c.st = BranchStates(c.nodes)[c.tip]
  /\ \A i \in DOMAIN c.nodes :
       /\ c.nodes[i].block.sc_nbits > 0
       /\ c.nodes[i].work = WorkOf(c.nodes, c.nodes[i].parent) + c.nodes[i].block.sc_nbits
       /\ c.nodes[i].work <= WorkOf(c.nodes, c.tip)

LEMMA EmptyChainOk == ChainOk(EmptyChain)
<1>. DEFINE c == EmptyChain
<1>1. c.nodes = <<>> /\ c.tip = 0 /\ c.st = NewState /\ c \in ChainType
  BY NewStateType DEF EmptyChain, ChainType
<1>2. Len(<<>>) = 0 /\ DOMAIN <<>> = {} /\ <<>> \in Seq(NodeType)
  OBVIOUS
<1>3. TreeOk(<<>>)
  BY <1>2 DEF TreeOk
<1>4. BranchStates(<<>>)[0] = NewState
  BY <1>2, <1>3, BranchState
<1>5. \A i \in 0 .. Len(<<>>) : i = 0
  BY <1>2
<1>. QED
  BY <1>1, <1>2, <1>3, <1>4, <1>5, NewStateType, NotesNew DEF ChainOk

\* Work is a number.
LEMMA WorkType ==
  ASSUME NEW ns, TreeOk(ns), NEW i \in 0 .. Len(ns)
  PROVE  WorkOf(ns, i) \in Nat
<1>1. CASE i = 0
  BY <1>1 DEF WorkOf
<1>2. CASE i # 0
  <2>1. i \in 1 .. Len(ns) /\ ns \in Seq(NodeType)
    BY <1>2 DEF TreeOk
  <2>2. ns[i] \in NodeType
    BY <2>1, ElementOfSeq
  <2>. QED
    BY <1>2, <2>2 DEF WorkOf, NodeType
<1>. QED
  BY <1>1, <1>2

\* The state a block is validated against is that of its parent's branch.
LEMMA ParentIsBranch ==
  ASSUME NEW c, ChainOk(c), NEW p \in 0 .. Len(c.nodes)
  PROVE  /\ ParentState(c, p) = BranchStates(c.nodes)[p]
         /\ ParentState(c, p) \in StateType
         /\ NotesOk(ParentState(c, p))
BY DEF ParentState, RebuildStateTo, ChainOk

\* fork_choice_ingest of a valid block.
LEMMA IngestOk ==
  ASSUME NbitsPositive, NEW c, ChainOk(c), NEW p \in 0 .. Len(c.nodes),
         NEW b \in BlockType, ValidBlock(ParentState(c, p), b)
  PROVE  /\ ChainOk(ForkChoiceIngest(c, p, b))
         /\ ForkChoiceIngest(c, p, b).nodes = RegisterNode(c.nodes, p, b)
         /\ \/ /\ ForkChoiceIngest(c, p, b).tip = c.tip
               /\ ForkChoiceIngest(c, p, b).st = c.st
            \/ ForkChoiceIngest(c, p, b).tip # c.tip
<1>. DEFINE ns == c.nodes
            n == Len(ns)
            w == WorkOf(ns, p) + b.sc_nbits
            x == [parent |-> p, block |-> b, work |-> w]
            ms == Append(ns, x)
            s == BranchStates(ns)[p]
            d == ForkChoiceIngest(c, p, b)
<1>1. /\ c \in ChainType /\ TreeOk(ns) /\ c.tip \in 0 .. n /\ ns \in Seq(NodeType)
      /\ n \in Nat /\ DOMAIN ns = 1 .. n /\ c.st = BranchStates(ns)[c.tip]
  BY DEF ChainOk, TreeOk
<1>2. ParentState(c, p) = s /\ s \in StateType /\ NotesOk(s)
  BY ParentIsBranch
<1>3. b.sc_nbits \in Nat /\ b.sc_nbits > 0
  <2>1. b.sc_nbits = NextNbits(s.daa_view)
    BY <1>2 DEF ValidBlock, ExpectedNbits
  <2>2. s.daa_view \in Seq(Nat \X Nat)
    BY <1>2 DEF StateType
  <2>. QED
    BY <2>1, <2>2 DEF NbitsPositive
<1>4. WorkOf(ns, p) \in Nat /\ w \in Nat /\ w > WorkOf(ns, p)
  BY <1>1, <1>3, WorkType
<1>5. x \in NodeType /\ x.parent = p /\ x.block = b /\ x.work = w
  BY <1>1, <1>4 DEF NodeType
<1>. HIDE DEF x, s
<1>6. /\ TreeOk(ms) /\ \A i \in 0 .. n : BranchStates(ms)[i] = BranchStates(ns)[i]
      /\ BranchStates(ms)[n + 1] = ApplyBlock(s, b)
  BY <1>1, <1>5, BranchesKept DEF s
<1>7. /\ ms \in Seq(NodeType) /\ Len(ms) = n + 1 /\ ms[n + 1] = x
      /\ \A i \in 1 .. n : ms[i] = ns[i]
  BY <1>1, <1>5, AppendProperties
<1>8. DOMAIN ms = 1 .. n + 1
  BY <1>1, <1>7
<1>9. /\ \A i \in 0 .. n : WorkOf(ms, i) = WorkOf(ns, i)
      /\ WorkOf(ms, n + 1) = w
  BY <1>1, <1>5, <1>7 DEF WorkOf
<1>10. ApplyBlock(s, b) \in StateType /\ NotesOk(ApplyBlock(s, b))
  BY <1>2, ApplyType, NotesApply
<1>11. RegisterNode(ns, p, b) = ms
  BY DEF RegisterNode, x
<1>. HIDE DEF ms
<1>12. \A i \in 0 .. n + 1 : BranchStates(ms)[i] \in StateType /\ NotesOk(BranchStates(ms)[i])
  BY <1>1, <1>6, <1>10 DEF ChainOk
<1>13. ASSUME NEW i \in 1 .. n + 1
       PROVE  /\ ms[i].block.sc_nbits > 0
              /\ ms[i].work = WorkOf(ms, ms[i].parent) + ms[i].block.sc_nbits
  <2>1. CASE i \in 1 .. n
    <3>1. ns[i].parent \in 0 .. n
      BY <1>1, <2>1 DEF TreeOk
    <3>. QED
      BY <1>1, <1>7, <1>9, <2>1, <3>1 DEF ChainOk
  <2>2. CASE i = n + 1
    BY <1>3, <1>5, <1>7, <1>9, <2>2
  <2>. QED
    BY <1>1, <2>1, <2>2
<1>14. \A i \in 1 .. n : ms[i].work = ns[i].work /\ ms[i].work <= WorkOf(ns, c.tip)
  BY <1>1, <1>7 DEF ChainOk
<1>14a. WorkOf(ns, c.tip) \in Nat /\ \A i \in 1 .. n : ns[i].work \in Nat
  <2>1. \A i \in 1 .. n : ns[i] \in NodeType
    BY <1>1, ElementOfSeq
  <2>. QED
    BY <1>1, <2>1, WorkType DEF NodeType
<1>15. CASE p = c.tip \/ Heavier(ns, p, b, c.tip)
  <2>1. d = [nodes |-> ms, tip |-> n + 1, st |-> ApplyBlock(s, b)]
    <3>1. CASE p = c.tip
      <4>1. c.st = s
        BY <1>1, <3>1 DEF s
      <4>. QED
        BY <1>7, <1>11, <3>1, <4>1 DEF ForkChoiceIngest
    <3>2. CASE p # c.tip
      <4>1. d = [nodes |-> ms, tip |-> n + 1, st |-> BranchStates(ms)[n + 1]]
        BY <1>7, <1>11, <1>15, <3>2 DEF ForkChoiceIngest, RebuildStateTo
      <4>. QED
        BY <1>6, <4>1
    <3>. QED
      BY <3>1, <3>2
  <2>2. w > WorkOf(ns, c.tip)
    BY <1>4, <1>15 DEF Heavier
  <2>3. \A i \in 1 .. n + 1 : ms[i].work <= WorkOf(ms, n + 1)
    <3>1. ms[n + 1].work = w
      BY <1>5, <1>7
    <3>2. \A i \in 1 .. n : ms[i].work <= w
      BY <1>4, <1>14, <1>14a, <2>2
    <3>. QED
      BY <1>1, <1>4, <1>9, <3>1, <3>2
  <2>. HIDE DEF d
  <2>4. d \in ChainType /\ d.nodes = ms /\ d.tip = n + 1 /\ d.st = ApplyBlock(s, b)
    BY <1>1, <1>7, <1>10, <2>1 DEF ChainType
  <2>5. d.tip \in 0 .. Len(d.nodes) /\ d.tip # c.tip
    BY <1>1, <1>7, <2>4
  <2>6. ChainOk(d)
    BY <1>6, <1>7, <1>8, <1>12, <1>13, <2>3, <2>4, <2>5 DEF ChainOk
  <2>. QED
    BY <1>11, <2>4, <2>5, <2>6 DEF d
<1>16. CASE ~ (p = c.tip \/ Heavier(ns, p, b, c.tip))
  <2>1. d = [c EXCEPT !.nodes = ms]
    BY <1>11, <1>16 DEF ForkChoiceIngest
  <2>2. ~ (w > WorkOf(ns, c.tip))
    BY <1>16 DEF Heavier
  <2>3. \A i \in 1 .. n + 1 : ms[i].work <= WorkOf(ms, c.tip)
    <3>1. ms[n + 1].work = w /\ w <= WorkOf(ns, c.tip)
      BY <1>4, <1>5, <1>7, <1>14a, <2>2
    <3>. QED
      BY <1>1, <1>9, <1>14, <3>1
  <2>. HIDE DEF d
  <2>4. d \in ChainType /\ d.nodes = ms /\ d.tip = c.tip /\ d.st = c.st
    BY <1>1, <1>7, <2>1 DEF ChainType
  <2>5. d.tip \in 0 .. Len(d.nodes) /\ d.st = BranchStates(ms)[d.tip]
    BY <1>1, <1>6, <1>7, <2>4
  <2>6. ChainOk(d)
    BY <1>6, <1>7, <1>8, <1>12, <1>13, <2>3, <2>4, <2>5 DEF ChainOk
  <2>. QED
    BY <1>11, <2>4, <2>6 DEF d
<1>. QED
  BY <1>15, <1>16

\* The tip has no child: it would have more work than the tip.
LEMMA TipHasNoChild ==
  ASSUME NEW c, ChainOk(c), NEW b
  PROVE  ~ Known(c.nodes, c.tip, b)
<1>. DEFINE ns == c.nodes
<1>1. c.tip \in 0 .. Len(ns) /\ TreeOk(ns) /\ ns \in Seq(NodeType) /\ DOMAIN ns = 1 .. Len(ns)
  BY DEF ChainOk, TreeOk
<1>2. ASSUME NEW i \in DOMAIN ns, ns[i].parent = c.tip PROVE FALSE
  <2>1. ns[i] \in NodeType
    BY <1>1, ElementOfSeq
  <2>2. ns[i].block.sc_nbits \in Nat
    BY <2>1 DEF NodeType, BlockType
  <2>3. WorkOf(ns, c.tip) \in Nat
    BY <1>1, WorkType
  <2>4. /\ ns[i].block.sc_nbits > 0
        /\ ns[i].work = WorkOf(ns, c.tip) + ns[i].block.sc_nbits
        /\ ns[i].work <= WorkOf(ns, c.tip)
    BY <1>2 DEF ChainOk
  <2>. QED
    BY <2>2, <2>3, <2>4
<1>. QED
  BY <1>1, <1>2 DEF Known


--------------------------------------------------------------------------------
(* The log *)

RecordType == [torn : {FALSE}, parent : Nat, block : BlockType]

\* The equation Replays is defined by.
IsReplays(f, l, n) ==
  f = [i \in 0 .. n |-> IF i = 0 THEN EmptyChain ELSE Reingest(f[i - 1], l[i])]

\* The equation at one point.
LEMMA ReplaysAt ==
  ASSUME NEW f, NEW l, NEW n, IsReplays(f, l, n), NEW i \in 0 .. n
  PROVE  f[i] = IF i = 0 THEN EmptyChain ELSE Reingest(f[i - 1], l[i])
<1>. DEFINE e(j) == IF j = 0 THEN EmptyChain ELSE Reingest(f[j - 1], l[j])
            h == [j \in 0 .. n |-> e(j)]
<1>1. f = h
  BY DEF IsReplays
<1>2. h[i] = e(i)
  OBVIOUS
<1>. HIDE DEF h
<1>. QED
  BY <1>1, <1>2

\* A function that satisfies the equation exists for every length.
LEMMA ReplaysExist ==
  ASSUME NEW l, NEW n \in Nat
  PROVE  \E f : IsReplays(f, l, n)
<1>. DEFINE T == {m \in Nat : ~ \E f : IsReplays(f, l, m)}
<1>. SUFFICES ASSUME T # {} PROVE FALSE
  OBVIOUS
<1>1. PICK m \in T : \A j \in T : m <= j
  BY LeastNat
<1>2. m # 0
  <2>1. IsReplays([i \in 0 .. 0 |-> EmptyChain], l, 0)
    BY DEF IsReplays
  <2>. QED
    BY <2>1
<1>3. m \in Nat /\ m - 1 \in Nat /\ m - 1 \notin T
  BY <1>1, <1>2
<1>4. PICK f : IsReplays(f, l, m - 1)
  BY <1>3
<1>. DEFINE last == Reingest(f[m - 1], l[m])
            h == [i \in 0 .. m |-> IF i < m THEN f[i] ELSE last]
<1>5. \A i \in 0 .. m - 1 : h[i] = f[i]
  BY <1>1
<1>6. h[m] = last /\ DOMAIN h = 0 .. m
  BY <1>1
<1>. HIDE DEF h, last, T
<1>7. ASSUME NEW i \in 0 .. m
      PROVE  h[i] = IF i = 0 THEN EmptyChain ELSE Reingest(h[i - 1], l[i])
  <2>1. CASE i = 0
    <3>1. 0 \in 0 .. m - 1
      BY <1>3
    <3>2. f[0] = EmptyChain
      BY <1>4, <3>1, ReplaysAt
    <3>. QED
      BY <1>5, <2>1, <3>1, <3>2
  <2>2. CASE i \in 1 .. m - 1
    <3>1. h[i] = f[i] /\ h[i - 1] = f[i - 1] /\ i \in 0 .. m - 1 /\ i # 0
      BY <1>3, <1>5, <2>2
    <3>2. f[i] = Reingest(f[i - 1], l[i])
      BY <1>4, <3>1, ReplaysAt
    <3>. QED
      BY <3>1, <3>2
  <2>3. CASE i = m
    <3>1. h[m - 1] = f[m - 1]
      BY <1>3, <1>5
    <3>. QED
      BY <1>2, <1>6, <2>3, <3>1 DEF last
  <2>. QED
    BY <1>3, <2>1, <2>2, <2>3
<1>8. IsReplays(h, l, m)
  <2>1. h = [i \in 0 .. m |-> h[i]]
    BY <1>6 DEF h
  <2>. QED
    BY <1>7, <2>1 DEF IsReplays
<1>. QED
  BY <1>1, <1>8 DEF T

\* What a replay has rebuilt after each record.
LEMMA ReplaysDef ==
  ASSUME NEW l, Len(l) \in Nat, NEW i \in 0 .. Len(l)
  PROVE  Replays(l)[i] = IF i = 0 THEN EmptyChain ELSE Reingest(Replays(l)[i - 1], l[i])
<1>1. PICK f : IsReplays(f, l, Len(l))
  BY ReplaysExist
<1>2. IsReplays(Replays(l), l, Len(l))
  BY <1>1 DEF Replays, IsReplays
<1>. QED
  BY <1>2, ReplaysAt

\* A record written behind a log is ingested into what the log rebuilds.
LEMMA ReplayAppend ==
  ASSUME NEW S, NEW l \in Seq(S), NEW r \in S
  PROVE  Replay(Append(l, r)) = Reingest(Replay(l), r)
<1>. DEFINE m == Append(l, r)
            n == Len(l)
            T == {i \in 0 .. n : Replays(m)[i] # Replays(l)[i]}
<1>1. /\ n \in Nat /\ Len(m) = n + 1 /\ m[n + 1] = r /\ \A i \in 1 .. n : m[i] = l[i]
  BY AppendProperties
<1>. HIDE DEF m
<1>2. T = {}
  <2>. SUFFICES ASSUME T # {} PROVE FALSE
    OBVIOUS
  <2>0. T \in SUBSET Nat
    BY <1>1
  <2>1. PICK i \in T : \A j \in T : i <= j
    BY <2>0, LeastNat
  <2>2. i \in 0 .. n /\ i \in 0 .. Len(m) /\ Len(m) \in Nat
    BY <1>1
  <2>3. /\ Replays(m)[i] = IF i = 0 THEN EmptyChain ELSE Reingest(Replays(m)[i - 1], m[i])
        /\ Replays(l)[i] = IF i = 0 THEN EmptyChain ELSE Reingest(Replays(l)[i - 1], l[i])
    BY <1>1, <2>2, ReplaysDef
  <2>4. i # 0
    BY <2>3
  <2>5. i - 1 \in 0 .. n /\ i - 1 \notin T /\ i \in 1 .. n
    BY <1>1, <2>1, <2>2, <2>4
  <2>6. Replays(m)[i - 1] = Replays(l)[i - 1] /\ m[i] = l[i]
    BY <1>1, <2>5
  <2>. QED
    BY <2>3, <2>4, <2>6
<1>3. n \in 0 .. n /\ n + 1 \in 0 .. Len(m) /\ Len(m) \in Nat /\ n + 1 # 0 /\ n + 1 - 1 = n
  BY <1>1
<1>4. Replays(m)[n] = Replays(l)[n]
  BY <1>2, <1>3
<1>. HIDE DEF T
<1>5. Replays(m)[n + 1] = Reingest(Replays(m)[n], m[n + 1])
  BY <1>3, ReplaysDef
<1>. QED
  BY <1>1, <1>4, <1>5 DEF Replay, m

LEMMA ReplayEmpty == Replay(<<>>) = EmptyChain
<1>1. Len(<<>>) = 0 /\ 0 \in Nat /\ 0 \in 0 .. 0
  OBVIOUS
<1>. QED
  BY <1>1, ReplaysDef DEF Replay

\* A replay of readable records rebuilds a chain that fork choice could have reached.
LEMMA ReplayOk ==
  ASSUME NbitsPositive, NEW l \in Seq(RecordType)
  PROVE  ChainOk(Replay(l))
<1>. DEFINE T == {i \in 0 .. Len(l) : ~ ChainOk(Replays(l)[i])}
<1>0. Len(l) \in Nat
  OBVIOUS
<1>1. T = {}
  <2>. SUFFICES ASSUME T # {} PROVE FALSE
    OBVIOUS
  <2>0. T \in SUBSET Nat
    BY <1>0
  <2>1. PICK i \in T : \A j \in T : i <= j
    BY <2>0, LeastNat
  <2>2. i \in 0 .. Len(l) /\ ~ ChainOk(Replays(l)[i])
    BY <2>1
  <2>3. Replays(l)[i] = IF i = 0 THEN EmptyChain ELSE Reingest(Replays(l)[i - 1], l[i])
    BY <1>0, <2>2, ReplaysDef
  <2>4. i # 0
    BY <2>2, <2>3, EmptyChainOk
  <2>5. i - 1 \in 0 .. Len(l) /\ i - 1 \notin T /\ i \in 1 .. Len(l)
    BY <1>0, <2>1, <2>2, <2>4
  <2>. DEFINE c == Replays(l)[i - 1]
  <2>6. ChainOk(c)
    BY <2>5
  <2>7. l[i] \in RecordType
    BY <2>5, ElementOfSeq
  <2>. HIDE DEF c, T
  <2>8. CASE Accepts(c, l[i].parent, l[i].block)
    <3>1. l[i].parent \in 0 .. Len(c.nodes) /\ l[i].block \in BlockType
      BY <2>7, <2>8 DEF Accepts, Known, RecordType
    <3>2. ChainOk(ForkChoiceIngest(c, l[i].parent, l[i].block))
      BY <2>6, <2>8, <3>1, IngestOk DEF Accepts
    <3>. QED
      BY <2>2, <2>3, <2>4, <2>8, <3>2 DEF Reingest, c
  <2>9. CASE ~ Accepts(c, l[i].parent, l[i].block)
    BY <2>2, <2>3, <2>4, <2>6, <2>9 DEF Reingest, c
  <2>. QED
    BY <2>8, <2>9
<1>2. Len(l) \in 0 .. Len(l)
  BY <1>0
<1>. QED
  BY <1>1, <1>2 DEF Replay

\* read_log stops at the first torn record, and reads the whole log when there is none.
LEMMA ReadLogReads ==
  ASSUME NEW l \in Seq(RecordType \cup {Torn})
  PROVE  /\ ReadLog(l) \in Seq(RecordType)
         /\ l \in Seq(RecordType) => ReadLog(l) = l
<1>. DEFINE good == {n \in 0 .. Len(l) : \A i \in 1 .. n : ~ l[i].torn}
            m == Max(good)
<1>1. Len(l) \in Nat /\ DOMAIN l = 1 .. Len(l)
  OBVIOUS
<1>2. 0 \in good /\ good \subseteq 0 .. Len(l)
  BY <1>1
<1>3. m \in good /\ \A n \in good : n <= m
  <2>. DEFINE T == {Len(l) - n : n \in good}
  <2>1. T \in SUBSET Nat /\ T # {}
    BY <1>1, <1>2
  <2>2. PICK k \in T : \A j \in T : k <= j
    BY <2>1, LeastNat
  <2>3. PICK n \in good : k = Len(l) - n
    BY <2>2
  <2>4. \A j \in good : j <= n
    <3>. SUFFICES ASSUME NEW j \in good PROVE j <= n
      OBVIOUS
    <3>1. Len(l) - n <= Len(l) - j
      BY <2>2, <2>3
    <3>2. j \in Nat /\ n \in Nat
      BY <1>1, <1>2
    <3>. QED
      BY <1>1, <3>1, <3>2
  <2>. HIDE DEF good
  <2>. QED
    BY <2>4 DEF Max
<1>. HIDE DEF m
<1>4. m \in 0 .. Len(l) /\ \A i \in 1 .. m : ~ l[i].torn
  BY <1>3
<1>4a. Len(l) <= m => m = Len(l)
  <2>1. m \in Nat /\ m <= Len(l)
    BY <1>1, <1>4
  <2>2. Len(l) \in Nat
    BY <1>1
  <2>. QED
    BY <2>1, <2>2
<1>5. \A i \in 1 .. m : l[i] \in RecordType
  <2>. SUFFICES ASSUME NEW i \in 1 .. m PROVE l[i] \in RecordType
    OBVIOUS
  <2>1. i \in 1 .. Len(l)
    BY <1>1, <1>4
  <2>2. l[i] \in RecordType \cup {Torn}
    BY <2>1, ElementOfSeq
  <2>3. Torn.torn
    BY DEF Torn
  <2>. QED
    BY <1>4, <2>2, <2>3
<1>. DEFINE u == SubSeq(l, 1, m)
<1>6. ReadLog(l) = u
  BY DEF ReadLog, m
<1>7. Len(u) = m /\ u \in Seq(RecordType \cup {Torn}) /\ \A i \in 1 .. m : u[i] = l[i]
  BY <1>1, <1>4
<1>. HIDE DEF u, good
<1>8. u \in Seq(RecordType)
  <2>1. u = [i \in 1 .. m |-> u[i]]
    BY <1>7
  <2>2. \A i \in 1 .. m : u[i] \in RecordType
    BY <1>5, <1>7
  <2>3. [i \in 1 .. m |-> u[i]] \in Seq(RecordType)
    BY <1>1, <1>4, <2>2
  <2>. QED
    BY <2>1, <2>3
<1>9. ASSUME l \in Seq(RecordType) PROVE u = l
  <2>1. \A i \in 1 .. Len(l) : ~ l[i].torn
    <3>. SUFFICES ASSUME NEW i \in 1 .. Len(l) PROVE ~ l[i].torn
      OBVIOUS
    <3>1. l[i] \in RecordType
      BY <1>9, ElementOfSeq
    <3>. QED
      BY <3>1 DEF RecordType
  <2>2. Len(l) \in good
    BY <1>1, <2>1 DEF good
  <2>3. Len(l) <= m
    BY <1>3, <2>2
  <2>4. m = Len(l)
    BY <1>4a, <2>3
  <2>. QED
    BY <1>1, <1>7, <2>4
<1>. QED
  BY <1>6, <1>8, <1>9

--------------------------------------------------------------------------------
(* The blocks a node adds *)

PoolTypes ==
  /\ mempool \in Seq(TxType)
  /\ mempool_pegouts \in Seq(TxType)
  /\ pegin_queue \in Seq(Deposit)
  /\ mempool_nfs \in SUBSET SpendableNotes
  /\ confirmed \in SUBSET Deposit
  /\ crashes \in 0 .. MaxCrashes

\* The tree, the tip and the state are what fork choice keeps, and the log holds
\* blocks and torn records.
TreeInv ==
  /\ ChainOk(Chain)
  /\ mode \in {"down", "fund", "run"}
  /\ mode = "down" => Chain = EmptyChain
  /\ log \in Seq(RecordType \cup {Torn})
  /\ PoolTypes

\* A step that adds the block b on p: fund, produce_block_anchored and ingest_block.
Adds(p, b) ==
  /\ mode # "down" /\ mode' \in {"fund", "run"}
  /\ p \in 0 .. Len(nodes)
  /\ b \in BlockType
  /\ Accepts(Chain, p, b)
  /\ SetChain(ForkChoiceIngest(Chain, p, b))
  /\ Persist(p, b)

LEMMA ChainSet ==
  ASSUME NEW c \in ChainType, SetChain(c)
  PROVE  Chain' = c
BY DEF ChainType, SetChain, Chain

\* Transactions whose root is one of the recent roots of a state.
LEMMA TxsType ==
  ASSUME NEW s \in StateType, NEW tx \in [spend : Spend, root : ToSet(s.recent_roots)]
  PROVE  tx \in TxType
<1>1. s.recent_roots \in Seq(Seq(LeafType))
  BY DEF StateType
<1>2. ToSet(s.recent_roots) \subseteq Seq(LeafType)
  BY <1>1, ElementOfSeq DEF ToSet
<1>. QED
  BY <1>2 DEF TxType

LEMMA PeerBodiesType ==
  ASSUME NEW s \in StateType, NEW body \in PeerBodies(s)
  PROVE  /\ body.txs \in Seq(TxType)
         /\ body.pegouts \in Seq(TxType)
         /\ body.pegins \in Seq(Deposit)
<1>. DEFINE txs == [spend : Spend, root : ToSet(s.recent_roots)]
            body_(t, o, i) == [txs |-> t, pegouts |-> o, pegins |-> i]
<1>1. \A tx \in txs : tx \in TxType
  BY TxsType
<1>2. <<>> \in Seq(TxType) /\ <<>> \in Seq(Deposit)
  OBVIOUS
<1>3. \A tx \in txs : <<tx>> \in Seq(TxType)
  BY <1>1
<1>4. \A d \in Deposit : <<d>> \in Seq(Deposit)
  OBVIOUS
<1>. HIDE DEF txs
<1>5. \/ body = body_(<<>>, <<>>, <<>>)
      \/ \E tx \in txs : body = body_(<<tx>>, <<>>, <<>>)
      \/ \E tx \in txs : body = body_(<<>>, <<tx>>, <<>>)
      \/ \E d \in Deposit : body = body_(<<>>, <<>>, <<d>>)
  BY DEF PeerBodies, txs
<1>6. CASE body = body_(<<>>, <<>>, <<>>)
  BY <1>2, <1>6
<1>7. ASSUME NEW tx \in txs, body = body_(<<tx>>, <<>>, <<>>)
      PROVE  body.txs \in Seq(TxType) /\ body.pegouts \in Seq(TxType)
               /\ body.pegins \in Seq(Deposit)
  BY <1>2, <1>3, <1>7
<1>8. ASSUME NEW tx \in txs, body = body_(<<>>, <<tx>>, <<>>)
      PROVE  body.txs \in Seq(TxType) /\ body.pegouts \in Seq(TxType)
               /\ body.pegins \in Seq(Deposit)
  BY <1>2, <1>3, <1>8
<1>9. ASSUME NEW d \in Deposit, body = body_(<<>>, <<>>, <<d>>)
      PROVE  body.txs \in Seq(TxType) /\ body.pegouts \in Seq(TxType)
               /\ body.pegins \in Seq(Deposit)
  BY <1>2, <1>4, <1>9
<1>. HIDE DEF body_
<1>. QED
  BY <1>5, <1>6, <1>7, <1>8, <1>9

LEMMA StampType ==
  ASSUME NEW stamp \in Stamps
  PROVE  stamp[1] \in Nat /\ stamp[2] \in Nat
BY ChainAssumption

LEMMA ProposedType ==
  ASSUME NbitsPositive, TreeInv, NEW stamp \in Stamps
  PROVE  ProposedBlock(stamp) \in BlockType
<1>1. st \in StateType
  BY DEF TreeInv, ChainOk, ChainType, Chain
<1>. QED
  BY <1>1, StampType, AssembleRewardType DEF ProposedBlock, TreeInv, PoolTypes

LEMMA FundAdds ==
  ASSUME NbitsPositive, TreeInv, Fund
  PROVE  \E p, b : Adds(p, b)
<1>1. PICK ts \in FundTimes :
        /\ ValidBlock(st, AssembleGenesis(st, ts))
        /\ Persist(canonical_tip, AssembleGenesis(st, ts))
        /\ SetChain(ForkChoiceIngest(Chain, canonical_tip, AssembleGenesis(st, ts)))
  BY DEF Fund
<1>. DEFINE b == AssembleGenesis(st, ts)
<1>2. /\ ChainOk(Chain) /\ Chain.tip = canonical_tip /\ Chain.st = st /\ Chain.nodes = nodes
      /\ st \in StateType /\ canonical_tip \in 0 .. Len(nodes)
  BY DEF TreeInv, ChainOk, ChainType, Chain
<1>3. st.height < Len(GenesisAlloc)
  <2>1. b.coinbase_is_reward = FALSE
    BY DEF AssembleGenesis, Skeleton
  <2>. QED
    BY <1>1, <2>1 DEF ValidBlock, ValidGenesis
<1>4. b \in BlockType
  BY <1>2, <1>3, AssembleGenesisType, ChainAssumption
<1>. HIDE DEF b
<1>5. Accepts(Chain, canonical_tip, b)
  BY <1>1, <1>2, TipHasNoChild DEF Accepts, ParentState, b
<1>. QED
  BY <1>1, <1>2, <1>4, <1>5 DEF Adds, b, Fund

LEMMA ProduceAdds ==
  ASSUME NbitsPositive, TreeInv, NEW stamp \in Stamps, Produce(stamp)
  PROVE  \E p, b : Adds(p, b)
<1>. DEFINE b == ProposedBlock(stamp)
<1>1. /\ ChainOk(Chain) /\ Chain.tip = canonical_tip /\ Chain.st = st /\ Chain.nodes = nodes
      /\ canonical_tip \in 0 .. Len(nodes)
  BY DEF TreeInv, ChainOk, ChainType, Chain
<1>2. b \in BlockType
  BY ProposedType
<1>3. /\ mode = "run" /\ mode' = "run" /\ ValidBlock(st, b) /\ Persist(canonical_tip, b)
      /\ SetChain(ForkChoiceIngest(Chain, canonical_tip, b))
  BY DEF Produce
<1>. HIDE DEF b
<1>4. Accepts(Chain, canonical_tip, b)
  BY <1>1, <1>3, TipHasNoChild DEF Accepts, ParentState
<1>. QED
  BY <1>1, <1>2, <1>3, <1>4 DEF Adds

\* A block of a peer, with what becomes of the pool.
LEMMA IngestAdds ==
  ASSUME NbitsPositive, TreeInv, IngestAnyBlock
  PROVE  /\ \E p, b : Adds(p, b)
         /\ mode = "run" /\ mode' = "run"
         /\ mempool' = IF canonical_tip' # canonical_tip THEN DropConflicting(mempool, st')
                                                       ELSE mempool
         /\ UNCHANGED <<mempool_pegouts, pegin_queue, mempool_nfs, confirmed, crashes>>
<1>1. PICK p \in 0 .. Len(nodes) :
        \E body \in PeerBodies(ParentState(Chain, p)), stamp \in Stamps :
          IngestBlock(p, AssembleReward(ParentState(Chain, p), body.txs, body.pegouts,
                                        body.pegins, stamp[1], stamp[2]))
  BY DEF IngestAnyBlock
<1>. DEFINE s == ParentState(Chain, p)
<1>2. PICK body \in PeerBodies(s), stamp \in Stamps :
        IngestBlock(p, AssembleReward(s, body.txs, body.pegouts, body.pegins,
                                      stamp[1], stamp[2]))
  BY <1>1
<1>. DEFINE b == AssembleReward(s, body.txs, body.pegouts, body.pegins, stamp[1], stamp[2])
<1>3. ChainOk(Chain) /\ Chain.nodes = nodes
  BY DEF TreeInv, Chain
<1>4. s \in StateType
  BY <1>3, ParentIsBranch
<1>. HIDE DEF s
<1>5. b \in BlockType
  BY <1>4, PeerBodiesType, StampType, AssembleRewardType
<1>. HIDE DEF b
<1>6. IngestBlock(p, b)
  BY <1>2 DEF b
<1>7. Adds(p, b)
  BY <1>5, <1>6 DEF Adds, IngestBlock
<1>. QED
  BY <1>6, <1>7 DEF IngestBlock, SetChain

\* A block added keeps the tree, and a step that leaves the tip leaves the state.
LEMMA AddsKeep ==
  ASSUME NbitsPositive, TreeInv, NEW p, NEW b, Adds(p, b)
  PROVE  /\ ChainOk(Chain)'
         /\ Chain' = ForkChoiceIngest(Chain, p, b)
         /\ Record(p, b) \in RecordType
         /\ log' = Append(log, Record(p, b))
         /\ log' \in Seq(RecordType \cup {Torn})
         /\ canonical_tip' = canonical_tip => st' = st
<1>. DEFINE c == ForkChoiceIngest(Chain, p, b)
<1>1. /\ ChainOk(Chain) /\ Chain.nodes = nodes /\ Chain.tip = canonical_tip /\ Chain.st = st
      /\ p \in 0 .. Len(nodes) /\ b \in BlockType /\ ValidBlock(ParentState(Chain, p), b)
  BY DEF TreeInv, Chain, Adds, Accepts
<1>2. ChainOk(c) /\ ((c.tip = Chain.tip /\ c.st = Chain.st) \/ c.tip # Chain.tip)
  BY <1>1, IngestOk
<1>3. SetChain(c)
  BY DEF Adds
<1>. HIDE DEF c
<1>4. c \in ChainType
  BY <1>2 DEF ChainOk
<1>5. Chain' = c
  BY <1>3, <1>4, ChainSet
<1>6. ChainOk(Chain')
  BY <1>2, <1>5
<1>7. canonical_tip' = canonical_tip => st' = st
  BY <1>1, <1>2, <1>3 DEF SetChain
<1>8. Record(p, b) \in RecordType
  <2>1. Len(nodes) \in Nat
    BY <1>1 DEF ChainOk, ChainType
  <2>2. p \in Nat
    BY <1>1, <2>1
  <2>. QED
    BY <1>1, <2>2 DEF Record, RecordType
<1>9. log' = Append(log, Record(p, b))
  BY DEF Adds, Persist
<1>10. log' \in Seq(RecordType \cup {Torn})
  BY <1>8, <1>9, AppendProperties DEF TreeInv
<1>11. ChainOk(Chain)'
  BY <1>6
<1>. QED
  BY <1>5, <1>7, <1>8, <1>9, <1>10, <1>11 DEF c

--------------------------------------------------------------------------------
(* The canonical branch *)

\* What a call that leaves the tree and the log alone has to keep.
LEMMA TreeLeft ==
  ASSUME TreeInv, UNCHANGED <<treeVars, log>>, mode' = mode, PoolTypes'
  PROVE  TreeInv'
<1>1. Chain' = Chain
  BY DEF Chain, treeVars
<1>2. ChainOk(Chain)'
  BY <1>1 DEF TreeInv
<1>. QED
  BY <1>1, <1>2 DEF TreeInv

LEMMA TreeAdded ==
  ASSUME NbitsPositive, TreeInv, NEW p, NEW b, Adds(p, b), PoolTypes'
  PROVE  TreeInv'
BY AddsKeep DEF TreeInv, Adds

LEMMA TreeInit == Init => TreeInv
<1>. SUFFICES ASSUME Init PROVE TreeInv
  OBVIOUS
<1>1. Chain = EmptyChain
  BY DEF Init, Chain, EmptyChain
<1>2. PoolTypes
  BY ChainAssumption DEF Init, PoolTypes
<1>3. log \in Seq(RecordType \cup {Torn}) /\ mode = "fund"
  BY DEF Init
<1>. QED
  BY <1>1, <1>2, <1>3, EmptyChainOk DEF TreeInv

LEMMA TreeStep ==
  ASSUME NbitsPositive, TreeInv, [Next]_vars
  PROVE  TreeInv'
<1>0. /\ mempool \in Seq(TxType) /\ mempool_pegouts \in Seq(TxType)
      /\ pegin_queue \in Seq(Deposit) /\ mempool_nfs \in SUBSET SpendableNotes
      /\ confirmed \in SUBSET Deposit /\ crashes \in 0 .. MaxCrashes
      /\ st \in StateType
  BY DEF TreeInv, PoolTypes, ChainOk, ChainType, Chain
<1>a. /\ <<>> \in Seq(TxType) /\ <<>> \in Seq(Deposit) /\ {} \in SUBSET SpendableNotes
  OBVIOUS
<1>1. CASE Fund
  <2>1. PoolTypes'
    BY <1>0, <1>1 DEF Fund, PoolTypes, poolVars
  <2>. QED
    BY <1>1, <2>1, FundAdds, TreeAdded
<1>2. ASSUME NEW tx \in Txs, Submit(tx) PROVE TreeInv'
  <2>1. tx \in TxType
    BY <1>0, TxsType DEF Txs
  <2>2. mempool' \in Seq(TxType)
    BY <1>0, <1>2, <2>1, AppendProperties DEF Submit
  <2>3. mempool_nfs' \in SUBSET SpendableNotes
    BY <1>0, <1>2, <2>1, LedgerAssumption DEF Submit, TxType
  <2>4. PoolTypes'
    BY <1>0, <1>2, <2>2, <2>3 DEF Submit, PoolTypes
  <2>. QED
    BY <1>2, <2>4, TreeLeft DEF Submit
<1>3. ASSUME NEW tx \in Txs, SubmitPegout(tx) PROVE TreeInv'
  <2>1. tx \in TxType
    BY <1>0, TxsType DEF Txs
  <2>2. mempool_pegouts' \in Seq(TxType)
    BY <1>0, <1>3, <2>1, AppendProperties DEF SubmitPegout
  <2>3. mempool_nfs' \in SUBSET SpendableNotes
    BY <1>0, <1>3, <2>1, LedgerAssumption DEF SubmitPegout, TxType
  <2>4. PoolTypes'
    BY <1>0, <1>3, <2>2, <2>3 DEF SubmitPegout, PoolTypes
  <2>. QED
    BY <1>3, <2>4, TreeLeft DEF SubmitPegout
<1>4. ASSUME NEW d \in Deposit, QueuePegin(d) PROVE TreeInv'
  <2>1. pegin_queue' \in Seq(Deposit)
    BY <1>0, <1>4, AppendProperties DEF QueuePegin
  <2>2. PoolTypes'
    BY <1>0, <1>4, <2>1 DEF QueuePegin, PoolTypes
  <2>. QED
    BY <1>4, <2>2, TreeLeft DEF QueuePegin
<1>5. ASSUME NEW S \in SUBSET Deposit, ViewChanges(S) PROVE TreeInv'
  <2>1. PoolTypes'
    BY <1>0, <1>5 DEF ViewChanges, PoolTypes, poolVars
  <2>. QED
    BY <1>5, <2>1, TreeLeft DEF ViewChanges
<1>6. CASE IngestAnyBlock
  <2>1. mempool' \in Seq(TxType)
    <3>1. DropConflicting(mempool, st') \in Seq(TxType)
      BY <1>0, PickedHolds DEF DropConflicting
    <3>. QED
      BY <1>0, <1>6, <3>1, IngestAdds
  <2>2. UNCHANGED <<mempool_pegouts, pegin_queue, mempool_nfs, confirmed, crashes>>
    BY <1>6, IngestAdds
  <2>3. PoolTypes'
    BY <1>0, <2>1, <2>2 DEF PoolTypes
  <2>. QED
    BY <1>6, <2>3, IngestAdds, TreeAdded
<1>7. ASSUME NEW stamp \in Stamps, Produce(stamp) PROVE TreeInv'
  <2>1. PoolTypes'
    BY <1>0, <1>a, <1>7 DEF Produce, ClearedPools, PoolTypes
  <2>. QED
    BY <1>7, <2>1, ProduceAdds, TreeAdded
<1>8. ASSUME NEW stamp \in Stamps, ProduceFails(stamp) PROVE TreeInv'
  <2>1. PoolTypes'
    BY <1>0, <1>a, <1>8 DEF ProduceFails, ClearedPools, PoolTypes
  <2>. QED
    BY <1>8, <2>1, TreeLeft DEF ProduceFails
<1>9. ASSUME NEW tear \in BOOLEAN, Crash(tear) PROVE TreeInv'
  <2>1. PoolTypes'
    BY <1>0, <1>a, <1>9, ChainAssumption DEF Crash, ClearedPools, PoolTypes
  <2>2. Chain' = EmptyChain
    <3>1. EmptyChain \in ChainType
      BY EmptyChainOk DEF ChainOk
    <3>. QED
      BY <1>9, <3>1, ChainSet DEF Crash
  <2>3. ChainOk(Chain)'
    BY <2>2, EmptyChainOk
  <2>4. log' \in Seq(RecordType \cup {Torn})
    <3>1. log \in Seq(RecordType \cup {Torn}) /\ Torn \in RecordType \cup {Torn}
      BY DEF TreeInv
    <3>2. Append(log, Torn) \in Seq(RecordType \cup {Torn})
      BY <3>1, AppendProperties
    <3>. QED
      BY <1>9, <3>1, <3>2 DEF Crash
  <2>5. mode' = "down"
    BY <1>9 DEF Crash
  <2>. QED
    BY <2>1, <2>2, <2>3, <2>4, <2>5 DEF TreeInv
<1>10. CASE Bootstrap
  <2>1. Chain' = Chain /\ PoolTypes' /\ log' = log /\ mode' = "fund"
    BY <1>0, <1>10 DEF Bootstrap, Chain, treeVars, poolVars, PoolTypes
  <2>2. ChainOk(Chain)'
    BY <2>1 DEF TreeInv
  <2>. QED
    BY <2>1, <2>2 DEF TreeInv
<1>11. CASE Open
  <2>. DEFINE c == Replay(ReadLog(log))
  <2>1. PoolTypes' /\ log' = log /\ mode' = "run" /\ SetChain(c)
    BY <1>0, <1>11 DEF Open, poolVars, PoolTypes
  <2>2. log \in Seq(RecordType \cup {Torn})
    BY DEF TreeInv
  <2>3. ChainOk(c)
    BY <2>2, ReadLogReads, ReplayOk
  <2>. HIDE DEF c
  <2>4. Chain' = c
    BY <2>1, <2>3, ChainSet DEF ChainOk
  <2>5. ChainOk(Chain)'
    BY <2>3, <2>4
  <2>. QED
    BY <2>1, <2>2, <2>5 DEF TreeInv
<1>12. CASE UNCHANGED vars
  <2>1. PoolTypes' /\ mode' = mode /\ UNCHANGED <<treeVars, log>>
    BY <1>0, <1>12 DEF vars, poolVars, PoolTypes
  <2>. QED
    BY <2>1, TreeLeft
<1>. QED
  BY <1>1, <1>2, <1>3, <1>4, <1>5, <1>6, <1>7, <1>8, <1>9, <1>10, <1>11, <1>12 DEF Next

\* The live state is the replay of the canonical branch, and no validated branch has
\* more work: with crashes, torn records and reorgs (fork_choice_ingest, set_canonical,
\* open), for every tree.
THEOREM CanonicalIsHeaviestCorrect ==
  ASSUME NbitsPositive
  PROVE  Spec => []CanonicalIsHeaviest
<1>1. TreeInv => CanonicalIsHeaviest
  <2>. SUFFICES ASSUME TreeInv PROVE CanonicalIsHeaviest
    OBVIOUS
  <2>1. ChainOk(Chain) /\ Chain.nodes = nodes /\ Chain.tip = canonical_tip /\ Chain.st = st
    BY DEF TreeInv, Chain
  <2>. QED
    BY <2>1 DEF ChainOk, CanonicalIsHeaviest, StateIsBranch, RebuildStateTo,
                HeaviestCanonical
<1>2. TreeInv /\ [Next]_vars => TreeInv'
  BY TreeStep
<1>. QED
  BY <1>1, <1>2, TreeInit, PTL DEF Spec

--------------------------------------------------------------------------------
(* Restarts *)

\* Every record is readable, and a replay rebuilds what the node has.
LogInv ==
  /\ log \in Seq(RecordType)
  /\ mode # "down" => Replay(log) = Chain

LEMMA LogAdded ==
  ASSUME NbitsPositive, TreeInv, LogInv, NEW p, NEW b, Adds(p, b)
  PROVE  LogInv'
<1>. DEFINE r == Record(p, b)
<1>1. /\ r \in RecordType /\ log' = Append(log, r) /\ r.parent = p /\ r.block = b
      /\ Chain' = ForkChoiceIngest(Chain, p, b)
  BY AddsKeep DEF Record
<1>2. Replay(log) = Chain /\ Accepts(Chain, p, b) /\ log \in Seq(RecordType)
  BY DEF LogInv, Adds
<1>. HIDE DEF r
<1>3. log' \in Seq(RecordType)
  BY <1>1, <1>2, AppendProperties
<1>4. Replay(log') = Reingest(Chain, r)
  BY <1>1, <1>2, ReplayAppend
<1>5. Replay(log') = Chain'
  BY <1>1, <1>2, <1>4 DEF Reingest
<1>. QED
  BY <1>3, <1>5 DEF LogInv

LEMMA LogStep ==
  ASSUME NbitsPositive, TornWrites = FALSE, TreeInv, LogInv, [Next]_vars
  PROVE  LogInv'
<1>1. ASSUME NEW p, NEW b, Adds(p, b) PROVE LogInv'
  BY <1>1, LogAdded
<1>2. CASE Fund
  BY <1>1, <1>2, FundAdds
<1>3. CASE IngestAnyBlock
  BY <1>1, <1>3, IngestAdds
<1>4. ASSUME NEW stamp \in Stamps, Produce(stamp) PROVE LogInv'
  BY <1>1, <1>4, ProduceAdds
<1>5. CASE mode' = mode /\ UNCHANGED <<treeVars, log>>
  <2>1. Chain' = Chain
    BY <1>5 DEF Chain, treeVars
  <2>. QED
    BY <1>5, <2>1 DEF LogInv
<1>6. ASSUME NEW tear \in BOOLEAN, Crash(tear) PROVE LogInv'
  BY <1>6 DEF Crash, LogInv
<1>7. CASE Bootstrap
  <2>1. Chain' = EmptyChain /\ log' = <<>>
    BY <1>7 DEF Bootstrap, TreeInv, Chain, treeVars
  <2>. QED
    BY <2>1, ReplayEmpty DEF LogInv
<1>8. CASE Open
  <2>1. /\ log' = log /\ mode' = "run" /\ log \in Seq(RecordType)
        /\ SetChain(Replay(ReadLog(log)))
    BY <1>8 DEF Open, LogInv
  <2>2. ReadLog(log) = log
    BY <2>1, ReadLogReads DEF TreeInv
  <2>3. Replay(log) \in ChainType
    BY <2>1, ReplayOk DEF ChainOk
  <2>4. Chain' = Replay(log)
    BY <2>1, <2>2, <2>3, ChainSet
  <2>. QED
    BY <2>1, <2>4 DEF LogInv
<1>9. \/ Fund \/ IngestAnyBlock \/ Bootstrap \/ Open
      \/ \E stamp \in Stamps : Produce(stamp)
      \/ \E tear \in BOOLEAN : Crash(tear)
      \/ mode' = mode /\ UNCHANGED <<treeVars, log>>
  BY DEF Next, Submit, SubmitPegout, QueuePegin, ViewChanges, ProduceFails, vars
<1>. QED
  BY <1>2, <1>3, <1>4, <1>5, <1>6, <1>7, <1>8, <1>9

\* A restart at any moment rebuilds the tree, the tip and the state the node has, for
\* every sequence of blocks, as long as no crash tears a record (open replays the log
\* through the same fork choice that wrote it).
THEOREM LogRebuildsTreeCorrect ==
  ASSUME NbitsPositive, TornWrites = FALSE
  PROVE  Spec => []LogRebuildsTree
<1>1. Init => TreeInv /\ LogInv
  <2>. SUFFICES ASSUME Init PROVE LogInv
    BY TreeInit
  <2>1. log = <<>> /\ Chain = EmptyChain
    BY DEF Init, Chain, EmptyChain
  <2>. QED
    BY <2>1, ReplayEmpty DEF LogInv
<1>2. TreeInv /\ LogInv /\ [Next]_vars => (TreeInv /\ LogInv)'
  BY TreeStep, LogStep
<1>3. TreeInv /\ LogInv => LogRebuildsTree
  BY ReadLogReads DEF TreeInv, LogInv, LogRebuildsTree
<1>. QED
  BY <1>1, <1>2, <1>3, PTL DEF Spec

--------------------------------------------------------------------------------
(* The pools *)

\* No two transactions of a list share a nullifier.
Apart(txs) ==
  \A i, j \in DOMAIN txs : i # j => Inputs[txs[i].spend] \cap Inputs[txs[j].spend] = {}

\* PoolDisjoint by pool, and the pools of a node that does not serve are empty.
PoolInv ==
  /\ Apart(mempool)
  /\ Apart(mempool_pegouts)
  /\ SpentBy(mempool) \cap SpentBy(mempool_pegouts) = {}
  /\ SpentBy(mempool) \subseteq mempool_nfs
  /\ SpentBy(mempool_pegouts) \subseteq mempool_nfs
  /\ MempoolFresh
  /\ mode # "run" => mempool = <<>> /\ mempool_pegouts = <<>>

LEMMA EmptyApart == Apart(<<>>) /\ SpentBy(<<>>) = {}
BY DEF Apart, SpentBy

\* submit: a transaction none of whose inputs is pending.
LEMMA ApartAppend ==
  ASSUME NEW txs \in Seq(TxType), Apart(txs), NEW tx \in TxType,
         Inputs[tx.spend] \cap SpentBy(txs) = {}
  PROVE  /\ Apart(Append(txs, tx))
         /\ SpentBy(Append(txs, tx)) = SpentBy(txs) \cup Inputs[tx.spend]
<1>. DEFINE m == Append(txs, tx)
            n == Len(txs)
<1>1. /\ n \in Nat /\ DOMAIN txs = 1 .. n /\ Len(m) = n + 1 /\ m[n + 1] = tx
      /\ m \in Seq(TxType) /\ \A i \in 1 .. n : m[i] = txs[i]
  BY AppendProperties
<1>. HIDE DEF m
<1>2. DOMAIN m = (1 .. n) \cup {n + 1}
  BY <1>1
<1>3. \A i \in 1 .. n : Inputs[txs[i].spend] \subseteq SpentBy(txs)
  BY <1>1 DEF SpentBy
<1>4. Apart(m)
  <2>. SUFFICES ASSUME NEW i \in DOMAIN m, NEW j \in DOMAIN m, i # j
                PROVE  Inputs[m[i].spend] \cap Inputs[m[j].spend] = {}
    BY DEF Apart
  <2>1. CASE i \in 1 .. n /\ j \in 1 .. n
    BY <1>1, <2>1 DEF Apart
  <2>2. CASE i \in 1 .. n /\ j = n + 1
    BY <1>1, <1>3, <2>2
  <2>3. CASE i = n + 1 /\ j \in 1 .. n
    BY <1>1, <1>3, <2>3
  <2>. QED
    BY <1>2, <2>1, <2>2, <2>3
<1>5. SpentBy(m) = SpentBy(txs) \cup Inputs[tx.spend]
  BY <1>1, <1>2 DEF SpentBy
<1>. QED
  BY <1>4, <1>5 DEF m

\* drop_conflicting_mempool keeps transactions that were apart, and none of those it
\* keeps spends what the state has spent.
LEMMA DropKeeps ==
  ASSUME NEW txs \in Seq(TxType), Apart(txs), NEW s
  PROVE  /\ Apart(DropConflicting(txs, s))
         /\ SpentBy(DropConflicting(txs, s)) \subseteq SpentBy(txs)
         /\ SpentBy(DropConflicting(txs, s)) \cap s.nullifiers = {}
<1>. DEFINE K == {i \in DOMAIN txs : Inputs[txs[i].spend] \cap s.nullifiers = {}}
            d == Picked(txs, K)
<1>1. d = DropConflicting(txs, s)
  BY DEF DropConflicting
<1>2. PICK g \in [DOMAIN d -> DOMAIN txs] :
        /\ \A i \in DOMAIN d : g[i] \in K /\ d[i] = txs[g[i]]
        /\ \A i, j \in DOMAIN d : g[i] = g[j] => i = j
  BY PickedApart
<1>. HIDE DEF d
<1>3. Apart(d)
  BY <1>2 DEF Apart
<1>4. SpentBy(d) \subseteq SpentBy(txs)
  BY <1>2 DEF SpentBy
<1>5. SpentBy(d) \cap s.nullifiers = {}
  BY <1>2 DEF SpentBy
<1>. QED
  BY <1>1, <1>3, <1>4, <1>5

\* What PoolInv says of each pool gives what PoolDisjoint says of both together.
LEMMA PoolsTogether ==
  ASSUME TreeInv, PoolInv
  PROVE  Pending \in Seq(TxType) /\ PoolDisjoint
<1>. DEFINE n == Len(mempool)
            m == Len(mempool_pegouts)
            all == mempool \o mempool_pegouts
<1>1. /\ mempool \in Seq(TxType) /\ mempool_pegouts \in Seq(TxType) /\ n \in Nat /\ m \in Nat
      /\ DOMAIN mempool = 1 .. n /\ DOMAIN mempool_pegouts = 1 .. m
  BY DEF TreeInv, PoolTypes
<1>2. /\ all \in Seq(TxType) /\ Len(all) = n + m
      /\ \A i \in 1 .. n + m : all[i] = IF i <= n THEN mempool[i] ELSE mempool_pegouts[i - n]
  BY <1>1, ConcatProperties
<1>. HIDE DEF all
<1>3. DOMAIN all = 1 .. n + m
  BY <1>1, <1>2
<1>4. ASSUME NEW i \in 1 .. n + m
      PROVE  \/ i \in 1 .. n /\ all[i] = mempool[i]
             \/ i - n \in 1 .. m /\ all[i] = mempool_pegouts[i - n] /\ i > n
  BY <1>1, <1>2
<1>5. /\ \A i \in 1 .. n : Inputs[mempool[i].spend] \subseteq SpentBy(mempool)
      /\ \A i \in 1 .. m : Inputs[mempool_pegouts[i].spend] \subseteq SpentBy(mempool_pegouts)
  BY <1>1 DEF SpentBy
<1>6. \A i \in 1 .. n + m : Inputs[all[i].spend] \subseteq mempool_nfs
  BY <1>4, <1>5 DEF PoolInv
<1>7. ASSUME NEW i \in 1 .. n + m, NEW j \in 1 .. n + m, i # j
      PROVE  Inputs[all[i].spend] \cap Inputs[all[j].spend] = {}
  <2>0. i - n # j - n
    BY <1>1, <1>7
  <2>1. CASE i \in 1 .. n /\ j \in 1 .. n
    <3>1. all[i] = mempool[i] /\ all[j] = mempool[j]
      BY <1>1, <1>2, <2>1
    <3>. QED
      BY <1>1, <1>7, <2>1, <3>1 DEF PoolInv, Apart
  <2>. DEFINE inPool(k) == Inputs[all[k].spend] \subseteq SpentBy(mempool)
              inPegouts(k) == Inputs[all[k].spend] \subseteq SpentBy(mempool_pegouts)
  <2>5. \A k \in 1 .. n + m : k \in 1 .. n => inPool(k)
    BY <1>4, <1>5
  <2>6. \A k \in 1 .. n + m : k \notin 1 .. n => inPegouts(k)
    BY <1>4, <1>5
  <2>7. SpentBy(mempool) \cap SpentBy(mempool_pegouts) = {}
    BY DEF PoolInv
  <2>2. CASE i \in 1 .. n /\ j \notin 1 .. n
    <3>1. inPool(i) /\ inPegouts(j)
      BY <2>2, <2>5, <2>6
    <3>. QED
      BY <2>7, <3>1
  <2>3. CASE i \notin 1 .. n /\ j \in 1 .. n
    <3>1. inPool(j) /\ inPegouts(i)
      BY <2>3, <2>5, <2>6
    <3>. QED
      BY <2>7, <3>1
  <2>4. CASE i \notin 1 .. n /\ j \notin 1 .. n
    <3>1. /\ i - n \in 1 .. m /\ all[i] = mempool_pegouts[i - n]
          /\ j - n \in 1 .. m /\ all[j] = mempool_pegouts[j - n]
      BY <1>4, <2>4
    <3>. QED
      BY <1>1, <2>0, <3>1 DEF PoolInv, Apart
  <2>. QED
    BY <2>1, <2>2, <2>3, <2>4
<1>8. Pending = all
  BY DEF Pending, all
<1>9. SpentBy(all) \subseteq mempool_nfs
  BY <1>3, <1>6 DEF SpentBy
<1>. QED
  BY <1>2, <1>3, <1>7, <1>8, <1>9 DEF PoolDisjoint

\* The pools and the index are emptied, or only the pools are.
LEMMA PoolsEmptied ==
  ASSUME ClearedPools
  PROVE  PoolInv'
<1>1. mempool' = <<>> /\ mempool_pegouts' = <<>>
  BY DEF ClearedPools
<1>. QED
  BY <1>1, EmptyApart DEF PoolInv, MempoolFresh

\* Nothing is pending before and after.
LEMMA PoolsStayEmpty ==
  ASSUME PoolInv, mode # "run", UNCHANGED poolVars
  PROVE  PoolInv'
<1>1. mempool' = <<>> /\ mempool_pegouts' = <<>>
  BY DEF PoolInv, poolVars
<1>. QED
  BY <1>1, EmptyApart DEF PoolInv, MempoolFresh

LEMMA PoolsLeft ==
  ASSUME PoolInv, mode' = mode, st' = st,
         UNCHANGED <<mempool, mempool_pegouts, mempool_nfs>>
  PROVE  PoolInv'
BY DEF PoolInv, MempoolFresh

LEMMA PoolStep ==
  ASSUME NbitsPositive, TreeInv, PoolInv, [Next]_vars
  PROVE  PoolInv'
<1>0. /\ mempool \in Seq(TxType) /\ mempool_pegouts \in Seq(TxType) /\ st \in StateType
  BY DEF TreeInv, PoolTypes, ChainOk, ChainType, Chain
<1>1. CASE Fund \/ Bootstrap \/ Open
  BY <1>1, PoolsStayEmpty DEF Fund, Bootstrap, Open
<1>2. ASSUME NEW tx \in Txs, Submit(tx) PROVE PoolInv'
  <2>1. tx \in TxType
    BY <1>0, TxsType DEF Txs
  <2>2. Inputs[tx.spend] \cap (st.nullifiers \cup mempool_nfs) = {}
    BY <1>2 DEF Submit, ValidateTx
  <2>3. mempool' = Append(mempool, tx) /\ mempool_nfs' = mempool_nfs \cup Inputs[tx.spend]
        /\ mempool_pegouts' = mempool_pegouts /\ st' = st /\ mode' = mode /\ mode = "run"
    BY <1>2 DEF Submit, treeVars
  <2>4. Inputs[tx.spend] \cap SpentBy(mempool) = {}
    BY <2>2 DEF PoolInv
  <2>5. /\ Apart(mempool')
        /\ SpentBy(mempool') = SpentBy(mempool) \cup Inputs[tx.spend]
    BY <1>0, <2>1, <2>3, <2>4, ApartAppend DEF PoolInv
  <2>6. /\ SpentBy(mempool') \cap SpentBy(mempool_pegouts) = {}
        /\ SpentBy(mempool') \subseteq mempool_nfs'
        /\ SpentBy(mempool_pegouts) \subseteq mempool_nfs'
        /\ SpentBy(mempool') \cap st.nullifiers = {}
    BY <2>2, <2>3, <2>5 DEF PoolInv, MempoolFresh
  <2>. QED
    BY <2>3, <2>5, <2>6 DEF PoolInv, MempoolFresh
<1>3. ASSUME NEW tx \in Txs, SubmitPegout(tx) PROVE PoolInv'
  <2>1. tx \in TxType
    BY <1>0, TxsType DEF Txs
  <2>2. Inputs[tx.spend] \cap (st.nullifiers \cup mempool_nfs) = {}
    BY <1>3 DEF SubmitPegout, ValidateTx
  <2>3. mempool_pegouts' = Append(mempool_pegouts, tx)
        /\ mempool_nfs' = mempool_nfs \cup Inputs[tx.spend]
        /\ mempool' = mempool /\ st' = st /\ mode' = mode /\ mode = "run"
    BY <1>3 DEF SubmitPegout, treeVars
  <2>4. Inputs[tx.spend] \cap SpentBy(mempool_pegouts) = {}
    BY <2>2 DEF PoolInv
  <2>5. /\ Apart(mempool_pegouts')
        /\ SpentBy(mempool_pegouts') = SpentBy(mempool_pegouts) \cup Inputs[tx.spend]
    BY <1>0, <2>1, <2>3, <2>4, ApartAppend DEF PoolInv
  <2>6. /\ SpentBy(mempool) \cap SpentBy(mempool_pegouts') = {}
        /\ SpentBy(mempool) \subseteq mempool_nfs'
        /\ SpentBy(mempool_pegouts') \subseteq mempool_nfs'
    BY <2>2, <2>3, <2>5 DEF PoolInv
  <2>. QED
    BY <2>3, <2>5, <2>6 DEF PoolInv, MempoolFresh
<1>4. CASE IngestAnyBlock
  <2>1. /\ mode' = mode /\ mempool_pegouts' = mempool_pegouts /\ mempool_nfs' = mempool_nfs
        /\ mode = "run"
        /\ mempool' = IF canonical_tip' # canonical_tip THEN DropConflicting(mempool, st')
                                                      ELSE mempool
        /\ \E p, b : Adds(p, b)
    BY <1>4, IngestAdds
  <2>2. CASE canonical_tip' # canonical_tip
    <3>1. mempool' = DropConflicting(mempool, st')
      BY <2>1, <2>2
    <3>2. /\ Apart(mempool') /\ SpentBy(mempool') \subseteq SpentBy(mempool)
          /\ SpentBy(mempool') \cap st'.nullifiers = {}
      BY <1>0, <3>1, DropKeeps DEF PoolInv
    <3>. QED
      BY <2>1, <3>2 DEF PoolInv, MempoolFresh
  <2>3. CASE canonical_tip' = canonical_tip
    <3>1. mempool' = mempool
      BY <2>1, <2>3
    <3>2. st' = st
      BY <2>1, <2>3, AddsKeep
    <3>. QED
      BY <2>1, <3>1, <3>2, PoolsLeft
  <2>. QED
    BY <2>2, <2>3
<1>5. CASE \/ \E stamp \in Stamps : Produce(stamp) \/ ProduceFails(stamp)
           \/ \E tear \in BOOLEAN : Crash(tear)
  <2>1. ClearedPools
    BY <1>5 DEF Produce, ProduceFails, Crash
  <2>. QED
    BY <2>1, PoolsEmptied
<1>6. CASE \/ \E d \in Deposit : QueuePegin(d)
           \/ \E S \in SUBSET Deposit : ViewChanges(S)
           \/ UNCHANGED vars
  <2>1. mode' = mode /\ st' = st /\ UNCHANGED <<mempool, mempool_pegouts, mempool_nfs>>
    BY <1>6 DEF QueuePegin, ViewChanges, vars, treeVars, poolVars
  <2>. QED
    BY <2>1, PoolsLeft
<1>. QED
  BY <1>1, <1>2, <1>3, <1>4, <1>5, <1>6 DEF Next

\* Whatever transactions, blocks, reorgs and restarts a node sees, what waits in its
\* pools can go into one block: no two pending transactions share a nullifier and no
\* pending transfer spends what the canonical branch has spent (submit, submit_pegout,
\* drop_conflicting_mempool).
THEOREM PoolsAreSoundCorrect ==
  ASSUME NbitsPositive
  PROVE  Spec => []PoolsAreSound
<1>1. Init => TreeInv /\ PoolInv
  <2>. SUFFICES ASSUME Init PROVE PoolInv
    BY TreeInit
  <2>. QED
    BY EmptyApart DEF Init, PoolInv, MempoolFresh
<1>2. TreeInv /\ PoolInv /\ [Next]_vars => (TreeInv /\ PoolInv)'
  BY TreeStep, PoolStep
<1>3. TreeInv /\ PoolInv => PoolsAreSound
  <2>. SUFFICES ASSUME TreeInv, PoolInv PROVE PoolsAreSound
    OBVIOUS
  <2>1. /\ ChainOk(Chain) /\ Chain.nodes = nodes /\ Chain.tip = canonical_tip
        /\ Chain.st = st
    BY DEF TreeInv, Chain
  <2>2. /\ nodes \in Seq(NodeType) /\ st \in StateType /\ canonical_tip \in 0 .. Len(nodes)
        /\ \A i \in DOMAIN nodes : nodes[i].parent \in 0 .. (i - 1)
    BY <2>1 DEF ChainOk, ChainType, TreeOk
  <2>3. \A i \in DOMAIN nodes : nodes[i].work \in Nat
    <3>1. DOMAIN nodes = 1 .. Len(nodes)
      BY <2>2
    <3>2. \A i \in 1 .. Len(nodes) : nodes[i] \in NodeType
      BY <2>2, ElementOfSeq
    <3>. QED
      BY <3>1, <3>2 DEF NodeType
  <2>4. {st.pot, st.shielded_total} \subseteq Nat
    BY <2>2 DEF StateType
  <2>5. TypeOK
    BY <2>2, <2>3, <2>4, PoolsTogether DEF TypeOK, TreeInv, PoolTypes
  <2>. QED
    BY <2>5, PoolsTogether DEF PoolsAreSound, PoolInv
<1>. QED
  BY <1>1, <1>2, <1>3, PTL DEF Spec

===============================================================================
