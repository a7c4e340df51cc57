----------------------------- MODULE HnStateProofs -----------------------------
(***************************************************************************)
(* HnState under any mix of blocks and rollbacks, and whatever the blocks  *)
(* claim: a rollback returns the very state the block was applied to, and  *)
(* the accepted roots are those of the live branch.                        *)
(***************************************************************************)
EXTENDS HnState, HnLedgerProofs

--------------------------------------------------------------------------------
(* What the unspent notes are worth *)

\* The leaves of a tree with what each is worth when the notes in N are spent.
Worths(tree, N) ==
  [i \in DOMAIN tree |-> IF tree[i].note \in N THEN 0 ELSE tree[i].value]

UnspentOf(tree, N) == Total(Worths(tree, N))

\* Each note of a tree but a coinbase has the value its origin fixes.
ValuesOk(tree) ==
  \A i \in DOMAIN tree :
    tree[i].note \in SpendableNotes => tree[i].value = NoteValue(tree[i].note)

OnceEach(tree) == \A i, j \in DOMAIN tree : tree[i].note = tree[j].note => i = j

LEMMA WorthsType ==
  ASSUME NEW tree \in Seq(LeafType), NEW N
  PROVE  /\ Worths(tree, N) \in Seq(Int) /\ Len(Worths(tree, N)) = Len(tree)
         /\ \A i \in 1 .. Len(tree) :
              /\ Worths(tree, N)[i] = IF tree[i].note \in N THEN 0 ELSE tree[i].value
              /\ Worths(tree, N)[i] \in Int
              /\ tree[i].value \in Int
         /\ UnspentOf(tree, N) \in Int
<1>1. Len(tree) \in Nat /\ DOMAIN tree = 1 .. Len(tree)
  OBVIOUS
<1>2. \A i \in 1 .. Len(tree) : tree[i] \in LeafType
  BY ElementOfSeq
<1>3. \A i \in 1 .. Len(tree) : tree[i].value \in Int
  BY <1>2 DEF LeafType
<1>4. /\ Worths(tree, N) \in Seq(Int) /\ Len(Worths(tree, N)) = Len(tree)
      /\ \A i \in 1 .. Len(tree) :
           /\ Worths(tree, N)[i] = IF tree[i].note \in N THEN 0 ELSE tree[i].value
           /\ Worths(tree, N)[i] \in Int
  BY <1>1, <1>3 DEF Worths
<1>5. UnspentOf(tree, N) \in Int
  <2>1. Len(tree) \in 0 .. Len(tree)
    BY <1>1
  <2>2. Totals(Worths(tree, N))[Len(tree)] \in Int
    BY <1>1, <1>4, <2>1, TotalsType
  <2>. QED
    BY <1>4, <2>2 DEF UnspentOf, Total
<1>. QED
  BY <1>3, <1>4, <1>5

LEMMA UnspentConcat ==
  ASSUME NEW s \in Seq(LeafType), NEW t \in Seq(LeafType), NEW N
  PROVE  UnspentOf(s \o t, N) = UnspentOf(s, N) + UnspentOf(t, N)
<1>. DEFINE f == [x \in LeafType |-> IF x.note \in N THEN 0 ELSE x.value]
<1>1. f \in [LeafType -> Int]
  <2>1. \A x \in LeafType : x.value \in Nat
    BY DEF LeafType
  <2>. QED
    BY <2>1
<1>2. ASSUME NEW x \in Seq(LeafType) PROVE UnspentOf(x, N) = SumOver(f, x)
  <2>1. Worths(x, N) = [i \in DOMAIN x |-> f[x[i]]]
    BY ElementOfSeq DEF Worths
  <2>. QED
    BY <2>1 DEF UnspentOf, SumOver
<1>3. s \o t \in Seq(LeafType)
  BY ConcatProperties
<1>. HIDE DEF f
<1>4. SumOver(f, s \o t) = SumOver(f, s) + SumOver(f, t)
  BY <1>1, TotalMap
<1>. QED
  BY <1>2, <1>3, <1>4

\* Spending one note takes its value away.
LEMMA SpendNote ==
  ASSUME NEW tree \in Seq(LeafType), OnceEach(tree), ValuesOk(tree), NEW N,
         NEW x \in SpendableNotes, x \in Notes(tree), x \notin N
  PROVE  UnspentOf(tree, N) = UnspentOf(tree, N \cup {x}) + NoteValue(x)
<1>. DEFINE n == Len(tree)
            M == N \cup {x}
<1>1. n \in Nat /\ DOMAIN tree = 1 .. n
  OBVIOUS
<1>2. PICK k \in 1 .. n : tree[k].note = x
  BY <1>1 DEF Notes
<1>3. tree[k].value = NoteValue(x)
  BY <1>1, <1>2 DEF ValuesOk
<1>. DEFINE v == NoteValue(x)
            one == [i \in 1 .. n |-> IF i = k THEN v ELSE 0]
<1>4. /\ Len(Worths(tree, N)) = n /\ Len(Worths(tree, M)) = n
      /\ \A i \in 1 .. n : Worths(tree, N)[i] = IF tree[i].note \in N THEN 0 ELSE tree[i].value
      /\ \A i \in 1 .. n : Worths(tree, M)[i] = IF tree[i].note \in M THEN 0 ELSE tree[i].value
      /\ \A i \in 1 .. n : Worths(tree, M)[i] \in Int /\ tree[i].value \in Int
  BY WorthsType
<1>5. v \in Int
  BY <1>2, <1>3, <1>4
<1>. HIDE DEF v
<1>6. Len(one) = n /\ \A i \in 1 .. n : one[i] \in Int /\ one[i] = IF i = k THEN v ELSE 0
  BY <1>5
<1>7. Total(one) = v
  BY <1>1, <1>5, TotalOne
<1>. HIDE DEF one
<1>8. ASSUME NEW i \in 1 .. n
      PROVE  Worths(tree, N)[i] = Worths(tree, M)[i] + one[i]
  <2>1. CASE i = k
    <3>1. Worths(tree, N)[i] = v /\ Worths(tree, M)[i] = 0 /\ one[i] = v
      BY <1>2, <1>3, <1>4, <1>6, <2>1 DEF v
    <3>. QED
      BY <1>5, <3>1
  <2>2. CASE i # k
    <3>1. tree[i].note # x
      BY <1>1, <1>2, <2>2 DEF OnceEach
    <3>2. Worths(tree, N)[i] = Worths(tree, M)[i] /\ one[i] = 0
      BY <1>4, <1>6, <2>2, <3>1
    <3>. QED
      BY <1>4, <3>2
  <2>. QED
    BY <2>1, <2>2
<1>9. Total(Worths(tree, N)) = Total(Worths(tree, M)) + Total(one)
  <2>. DEFINE a == Worths(tree, N)
              c == Worths(tree, M)
  <2>1. Len(a) = n /\ Len(c) = n /\ \A i \in 1 .. n : c[i] \in Int /\ a[i] = c[i] + one[i]
    BY <1>4, <1>8
  <2>. HIDE DEF a, c
  <2>2. Total(a) = Total(c) + Total(one)
    BY <1>1, <1>6, <2>1, TotalAdds
  <2>. QED
    BY <2>2 DEF a, c
<1>. QED
  BY <1>7, <1>9 DEF UnspentOf, v

\* What a spend costs: its outputs and the flat fee, which its two inputs pay for.
Cost(t) == OutValue[t][1] + OutValue[t][2] + FLAT_FEE

LEMMA CostType ==
  ASSUME NEW t \in Spend
  PROVE  OutValue[t][1] \in Nat /\ OutValue[t][2] \in Nat /\ FLAT_FEE \in Nat /\ Cost(t) \in Nat
<1>1. OutValue[t] \in Nat \X Nat /\ FLAT_FEE \in Nat
  BY LedgerAssumption
<1>2. OutValue[t][1] \in Nat /\ OutValue[t][2] \in Nat
  BY <1>1
<1>. QED
  BY <1>1, <1>2 DEF Cost

LEMMA SpendOne ==
  ASSUME NEW tree \in Seq(LeafType), OnceEach(tree), ValuesOk(tree), NEW N, NEW t \in Spend,
         Inputs[t] \subseteq Notes(tree), Inputs[t] \cap N = {}
  PROVE  UnspentOf(tree, N) = UnspentOf(tree, N \cup Inputs[t]) + Cost(t)
<1>1. PICK x \in Inputs[t], y \in Inputs[t] :
        /\ x # y /\ Inputs[t] = {x, y}
        /\ NoteValue(x) + NoteValue(y) = OutValue[t][1] + OutValue[t][2] + FLAT_FEE
  BY BalanceAssumption
<1>2. x \in SpendableNotes /\ y \in SpendableNotes
  BY LedgerAssumption
<1>3. /\ x \in Notes(tree) /\ y \in Notes(tree) /\ x \notin N /\ y \notin N \cup {x}
  BY <1>1
<1>4. UnspentOf(tree, N) = UnspentOf(tree, N \cup {x}) + NoteValue(x)
  BY <1>2, <1>3, SpendNote
<1>5. UnspentOf(tree, N \cup {x}) = UnspentOf(tree, N \cup {x} \cup {y}) + NoteValue(y)
  BY <1>2, <1>3, SpendNote
<1>6. N \cup {x} \cup {y} = N \cup Inputs[t]
  BY <1>1
<1>7. ASSUME NEW z \in SpendableNotes, z \in Notes(tree) PROVE NoteValue(z) \in Int
  <2>1. DOMAIN tree = 1 .. Len(tree)
    OBVIOUS
  <2>2. PICK k \in 1 .. Len(tree) : tree[k].note = z
    BY <1>7, <2>1 DEF Notes
  <2>3. tree[k].value = NoteValue(z)
    BY <1>7, <2>1, <2>2 DEF ValuesOk
  <2>4. tree[k].value \in Int
    BY WorthsType
  <2>. QED
    BY <2>3, <2>4
<1>8. NoteValue(x) \in Int /\ NoteValue(y) \in Int
  BY <1>2, <1>3, <1>7
<1>9. UnspentOf(tree, N \cup Inputs[t]) \in Int
  BY WorthsType
<1>10. Cost(t) = NoteValue(x) + NoteValue(y)
  BY <1>1 DEF Cost
<1>11. UnspentOf(tree, N) = UnspentOf(tree, N \cup Inputs[t]) + NoteValue(y) + NoteValue(x)
  BY <1>4, <1>5, <1>6
<1>. QED
  BY <1>8, <1>9, <1>10, <1>11

\* What the spends of a block cost together.
Costs(b) == [i \in DOMAIN Spends(b) |-> Cost(Spends(b)[i].spend)]

\* The spends of a valid block take the values of their inputs away, and nothing else.
LEMMA SpendAll ==
  ASSUME NEW s \in StateType, NEW b \in BlockType, ValidBlock(s, b), NotesOk(s),
         ValuesOk(s.tree)
  PROVE  UnspentOf(s.tree, s.nullifiers)
           = UnspentOf(s.tree, s.nullifiers \cup SpentBy(Spends(b))) + Total(Costs(b))
<1>. DEFINE all == Spends(b)
            k == Len(all)
            tree == s.tree
            N == s.nullifiers
            c == Costs(b)
            By(i) == UNION {Inputs[all[j].spend] : j \in 1 .. i}
<1>1. /\ all \in Seq(TxType) /\ k \in Nat /\ DOMAIN all = 1 .. k /\ tree \in Seq(LeafType)
      /\ OnceEach(tree)
  BY SpendsType DEF StateType, NotesOk, OnceEach
<1>2. \A i \in 1 .. k : all[i].spend \in Spend /\ Cost(all[i].spend) \in Int
  <2>1. \A i \in 1 .. k : all[i] \in TxType
    BY <1>1, ElementOfSeq
  <2>2. \A i \in 1 .. k : all[i].spend \in Spend
    BY <2>1 DEF TxType
  <2>. QED
    BY <2>2, CostType
<1>3. Len(c) = k /\ \A i \in 1 .. k : c[i] = Cost(all[i].spend) /\ c[i] \in Int
  <2>1. c = [i \in 1 .. k |-> Cost(all[i].spend)]
    BY <1>1 DEF Costs
  <2>. QED
    BY <1>1, <1>2, <2>1
<1>4. ASSUME NEW i \in 0 .. k PROVE SpentBy(SubSeq(all, 1, i)) = By(i)
  <2>. DEFINE u == SubSeq(all, 1, i)
  <2>1. u \in Seq(TxType) /\ Len(u) = i /\ \A j \in 1 .. i : u[j] = all[j]
    BY <1>1
  <2>. HIDE DEF u, all
  <2>2. DOMAIN u = 1 .. i
    BY <2>1
  <2>. QED
    BY <2>1, <2>2 DEF SpentBy, u
<1>5. SpentBy(all) = By(k)
  BY <1>1 DEF SpentBy
<1>6. ASSUME NEW i \in 0 .. k - 1
      PROVE  /\ Inputs[all[i + 1].spend] \cap (N \cup By(i)) = {}
             /\ Inputs[all[i + 1].spend] \subseteq Notes(tree)
             /\ By(i + 1) = By(i) \cup Inputs[all[i + 1].spend]
  <2>1. i + 1 \in 1 .. k /\ i + 1 - 1 = i /\ i \in 0 .. k /\ 1 .. i + 1 = (1 .. i) \cup {i + 1}
    BY <1>1
  <2>2. ValidateTx(s, all[i + 1], SpentBy(SubSeq(all, 1, i)))
    BY <1>1, <2>1 DEF ValidBlock, ValidSpends
  <2>3. Inputs[all[i + 1].spend] \cap (N \cup By(i)) = {}
    BY <1>4, <2>1, <2>2 DEF ValidateTx
  <2>4. Inputs[all[i + 1].spend] \subseteq SpentBy(all)
    BY <1>1, <2>1 DEF SpentBy
  <2>5. SpentBy(all) \subseteq Notes(tree)
    BY SpendsFresh
  <2>6. By(i + 1) = By(i) \cup Inputs[all[i + 1].spend]
    BY <2>1
  <2>. HIDE DEF all, By, tree, N
  <2>. QED
    BY <2>3, <2>4, <2>5, <2>6
<1>. DEFINE U(i) == UnspentOf(tree, N \cup By(i))
            G == {i \in 0 .. k : UnspentOf(tree, N) = U(i) + Totals(c)[i]}
<1>7. /\ Totals(c)[0] = 0 /\ \A i \in 0 .. k - 1 : Totals(c)[i + 1] = Totals(c)[i] + c[i + 1]
      /\ Total(c) = Totals(c)[k] /\ \A i \in 0 .. k : Totals(c)[i] \in Int
  BY <1>1, <1>3, TotalsNext, TotalsType
<1>8. \A i \in 0 .. k : U(i) \in Int
  BY <1>1, WorthsType
<1>9. 0 \in G
  <2>1. N \cup By(0) = N
    OBVIOUS
  <2>2. UnspentOf(tree, N) \in Int
    BY <1>1, WorthsType
  <2>. HIDE DEF N, By, tree, c, all
  <2>3. U(0) = UnspentOf(tree, N)
    BY <2>1
  <2>. HIDE DEF U
  <2>4. UnspentOf(tree, N) = U(0) + Totals(c)[0]
    BY <1>7, <2>2, <2>3
  <2>. QED
    BY <1>1, <2>4
<1>. HIDE DEF all, By, c, tree, N
<1>10. ASSUME NEW i \in 0 .. k - 1, i \in G PROVE i + 1 \in G
  <2>1. i + 1 \in 1 .. k /\ i + 1 \in 0 .. k /\ i \in 0 .. k
    BY <1>1
  <2>2. (N \cup By(i)) \cup Inputs[all[i + 1].spend] = N \cup By(i + 1)
    BY <1>6
  <2>3. U(i) = U(i + 1) + c[i + 1]
    <3>1. ValuesOk(tree)
      BY DEF tree
    <3>2. /\ all[i + 1].spend \in Spend
          /\ Inputs[all[i + 1].spend] \subseteq Notes(tree)
          /\ Inputs[all[i + 1].spend] \cap (N \cup By(i)) = {}
      BY <1>2, <1>6, <2>1
    <3>3. UnspentOf(tree, N \cup By(i))
            = UnspentOf(tree, (N \cup By(i)) \cup Inputs[all[i + 1].spend])
                + Cost(all[i + 1].spend)
      BY <1>1, <3>1, <3>2, SpendOne
    <3>. QED
      BY <1>3, <2>1, <2>2, <3>3
  <2>4. UnspentOf(tree, N) = U(i) + Totals(c)[i] /\ Totals(c)[i + 1] = Totals(c)[i] + c[i + 1]
    BY <1>7, <1>10
  <2>5. U(i + 1) \in Int /\ c[i + 1] \in Int /\ Totals(c)[i] \in Int
    BY <1>3, <1>7, <1>8, <2>1
  <2>. HIDE DEF U
  <2>6. UnspentOf(tree, N) = U(i + 1) + Totals(c)[i + 1]
    BY <2>3, <2>4, <2>5
  <2>. QED
    BY <2>1, <2>6 DEF U
<1>11. k \in G
  <2>. HIDE DEF G
  <2>1. \A i \in 0 .. k : i \in G
    BY <1>1, <1>9, <1>10, UpTo
  <2>. QED
    BY <1>1, <2>1
<1>12. UnspentOf(tree, N) = UnspentOf(tree, N \cup SpentBy(all)) + Total(c)
  BY <1>5, <1>7, <1>11
<1>. QED
  BY <1>12 DEF tree, N, all, c

\* The values of the outputs of each spend.
Pairs(b) ==
  [i \in DOMAIN Spends(b) |-> OutValue[Spends(b)[i].spend][1] + OutValue[Spends(b)[i].spend][2]]

\* What the spends cost goes to their outputs and to the fees.
LEMMA CostsSplit ==
  ASSUME NEW b \in BlockType
  PROVE  Total(Costs(b)) = Total(Pairs(b)) + Fees(b)
<1>. DEFINE all == Spends(b)
            k == Len(all)
            fees == [i \in 1 .. k |-> FLAT_FEE]
            c == Costs(b)
            p == Pairs(b)
<1>1. all \in Seq(TxType) /\ k \in Nat /\ DOMAIN all = 1 .. k
  BY SpendsType
<1>2. \A i \in 1 .. k : all[i].spend \in Spend
  <2>1. \A i \in 1 .. k : all[i] \in TxType
    BY <1>1, ElementOfSeq
  <2>. QED
    BY <2>1 DEF TxType
<1>3. FLAT_FEE \in Int
  BY LedgerAssumption
<1>4. Len(fees) = k /\ \A i \in 1 .. k : fees[i] = FLAT_FEE
  BY <1>1, <1>3
<1>5. Total(fees) = FLAT_FEE * k
  BY <1>1, <1>3, TotalEqual
<1>6. /\ c = [i \in 1 .. k |-> Cost(all[i].spend)]
      /\ p = [i \in 1 .. k |-> OutValue[all[i].spend][1] + OutValue[all[i].spend][2]]
  BY <1>1 DEF Costs, Pairs
<1>7. ASSUME NEW i \in 1 .. k
      PROVE  /\ c[i] = p[i] + fees[i] /\ c[i] \in Int /\ p[i] \in Int /\ fees[i] \in Int
  <2>1. c[i] = Cost(all[i].spend)
        /\ p[i] = OutValue[all[i].spend][1] + OutValue[all[i].spend][2]
    BY <1>6
  <2>2. /\ OutValue[all[i].spend][1] \in Nat /\ OutValue[all[i].spend][2] \in Nat
        /\ Cost(all[i].spend) \in Nat
    BY <1>2, CostType
  <2>. QED
    BY <1>3, <1>4, <2>1, <2>2 DEF Cost
<1>8. Len(c) = k /\ Len(p) = k
  <2>1. DOMAIN c = 1 .. k /\ DOMAIN p = 1 .. k /\ c \in Seq(Int) /\ p \in Seq(Int)
    <3>1. c \in [1 .. k -> Int] /\ p \in [1 .. k -> Int]
      BY <1>6, <1>7
    <3>. QED
      BY <1>1, <3>1
  <2>. QED
    BY <1>1, <2>1
<1>. HIDE DEF c, p, fees, k
<1>9. Total(c) = Total(p) + Total(fees)
  <2>1. k \in Nat /\ Len(c) = k /\ Len(p) = k /\ Len(fees) = k
    BY <1>1, <1>4, <1>8
  <2>2. \A i \in 1 .. k : p[i] \in Int /\ fees[i] \in Int /\ c[i] = p[i] + fees[i]
    BY <1>7
  <2>. QED
    BY <2>1, <2>2, TotalAdds
<1>10. Fees(b) = FLAT_FEE * k
  BY DEF Fees, k
<1>. QED
  BY <1>5, <1>9, <1>10 DEF c, p

\* Every leaf counts when none is spent.
LEMMA AllWorth ==
  ASSUME NEW L \in Seq(LeafType), NEW n, Len(L) = n
  PROVE  /\ Len(Worths(L, {})) = n
         /\ \A i \in 1 .. n : Worths(L, {})[i] = L[i].value /\ Worths(L, {})[i] \in Int
BY WorthsType

\* The outputs of the spends are worth the outputs the circuit balanced.
LEMMA OutsWorth ==
  ASSUME NEW s \in StateType, NEW b \in BlockType, ValidBlock(s, b)
  PROVE  UnspentOf(OutLeaves(b), {}) = Total(Pairs(b)) /\ ValuesOk(OutLeaves(b))
<1>. DEFINE all == Spends(b)
            k == Len(all)
            L == OutLeaves(b)
            v == Worths(L, {})
            p == Pairs(b)
            o(i, j) == OutValue[all[i].spend][j]
<1>1. all \in Seq(TxType) /\ k \in Nat /\ DOMAIN all = 1 .. k /\ 2 * k \in Nat
  BY SpendsType
<1>2. \A i \in 1 .. k : all[i].spend \in Spend /\ o(i, 1) \in Nat /\ o(i, 2) \in Nat
  <2>1. \A i \in 1 .. k : all[i] \in TxType
    BY <1>1, ElementOfSeq
  <2>2. \A i \in 1 .. k : all[i].spend \in Spend
    BY <2>1 DEF TxType
  <2>. QED
    BY <2>2, CostType
<1>3. /\ L \in Seq(LeafType) /\ Len(L) = 2 * k /\ DOMAIN L = 1 .. 2 * k
      /\ \A i \in 1 .. 2 * k :
           LET h == (i + 1) \div 2
               j == IF i % 2 = 1 THEN 1 ELSE 2
           IN L[i].note = Out(all[h].spend, j) /\ L[i].value = o(h, j)
  <2>1. L \in Seq(LeafType)
    BY LeavesType
  <2>2. L = [i \in 1 .. 2 * k |->
               LET t == all[(i + 1) \div 2].spend
                   j == IF i % 2 = 1 THEN 1 ELSE 2
               IN Leaf(Out(t, j), OutValue[t][j])]
    BY DEF OutLeaves
  <2>3. Len(L) = 2 * k /\ DOMAIN L = 1 .. 2 * k
    BY <1>1, <2>1, <2>2
  <2>. QED
    BY <2>1, <2>2, <2>3 DEF Leaf
<1>4. ValuesOk(L)
  <2>. SUFFICES ASSUME NEW i \in 1 .. 2 * k PROVE L[i].value = NoteValue(L[i].note)
    BY <1>3 DEF ValuesOk
  <2>. DEFINE h == (i + 1) \div 2
              j == IF i % 2 = 1 THEN 1 ELSE 2
  <2>1. L[i].note = Out(all[h].spend, j) /\ L[i].value = o(h, j)
    BY <1>3
  <2>. HIDE DEF h, j, L, all
  <2>2. NoteValue(Out(all[h].spend, j)) = o(h, j)
    BY DEF NoteValue, Out
  <2>. QED
    BY <2>1, <2>2
<1>5. /\ Len(v) = 2 * k /\ \A i \in 1 .. 2 * k : v[i] = L[i].value /\ v[i] \in Int
  <2>. HIDE DEF L
  <2>. QED
    BY <1>3, AllWorth
<1>6. Len(p) = k /\ \A i \in 1 .. k : p[i] = o(i, 1) + o(i, 2)
  <2>1. p = [i \in 1 .. k |-> o(i, 1) + o(i, 2)]
    BY <1>1 DEF Pairs
  <2>2. p \in [1 .. k -> Int]
    BY <1>2, <2>1
  <2>3. p \in Seq(Int)
    BY <1>1, <2>2
  <2>. QED
    BY <1>1, <2>1, <2>2, <2>3
<1>7. ASSUME NEW i \in 0 .. k - 1
      PROVE  /\ 2 * i \in 0 .. 2 * k - 1 /\ 2 * i + 1 \in 0 .. 2 * k - 1
             /\ 2 * (i + 1) = 2 * i + 1 + 1
             /\ v[2 * i + 1] = o(i + 1, 1) /\ v[2 * i + 1 + 1] = o(i + 1, 2)
  <2>1. /\ 2 * i \in 0 .. 2 * k - 1 /\ 2 * i + 1 \in 0 .. 2 * k - 1
        /\ 2 * (i + 1) = 2 * i + 1 + 1
        /\ 2 * i + 1 \in 1 .. 2 * k /\ 2 * i + 1 + 1 \in 1 .. 2 * k
    BY <1>1
  <2>2. /\ (2 * i + 1 + 1) \div 2 = i + 1 /\ (2 * i + 1) % 2 = 1
        /\ (2 * i + 1 + 1 + 1) \div 2 = i + 1 /\ (2 * i + 1 + 1) % 2 = 0
    BY <1>1
  <2>3. L[2 * i + 1].value = o(i + 1, 1)
    BY <1>3, <2>1, <2>2
  <2>4. L[2 * i + 1 + 1].value = o(i + 1, 2)
    BY <1>3, <2>1, <2>2
  <2>. QED
    BY <1>5, <2>1, <2>3, <2>4
<1>. HIDE DEF all, L, v, p, o
<1>8. /\ Totals(v)[0] = 0 /\ Total(v) = Totals(v)[2 * k]
      /\ \A i \in 0 .. 2 * k - 1 : Totals(v)[i + 1] = Totals(v)[i] + v[i + 1]
  BY <1>1, <1>5, TotalsNext
<1>9. /\ Totals(p)[0] = 0 /\ Total(p) = Totals(p)[k]
      /\ \A i \in 0 .. k - 1 : Totals(p)[i + 1] = Totals(p)[i] + p[i + 1]
  BY <1>1, <1>6, TotalsNext
<1>10. \A i \in 0 .. k : Totals(p)[i] \in Int
  BY <1>1, <1>2, <1>6, TotalsType
<1>. DEFINE G == {i \in 0 .. k : Totals(v)[2 * i] = Totals(p)[i]}
<1>11. 0 \in G
  <2>1. 2 * 0 = 0 /\ 0 \in 0 .. k
    BY <1>1
  <2>. QED
    BY <1>8, <1>9, <2>1
<1>12. ASSUME NEW i \in 0 .. k - 1, i \in G PROVE i + 1 \in G
  <2>1. i + 1 \in 1 .. k /\ i + 1 \in 0 .. k /\ i \in 0 .. k
    BY <1>1
  <2>2. Totals(v)[2 * i + 1] = Totals(v)[2 * i] + o(i + 1, 1)
    BY <1>7, <1>8
  <2>3. Totals(v)[2 * i + 1 + 1] = Totals(v)[2 * i + 1] + o(i + 1, 2)
    BY <1>7, <1>8
  <2>4. Totals(p)[i + 1] = Totals(p)[i] + (o(i + 1, 1) + o(i + 1, 2))
    BY <1>6, <1>9, <2>1
  <2>5. Totals(v)[2 * i] = Totals(p)[i]
    BY <1>12
  <2>6. Totals(p)[i] \in Int /\ o(i + 1, 1) \in Int /\ o(i + 1, 2) \in Int
    BY <1>2, <1>10, <2>1
  <2>7. \A x, y, z \in Int : (x + y) + z = x + (y + z)
    OBVIOUS
  <2>8. Totals(v)[2 * i + 1 + 1] = Totals(p)[i + 1]
    BY <2>2, <2>3, <2>4, <2>5, <2>6, <2>7
  <2>9. Totals(v)[2 * (i + 1)] = Totals(p)[i + 1]
    BY <1>7, <2>8
  <2>. QED
    BY <2>1, <2>9
<1>13. k \in G
  <2>. HIDE DEF G
  <2>1. \A i \in 0 .. k : i \in G
    BY <1>1, <1>11, <1>12, UpTo
  <2>. QED
    BY <1>1, <2>1
<1>14. Total(v) = Total(p)
  BY <1>8, <1>9, <1>13
<1>. QED
  BY <1>4, <1>14 DEF UnspentOf, v, p, L

\* The minted notes are worth the deposits less their fees.
LEMMA MintsWorth ==
  ASSUME NEW s \in StateType, NEW b \in BlockType, ValidBlock(s, b)
  PROVE  /\ UnspentOf(MintLeaves(b), {}) + PegInFees(b) = PegInInflow(b)
         /\ ValuesOk(MintLeaves(b))
<1>. DEFINE d == b.pegins
            n == Len(d)
            L == MintLeaves(b)
            v == Worths(L, {})
            f == [i \in 1 .. n |-> PegFee(DepositAmount[d[i]])]
            a == [i \in 1 .. n |-> DepositAmount[d[i]]]
<1>1. d \in Seq(Deposit) /\ n \in Nat /\ DOMAIN d = 1 .. n
  BY DEF BlockType
<1>2. \A i \in 1 .. n : d[i] \in Deposit
  BY <1>1, ElementOfSeq
<1>3. \A i \in 1 .. n : DepositAmount[d[i]] \in Int /\ PegFee(DepositAmount[d[i]]) \in Int
  <2>1. \A i \in 1 .. n : DepositAmount[d[i]] \in Nat /\ PegFee(DepositAmount[d[i]]) \in Nat
    BY <1>2, AmountType
  <2>. HIDE DEF d
  <2>. QED
    BY <2>1
<1>4. /\ L \in Seq(LeafType) /\ Len(L) = n /\ DOMAIN L = 1 .. n
      /\ \A i \in 1 .. n : /\ L[i].note = Mint(d[i])
                           /\ L[i].value = DepositAmount[d[i]] - PegFee(DepositAmount[d[i]])
                           /\ L[i].value = NoteValue(L[i].note)
  <2>1. L \in Seq(LeafType)
    BY LeavesType
  <2>2. L = [i \in 1 .. n |-> Leaf(Mint(d[i]), NoteValue(Mint(d[i])))]
    BY <1>1 DEF MintLeaves
  <2>3. DOMAIN L = 1 .. n
    BY <2>2
  <2>4. Len(L) = n
    BY <1>1, <2>1, <2>3
  <2>5. \A i \in 1 .. n : L[i] = Leaf(Mint(d[i]), NoteValue(Mint(d[i])))
    BY <2>2
  <2>6. \A i \in 1 .. n : L[i].note = Mint(d[i]) /\ L[i].value = NoteValue(Mint(d[i]))
    <3>1. \A x, y : Leaf(x, y).note = x /\ Leaf(x, y).value = y
      BY DEF Leaf
    <3>. HIDE DEF L
    <3>. QED
      BY <2>5, <3>1
  <2>7. \A x : NoteValue(Mint(x)) = DepositAmount[x] - PegFee(DepositAmount[x])
    BY DEF NoteValue, Mint
  <2>. QED
    BY <2>1, <2>3, <2>4, <2>6, <2>7
<1>5. Len(v) = n /\ \A i \in 1 .. n : v[i] = L[i].value /\ v[i] \in Int
  BY <1>4, AllWorth
<1>6. ValuesOk(L)
  BY <1>4 DEF ValuesOk
<1>7. Len(f) = n /\ Len(a) = n
  <2>1. f \in [1 .. n -> Int] /\ a \in [1 .. n -> Int]
    BY <1>3
  <2>2. f \in Seq(Int) /\ a \in Seq(Int) /\ DOMAIN f = 1 .. n /\ DOMAIN a = 1 .. n
    BY <1>1, <2>1
  <2>. QED
    BY <1>1, <2>2
<1>8. \A i \in 1 .. n : f[i] = PegFee(DepositAmount[d[i]]) /\ a[i] = DepositAmount[d[i]]
  OBVIOUS
<1>9. PegInFees(b) = Total(f) /\ PegInInflow(b) = Total(a)
  BY <1>1 DEF PegInFees, PegInInflow
<1>. HIDE DEF f, a, v, L, d, n
<1>10. \A i \in 1 .. n : v[i] \in Int /\ f[i] \in Int /\ a[i] = v[i] + f[i]
  <2>. SUFFICES ASSUME NEW i \in 1 .. n
                PROVE  v[i] \in Int /\ f[i] \in Int /\ a[i] = v[i] + f[i]
    OBVIOUS
  <2>1. v[i] = a[i] - f[i] /\ a[i] \in Int /\ f[i] \in Int
    BY <1>3, <1>4, <1>5, <1>8
  <2>. QED
    BY <2>1
<1>11. Total(a) = Total(v) + Total(f)
  BY <1>1, <1>5, <1>7, <1>10, TotalAdds
<1>. QED
  BY <1>6, <1>9, <1>11 DEF UnspentOf, v, L

\* The coinbase, and its value when it is an allocation.
LEMMA CoinWorth ==
  ASSUME NEW s \in StateType, NEW b \in BlockType, ValidBlock(s, b)
  PROVE  /\ UnspentOf(<<CoinLeaf(s, b)>>, {}) = b.coinbase_amount
         /\ ValuesOk(<<CoinLeaf(s, b)>>)
<1>. DEFINE x == CoinLeaf(s, b)
            L == <<x>>
            v == Worths(L, {})
<1>1. x \in LeafType /\ L \in Seq(LeafType) /\ Len(L) = 1 /\ L[1] = x /\ DOMAIN L = {1}
  BY LeavesType
<1>2. x.value = b.coinbase_amount
      /\ x.note = IF b.coinbase_is_reward THEN Coinbase(s.height) ELSE Alloc(s.height + 1)
  BY DEF CoinLeaf, Leaf
<1>. HIDE DEF x
<1>3. Len(v) = 1 /\ v[1] = x.value /\ v[1] \in Int
  <2>. HIDE DEF L
  <2>1. Len(v) = 1 /\ \A i \in 1 .. 1 : v[i] = L[i].value /\ v[i] \in Int
    BY <1>1, AllWorth
  <2>. QED
    BY <1>1, <2>1
<1>4. Total(v) = v[1]
  <2>. HIDE DEF v
  <2>1. /\ Totals(v)[0] = 0 /\ Total(v) = Totals(v)[1]
        /\ \A i \in 1 .. 1 : Totals(v)[i] = Totals(v)[i - 1] + v[i]
    <3>. DEFINE n == 1
    <3>1. Len(v) = n /\ n \in Nat
      BY <1>3
    <3>. HIDE DEF n
    <3>2. /\ Totals(v)[0] = 0 /\ Total(v) = Totals(v)[n]
          /\ \A i \in 1 .. n : Totals(v)[i] = Totals(v)[i - 1] + v[i]
      BY <3>1, TotalsNext
    <3>. QED
      BY <3>2 DEF n
  <2>2. Totals(v)[1] = Totals(v)[0] + v[1]
    BY <2>1
  <2>. QED
    BY <1>3, <2>1, <2>2
<1>5. ASSUME x.note \in SpendableNotes PROVE x.value = NoteValue(x.note)
  <2>1. CASE b.coinbase_is_reward
    <3>1. Coinbase(s.height) \notin SpendableNotes
      BY NotesDiffer DEF SpendableNotes
    <3>. QED
      BY <1>2, <1>5, <2>1, <3>1
  <2>2. CASE ~ b.coinbase_is_reward
    <3>1. b.coinbase_amount = GenesisAlloc[s.height + 1]
      BY <2>2 DEF ValidBlock, ValidGenesis
    <3>2. \A h : NoteValue(Alloc(h)) = GenesisAlloc[h]
      BY DEF NoteValue, Alloc
    <3>. QED
      BY <1>2, <2>2, <3>1, <3>2
  <2>. QED
    BY <2>1, <2>2
<1>. QED
  BY <1>1, <1>2, <1>3, <1>4, <1>5 DEF UnspentOf, ValuesOk, x

LEMMA ValuesConcat ==
  ASSUME NEW s \in Seq(LeafType), NEW t \in Seq(LeafType), ValuesOk(s), ValuesOk(t)
  PROVE  ValuesOk(s \o t)
<1>. DEFINE u == s \o t
            n == Len(s)
            m == Len(t)
<1>1. /\ n \in Nat /\ m \in Nat /\ DOMAIN s = 1 .. n /\ DOMAIN t = 1 .. m
      /\ u \in Seq(LeafType) /\ Len(u) = n + m
      /\ \A i \in 1 .. n + m : u[i] = IF i <= n THEN s[i] ELSE t[i - n]
  BY ConcatProperties
<1>. HIDE DEF u
<1>2. DOMAIN u = 1 .. n + m
  BY <1>1
<1>3. ASSUME NEW i \in 1 .. n + m
      PROVE  (i \in DOMAIN s /\ u[i] = s[i]) \/ (i - n \in DOMAIN t /\ u[i] = t[i - n])
  BY <1>1
<1>4. ValuesOk(u)
  BY <1>2, <1>3 DEF ValuesOk
<1>. QED
  BY <1>4 DEF u

\* The leaves of a block are worth the outputs, the deposits less their fees, and the
\* coinbase, whatever the tree has spent.
LEMMA LeavesWorth ==
  ASSUME NEW s \in StateType, NEW b \in BlockType, ValidBlock(s, b), NotesOk(s),
         NEW M, M \subseteq Notes(s.tree)
  PROVE  /\ UnspentOf(NewLeaves(s, b), M)
              = Total(Pairs(b)) + (PegInInflow(b) - PegInFees(b)) + b.coinbase_amount
         /\ ValuesOk(NewLeaves(s, b))
         /\ Total(Pairs(b)) \in Int /\ PegInInflow(b) - PegInFees(b) \in Int
         /\ PegInFees(b) \in Int /\ PegInInflow(b) \in Int
         /\ b.coinbase_amount \in Int
<1>. DEFINE outs == OutLeaves(b)
            mints == MintLeaves(b)
            coin == <<CoinLeaf(s, b)>>
            both == outs \o mints
            L == NewLeaves(s, b)
<1>1. outs \in Seq(LeafType) /\ mints \in Seq(LeafType) /\ coin \in Seq(LeafType)
  BY LeavesType
<1>2. /\ UnspentOf(outs, {}) = Total(Pairs(b)) /\ ValuesOk(outs)
      /\ UnspentOf(mints, {}) + PegInFees(b) = PegInInflow(b) /\ ValuesOk(mints)
      /\ UnspentOf(coin, {}) = b.coinbase_amount /\ ValuesOk(coin)
  BY OutsWorth, MintsWorth, CoinWorth
<1>3. L = both \o coin
  BY DEF NewLeaves
<1>. HIDE DEF outs, mints, coin
<1>4. both \in Seq(LeafType)
  BY <1>1, ConcatProperties
<1>5. UnspentOf(both, {}) = UnspentOf(outs, {}) + UnspentOf(mints, {}) /\ ValuesOk(both)
  BY <1>1, <1>2, UnspentConcat, ValuesConcat
<1>. HIDE DEF both
<1>6. UnspentOf(both \o coin, {}) = UnspentOf(both, {}) + UnspentOf(coin, {})
      /\ ValuesOk(both \o coin)
  BY <1>1, <1>2, <1>4, <1>5, UnspentConcat, ValuesConcat
<1>7. UnspentOf(L, M) = UnspentOf(L, {})
  <2>1. \A i \in DOMAIN L : L[i].note \notin M
    <3>1. \A i \in DOMAIN L : L[i].note = LeafNote(s, b, i)
      BY NewLeavesAre
    <3>2. \A i \in DOMAIN L : LeafNote(s, b, i) \notin Notes(s.tree)
      BY LeavesFresh
    <3>. QED
      BY <3>1, <3>2
  <2>. HIDE DEF L
  <2>2. Worths(L, M) = Worths(L, {})
    BY <2>1 DEF Worths
  <2>. QED
    BY <2>2 DEF UnspentOf
<1>8. /\ UnspentOf(outs, {}) \in Int /\ UnspentOf(mints, {}) \in Int
      /\ UnspentOf(coin, {}) \in Int
  BY <1>1, WorthsType
<1>9. PegInFees(b) \in Int
  <2>1. \A i \in DOMAIN b.pegins : PegFee(DepositAmount[b.pegins[i]]) \in Nat
    BY AmountType, ElementOfSeq DEF BlockType
  <2>2. b.pegins \in Seq(Deposit)
    BY DEF BlockType
  <2>3. [i \in DOMAIN b.pegins |-> PegFee(DepositAmount[b.pegins[i]])] \in Seq(Nat)
    BY <2>1, <2>2
  <2>4. PegInFees(b) \in Nat
    BY <2>3, TotalType DEF PegInFees
  <2>. QED
    BY <2>4
<1>10. PegInInflow(b) \in Int /\ PegInInflow(b) - PegInFees(b) = UnspentOf(mints, {})
  BY <1>2, <1>8, <1>9
<1>. HIDE DEF L
<1>11. UnspentOf(L, M) = UnspentOf(outs, {}) + UnspentOf(mints, {}) + UnspentOf(coin, {})
  BY <1>3, <1>5, <1>6, <1>7
<1>12. ValuesOk(L)
  BY <1>3, <1>6
<1>. QED
  BY <1>2, <1>8, <1>9, <1>10, <1>11, <1>12 DEF L

--------------------------------------------------------------------------------
(* Withdrawals *)

\* The burn notes of recorded withdrawals, and what they pay out.
BurnsOf(w) == Total([i \in DOMAIN w |-> w[i].amount + PegFee(w[i].amount)])
PaidOf(w) == Total([i \in DOMAIN w |-> w[i].amount])

LEMMA WithdrawalsConcat ==
  ASSUME NEW w \in Seq(WithdrawalType), NEW v \in Seq(WithdrawalType)
  PROVE  /\ BurnsOf(w \o v) = BurnsOf(w) + BurnsOf(v)
         /\ PaidOf(w \o v) = PaidOf(w) + PaidOf(v)
         /\ BurnsOf(w) \in Int /\ PaidOf(w) \in Int
<1>. DEFINE f == [x \in WithdrawalType |-> x.amount + PegFee(x.amount)]
            g == [x \in WithdrawalType |-> x.amount]
<1>1. f \in [WithdrawalType -> Int] /\ g \in [WithdrawalType -> Int]
  <2>1. \A x \in WithdrawalType : x.amount \in Nat
    BY DEF WithdrawalType
  <2>2. \A x \in WithdrawalType : PegFee(x.amount) \in Nat
    BY <2>1, PegFeeType
  <2>. QED
    BY <2>1, <2>2
<1>2. ASSUME NEW x \in Seq(WithdrawalType)
      PROVE  BurnsOf(x) = SumOver(f, x) /\ PaidOf(x) = SumOver(g, x)
  <2>1. /\ [i \in DOMAIN x |-> x[i].amount + PegFee(x[i].amount)] = [i \in DOMAIN x |-> f[x[i]]]
        /\ [i \in DOMAIN x |-> x[i].amount] = [i \in DOMAIN x |-> g[x[i]]]
    BY ElementOfSeq
  <2>. QED
    BY <2>1 DEF BurnsOf, PaidOf, SumOver
<1>3. w \o v \in Seq(WithdrawalType)
  BY ConcatProperties
<1>. HIDE DEF f, g
<1>4. /\ SumOver(f, w \o v) = SumOver(f, w) + SumOver(f, v) /\ SumOver(f, w) \in Int
      /\ SumOver(g, w \o v) = SumOver(g, w) + SumOver(g, v) /\ SumOver(g, w) \in Int
  BY <1>1, TotalMap
<1>. QED
  BY <1>2, <1>3, <1>4

LEMMA BurnsWorth ==
  ASSUME NEW s \in StateType, NEW b \in BlockType
  PROVE  BurnsOf(Burns(s, b)) = BurnTotal(b) /\ PaidOf(Burns(s, b)) = PegOutOutflow(b)
<1>. DEFINE w == Burns(s, b)
<1>1. DOMAIN w = DOMAIN b.pegouts
      /\ \A i \in DOMAIN b.pegouts : w[i].amount = Withdraw[b.pegouts[i].spend]
  BY DEF Burns
<1>. HIDE DEF w
<1>2. [i \in DOMAIN w |-> w[i].amount + PegFee(w[i].amount)]
        = [i \in DOMAIN b.pegouts |-> BurnValue(b.pegouts[i].spend)]
  BY <1>1 DEF BurnValue
<1>3. [i \in DOMAIN w |-> w[i].amount]
        = [i \in DOMAIN b.pegouts |-> Withdraw[b.pegouts[i].spend]]
  BY <1>1
<1>. QED
  BY <1>2, <1>3 DEF BurnsOf, PaidOf, BurnTotal, PegOutOutflow, w

--------------------------------------------------------------------------------
(* Deposits *)

\* What the deposits of the minted notes brought in.
DepositedOf(tree) == Total([i \in DOMAIN tree |-> Brought(tree[i])])

LEMMA BroughtType == \A x \in LeafType : Brought(x) \in Int
<1>. SUFFICES ASSUME NEW x \in LeafType, x.note[1] = "mint"
              PROVE  DepositAmount[x.note[2]] \in Int
  BY DEF Brought
<1>1. x.note \in SpendableNotes \cup ({"coinbase"} \X Nat)
  BY DEF LeafType
<1>2. x.note[2] \in Deposit
  <2>1. x.note \notin {"coinbase"} \X Nat
    OBVIOUS
  <2>2. \A i : Alloc(i)[1] # "mint"
    BY DEF Alloc
  <2>3. \A t, j : Out(t, j)[1] # "mint"
    BY DEF Out
  <2>4. \A d : Mint(d)[2] = d
    BY DEF Mint
  <2>. QED
    BY <1>1, <2>1, <2>2, <2>3, <2>4 DEF SpendableNotes
<1>. QED
  BY <1>2, AmountType

LEMMA DepositedConcat ==
  ASSUME NEW s \in Seq(LeafType), NEW t \in Seq(LeafType)
  PROVE  /\ DepositedOf(s \o t) = DepositedOf(s) + DepositedOf(t)
         /\ DepositedOf(s) \in Int
<1>. DEFINE f == [x \in LeafType |-> Brought(x)]
            val(x) == [i \in DOMAIN x |-> Brought(x[i])]
<1>1. f \in [LeafType -> Int]
  BY BroughtType
<1>2. ASSUME NEW x \in Seq(LeafType) PROVE DepositedOf(x) = SumOver(f, x)
  <2>1. val(x) = [i \in DOMAIN x |-> f[x[i]]]
    BY ElementOfSeq
  <2>. QED
    BY <2>1 DEF DepositedOf, SumOver
<1>3. s \o t \in Seq(LeafType)
  BY ConcatProperties
<1>. HIDE DEF f
<1>4. SumOver(f, s \o t) = SumOver(f, s) + SumOver(f, t) /\ SumOver(f, s) \in Int
  BY <1>1, TotalMap
<1>. QED
  BY <1>2, <1>3, <1>4

\* The leaves of a block bring in its peg-ins.
LEMMA LeavesBring ==
  ASSUME NEW s \in StateType, NEW b \in BlockType, ValidBlock(s, b)
  PROVE  DepositedOf(NewLeaves(s, b)) = PegInInflow(b)
<1>. DEFINE outs == OutLeaves(b)
            mints == MintLeaves(b)
            coin == <<CoinLeaf(s, b)>>
            both == outs \o mints
            v(x) == [i \in DOMAIN x |-> Brought(x[i])]
<1>1. /\ outs \in Seq(LeafType) /\ mints \in Seq(LeafType) /\ coin \in Seq(LeafType)
      /\ both \in Seq(LeafType)
  BY LeavesType, ConcatProperties
<1>2. DepositedOf(mints) = PegInInflow(b)
  <2>1. DOMAIN mints = DOMAIN b.pegins
        /\ \A i \in DOMAIN b.pegins : mints[i].note = Mint(b.pegins[i])
    BY DEF MintLeaves, Leaf
  <2>2. \A d : Mint(d)[1] = "mint" /\ Mint(d)[2] = d
    BY DEF Mint
  <2>3. \A i \in DOMAIN b.pegins : Brought(mints[i]) = DepositAmount[b.pegins[i]]
    BY <2>1, <2>2 DEF Brought
  <2>. HIDE DEF mints
  <2>4. v(mints) = [i \in DOMAIN b.pegins |-> DepositAmount[b.pegins[i]]]
    BY <2>1, <2>3
  <2>. QED
    BY <2>4 DEF DepositedOf, PegInInflow
<1>3. ASSUME NEW L \in Seq(LeafType), \A i \in DOMAIN L : L[i].note[1] # "mint"
      PROVE  DepositedOf(L) = 0
  <2>1. Len(L) \in Nat /\ DOMAIN L = 1 .. Len(L)
    OBVIOUS
  <2>2. \A i \in 1 .. Len(L) : Brought(L[i]) = 0
    BY <1>3, <2>1 DEF Brought
  <2>3. v(L) \in Seq(Int) /\ Len(v(L)) = Len(L) /\ \A i \in 1 .. Len(L) : v(L)[i] = 0
    BY <2>1, <2>2
  <2>4. Total(v(L)) = 0
    BY <2>1, <2>3, TotalZero
  <2>. QED
    BY <2>4 DEF DepositedOf
<1>4. DepositedOf(outs) = 0
  <2>1. \A i \in DOMAIN outs : outs[i].note[1] = "out"
    BY DEF OutLeaves, Leaf, Out
  <2>2. \A i \in DOMAIN outs : outs[i].note[1] # "mint"
    BY <2>1
  <2>. QED
    BY <1>1, <1>3, <2>2
<1>5. DepositedOf(coin) = 0
  <2>1. DOMAIN coin = {1} /\ coin[1].note[1] # "mint"
    BY DEF CoinLeaf, Leaf, Coinbase, Alloc
  <2>. QED
    BY <1>1, <1>3, <2>1
<1>6. NewLeaves(s, b) = both \o coin
  BY DEF NewLeaves
<1>. HIDE DEF outs, mints, coin
<1>7. DepositedOf(both) = DepositedOf(outs) + DepositedOf(mints) /\ DepositedOf(mints) \in Int
  BY <1>1, DepositedConcat
<1>. HIDE DEF both
<1>8. DepositedOf(both \o coin) = DepositedOf(both) + DepositedOf(coin)
  BY <1>1, DepositedConcat
<1>. QED
  BY <1>2, <1>4, <1>5, <1>6, <1>7, <1>8

--------------------------------------------------------------------------------
(* Issuance *)

\* Allocated by the genesis blocks below height h.
IssuedAt(h) == Total(SubSeq(GenesisAlloc, 1, Min({h, Len(GenesisAlloc)})))

LEMMA IssuedNext ==
  ASSUME NEW h \in Nat
  PROVE  /\ IssuedAt(h) \in Int
         /\ h < Len(GenesisAlloc) => IssuedAt(h + 1) = IssuedAt(h) + GenesisAlloc[h + 1]
         /\ h >= Len(GenesisAlloc) => IssuedAt(h + 1) = IssuedAt(h)
<1>. DEFINE g == GenesisAlloc
            l == Len(g)
            cut(k) == SubSeq(g, 1, k)
<1>1. g \in Seq(Int) /\ l \in Nat /\ \A i \in 1 .. l : g[i] \in Int
  <2>1. g \in Seq(Nat)
    BY LedgerAssumption
  <2>2. l \in Nat /\ \A i \in 1 .. l : g[i] \in Nat
    BY <2>1, ElementOfSeq
  <2>. HIDE DEF g
  <2>. QED
    BY <2>1, <2>2
<1>2. ASSUME NEW k \in 0 .. l
      PROVE  cut(k) \in Seq(Int) /\ Len(cut(k)) = k /\ \A i \in 1 .. k : cut(k)[i] = g[i]
  BY <1>1, SubSeqProperties
<1>3. Min({h, l}) = IF h <= l THEN h ELSE l
  BY <1>1, MinPair
<1>4. Min({h + 1, l}) = IF h + 1 <= l THEN h + 1 ELSE l
  <2>1. h + 1 \in Int
    OBVIOUS
  <2>. QED
    BY <1>1, <2>1, MinPair
<1>. DEFINE k == IF h <= l THEN h ELSE l
<1>5. k \in 0 .. l
  BY <1>1
<1>6. IssuedAt(h) = Total(cut(k))
  BY <1>3 DEF IssuedAt
<1>. HIDE DEF g, cut
<1>7. Total(cut(k)) \in Int
  <2>. DEFINE c == cut(k)
  <2>1. Len(c) \in Nat /\ \A i \in 1 .. Len(c) : c[i] \in Int
    BY <1>1, <1>2, <1>5
  <2>. HIDE DEF c
  <2>2. Totals(c)[Len(c)] \in Int
    BY <2>1, TotalsType
  <2>. QED
    BY <2>2 DEF Total, c
<1>8. ASSUME h < l PROVE IssuedAt(h + 1) = IssuedAt(h) + g[h + 1]
  <2>1. /\ h \in 0 .. l /\ h + 1 \in 0 .. l /\ h + 1 \in 1 .. l /\ k = h
        /\ Min({h + 1, l}) = h + 1
    BY <1>1, <1>4, <1>8
  <2>2. IssuedAt(h + 1) = Total(cut(h + 1))
    BY <2>1 DEF IssuedAt, g, cut
  <2>. DEFINE a == cut(h)
              x == g[h + 1]
              e == cut(h + 1)
              c == <<x>>
  <2>3. /\ a \in Seq(Int) /\ Len(a) = h /\ x \in Int
        /\ e \in Seq(Int) /\ Len(e) = h + 1
        /\ \A i \in 1 .. h : a[i] = g[i]
        /\ \A i \in 1 .. h + 1 : e[i] = g[i]
    BY <1>1, <1>2, <2>1
  <2>. HIDE DEF a, x, e
  <2>4. c \in Seq(Int) /\ Len(c) = 1 /\ c[1] = x
    BY <2>3
  <2>. DEFINE o == 1
  <2>. HIDE DEF c, o
  <2>5. /\ a \o c \in Seq(Int) /\ Len(a \o c) = h + o
        /\ \A i \in 1 .. h + o : (a \o c)[i] = IF i <= h THEN a[i] ELSE c[i - h]
    <3>1. Len(c) = o
      BY <2>4 DEF o
    <3>. QED
      BY <2>3, <2>4, <3>1, IntConcat
  <2>6. ASSUME NEW i \in 1 .. h + 1 PROVE (a \o c)[i] = e[i]
    <3>0. i \in 1 .. h + o /\ (i <= h => i \in 1 .. h) /\ (i <= h \/ i = h + 1)
      BY DEF o
    <3>1. CASE i <= h
      <4>1. (a \o c)[i] = a[i]
        BY <2>5, <3>0, <3>1
      <4>. QED
        BY <2>3, <3>0, <3>1, <4>1
    <3>2. CASE i = h + 1
      <4>1. i - h = 1 /\ ~ (i <= h)
        BY <3>2
      <4>2. (a \o c)[i] = c[i - h]
        BY <2>5, <4>1 DEF o
      <4>3. (a \o c)[i] = x
        BY <2>4, <4>1, <4>2
      <4>. QED
        BY <2>3, <3>2, <4>3 DEF x
    <3>. QED
      BY <3>0, <3>1, <3>2
  <2>7. a \o c = e
    BY <2>3, <2>5, <2>6, SeqEqual DEF o
  <2>8. Total(e) = Total(a) + Total(c)
    BY <2>3, <2>4, <2>7, TotalConcat
  <2>9. Total(c) = x
    <3>1. Len(c) = o /\ o \in Nat
      BY <2>4 DEF o
    <3>2. /\ Totals(c)[0] = 0 /\ Total(c) = Totals(c)[o]
          /\ \A i \in 1 .. o : Totals(c)[i] = Totals(c)[i - 1] + c[i]
      BY <3>1, TotalsNext
    <3>3. Totals(c)[1] = Totals(c)[0] + c[1] /\ Total(c) = Totals(c)[1]
      BY <3>2 DEF o
    <3>. QED
      BY <2>3, <2>4, <3>2, <3>3
  <2>. QED
    BY <1>6, <2>1, <2>2, <2>8, <2>9 DEF a, x, e
<1>9. ASSUME h >= l PROVE IssuedAt(h + 1) = IssuedAt(h)
  <2>1. Min({h, l}) = Min({h + 1, l})
    BY <1>1, <1>3, <1>4, <1>9
  <2>. QED
    BY <2>1 DEF IssuedAt, g
<1>. QED
  BY <1>6, <1>7, <1>8, <1>9 DEF g

--------------------------------------------------------------------------------
(* Conservation *)

\* The shielded total is what the unspent notes are worth, less burn notes.
PoolOk(s) ==
  s.shielded_total = UnspentOf(s.tree, s.nullifiers) - BurnsOf(s.pending_withdrawals)

\* Pot and pool hold what came in and did not go out.
SupplyOk(s) ==
  s.pot + s.shielded_total =
    GENESIS_POT + IssuedAt(s.height) + DepositedOf(s.tree) - PaidOf(s.pending_withdrawals)

MoneyOk(s) == ValuesOk(s.tree) /\ PoolOk(s) /\ SupplyOk(s)

LEMMA MoneyNew == MoneyOk(NewState)
<1>. DEFINE s == NewState
<1>1. /\ s.tree = <<>> /\ s.nullifiers = {} /\ s.pending_withdrawals = <<>>
      /\ s.pot = GENESIS_POT /\ s.shielded_total = 0 /\ s.height = 0
  BY DEF NewState
<1>2. GENESIS_POT \in Nat /\ Len(GenesisAlloc) \in Nat /\ GenesisAlloc \in Seq(Nat)
  BY LedgerAssumption
<1>3. Total(<<>>) = 0
  BY TotalEmpty
<1>4. UnspentOf(<<>>, {}) = 0 /\ ValuesOk(<<>>)
  <2>1. Worths(<<>>, {}) = <<>>
    BY DEF Worths
  <2>. QED
    BY <1>3, <2>1 DEF UnspentOf, ValuesOk
<1>5. BurnsOf(<<>>) = 0 /\ PaidOf(<<>>) = 0
  <2>1. [i \in DOMAIN <<>> |-> <<>>[i].amount + PegFee(<<>>[i].amount)] = <<>>
        /\ [i \in DOMAIN <<>> |-> <<>>[i].amount] = <<>>
    OBVIOUS
  <2>. QED
    BY <1>3, <2>1 DEF BurnsOf, PaidOf
<1>6. DepositedOf(<<>>) = 0
  <2>1. [i \in DOMAIN <<>> |-> Brought(<<>>[i])] = <<>>
    OBVIOUS
  <2>. QED
    BY <1>3, <2>1 DEF DepositedOf
<1>7. IssuedAt(0) = 0
  <2>1. Min({0, Len(GenesisAlloc)}) = 0
    BY <1>2, MinPair
  <2>2. SubSeq(GenesisAlloc, 1, 0) = <<>>
    BY <1>2
  <2>. QED
    BY <1>3, <2>1, <2>2 DEF IssuedAt
<1>. HIDE DEF s
<1>8. PoolOk(s)
  BY <1>1, <1>4, <1>5 DEF PoolOk
<1>9. SupplyOk(s)
  BY <1>1, <1>2, <1>5, <1>6, <1>7 DEF SupplyOk
<1>. QED
  BY <1>1, <1>4, <1>8, <1>9 DEF MoneyOk, s

\* A block changes the note values, the withdrawals and the deposits by its parts.
LEMMA MoneyParts ==
  ASSUME NEW s \in StateType, NEW b \in BlockType, ValidBlock(s, b), NotesOk(s),
         ValuesOk(s.tree)
  PROVE  LET a == ApplyBlock(s, b)
         IN /\ ValuesOk(a.tree)
            /\ UnspentOf(a.tree, a.nullifiers)
                 = UnspentOf(s.tree, s.nullifiers) - Fees(b)
                     + (PegInInflow(b) - PegInFees(b)) + b.coinbase_amount
            /\ BurnsOf(a.pending_withdrawals) = BurnsOf(s.pending_withdrawals) + BurnTotal(b)
            /\ PaidOf(a.pending_withdrawals) = PaidOf(s.pending_withdrawals) + PegOutOutflow(b)
            /\ DepositedOf(a.tree) = DepositedOf(s.tree) + PegInInflow(b)
<1>. DEFINE a == ApplyBlock(s, b)
            L == NewLeaves(s, b)
            M == s.nullifiers \cup SpentBy(Spends(b))
            w == s.pending_withdrawals
            v == Burns(s, b)
<1>1. /\ a.tree = s.tree \o L /\ a.nullifiers = M /\ a.pending_withdrawals = w \o v
  BY DEF ApplyBlock, Burns
<1>2. s.tree \in Seq(LeafType) /\ w \in Seq(WithdrawalType)
  BY DEF StateType
<1>3. L \in Seq(LeafType)
  BY NewLeavesType
<1>4. v \in Seq(WithdrawalType)
  BY BurnsType
<1>5. M \subseteq Notes(s.tree)
  BY SpendsFresh DEF NotesOk
<1>6. BurnsOf(v) = BurnTotal(b) /\ PaidOf(v) = PegOutOutflow(b)
  BY BurnsWorth
<1>7. UnspentOf(s.tree, s.nullifiers) = UnspentOf(s.tree, M) + Total(Costs(b))
  BY SpendAll
<1>8. Total(Costs(b)) = Total(Pairs(b)) + Fees(b)
  BY CostsSplit
<1>. HIDE DEF a, L, M, w, v
<1>9. /\ UnspentOf(L, M)
           = Total(Pairs(b)) + (PegInInflow(b) - PegInFees(b)) + b.coinbase_amount
      /\ ValuesOk(L)
      /\ Total(Pairs(b)) \in Int /\ PegInInflow(b) - PegInFees(b) \in Int
      /\ b.coinbase_amount \in Int
  BY <1>5, LeavesWorth DEF L
<1>10. UnspentOf(s.tree \o L, M) = UnspentOf(s.tree, M) + UnspentOf(L, M)
       /\ UnspentOf(s.tree, M) \in Int
  BY <1>2, <1>3, UnspentConcat, WorthsType
<1>11. Fees(b) \in Int
  <2>1. FLAT_FEE \in Nat /\ Len(Spends(b)) \in Nat
    BY SpendsType, LedgerAssumption
  <2>. QED
    BY <2>1 DEF Fees
<1>12. ValuesOk(s.tree \o L)
  BY <1>2, <1>3, <1>9, ValuesConcat
<1>13. DepositedOf(s.tree \o L) = DepositedOf(s.tree) + DepositedOf(L)
  BY <1>2, <1>3, DepositedConcat
<1>14. DepositedOf(L) = PegInInflow(b)
  BY LeavesBring DEF L
<1>15. BurnsOf(w \o v) = BurnsOf(w) + BurnsOf(v) /\ PaidOf(w \o v) = PaidOf(w) + PaidOf(v)
  BY <1>2, <1>4, WithdrawalsConcat
<1>16. UnspentOf(a.tree, a.nullifiers)
         = UnspentOf(s.tree, s.nullifiers) - Fees(b)
             + (PegInInflow(b) - PegInFees(b)) + b.coinbase_amount
  <2>. DEFINE x == UnspentOf(s.tree, M)
              y == UnspentOf(s.tree, s.nullifiers)
              p == Total(Pairs(b))
              q == PegInInflow(b) - PegInFees(b)
              f == Fees(b)
              c == b.coinbase_amount
              z == UnspentOf(a.tree, a.nullifiers)
  <2>1. /\ x \in Int /\ p \in Int /\ q \in Int /\ f \in Int /\ c \in Int
        /\ y = x + (p + f) /\ z = x + (p + q + c)
    BY <1>1, <1>7, <1>8, <1>9, <1>10, <1>11
  <2>. HIDE DEF x, y, z, p, q, f, c
  <2>2. z = y - f + q + c
    BY <2>1
  <2>. QED
    BY <2>2 DEF y, z, q, f, c
<1>17. /\ ValuesOk(a.tree)
       /\ BurnsOf(a.pending_withdrawals) = BurnsOf(w) + BurnTotal(b)
       /\ PaidOf(a.pending_withdrawals) = PaidOf(w) + PegOutOutflow(b)
       /\ DepositedOf(a.tree) = DepositedOf(s.tree) + PegInInflow(b)
  BY <1>1, <1>6, <1>12, <1>13, <1>14, <1>15
<1>. QED
  BY <1>16, <1>17 DEF a, w

LEMMA MoneyApply ==
  ASSUME NEW s \in StateType, NEW b \in BlockType, ValidBlock(s, b), NotesOk(s), MoneyOk(s)
  PROVE  MoneyOk(ApplyBlock(s, b))
<1>. DEFINE a == ApplyBlock(s, b)
            u == UnspentOf(s.tree, s.nullifiers)
            w == BurnsOf(s.pending_withdrawals)
            p == PaidOf(s.pending_withdrawals)
            d == DepositedOf(s.tree)
            g == IssuedAt(s.height)
            fees == Fees(b)
            inflow == PegInInflow(b)
            infees == PegInFees(b)
            burn == BurnTotal(b)
            out == PegOutOutflow(b)
            c == b.coinbase_amount
            pot == s.pot
            pool == s.shielded_total
            l == Len(GenesisAlloc)
<1>1. ValuesOk(s.tree)
  BY DEF MoneyOk
<1>2. /\ ValuesOk(a.tree)
      /\ UnspentOf(a.tree, a.nullifiers) = u - fees + (inflow - infees) + c
      /\ BurnsOf(a.pending_withdrawals) = w + burn
      /\ PaidOf(a.pending_withdrawals) = p + out
      /\ DepositedOf(a.tree) = d + inflow
  BY <1>1, MoneyParts
<1>3. /\ pool = u - w /\ pot + pool = GENESIS_POT + g + d - p
  BY DEF MoneyOk, PoolOk, SupplyOk
<1>4. /\ s.tree \in Seq(LeafType) /\ s.pending_withdrawals \in Seq(WithdrawalType)
      /\ pot \in Int /\ pool \in Int /\ s.height \in Nat /\ c \in Int /\ l \in Nat
  <2>1. pot \in Nat /\ pool \in Nat /\ s.height \in Nat
    BY DEF StateType
  <2>2. GenesisAlloc \in Seq(Nat)
    BY LedgerAssumption
  <2>3. s.tree \in Seq(LeafType) /\ s.pending_withdrawals \in Seq(WithdrawalType)
    BY DEF StateType
  <2>4. c \in Int
    BY DEF BlockType
  <2>. QED
    BY <2>1, <2>2, <2>3, <2>4
<1>5. u \in Int /\ w \in Int /\ p \in Int /\ d \in Int /\ g \in Int
  BY <1>4, WorthsType, WithdrawalsConcat, DepositedConcat, IssuedNext
<1>6. fees \in Int /\ inflow \in Int /\ infees \in Int /\ burn \in Int /\ out \in Int
      /\ GENESIS_POT \in Int
  <2>1. fees \in Int
    <3>1. FLAT_FEE \in Nat /\ Len(Spends(b)) \in Nat
      BY SpendsType, LedgerAssumption
    <3>. QED
      BY <3>1 DEF Fees
  <2>2. inflow \in Int /\ infees \in Int
    <3>1. {} \subseteq Notes(s.tree)
      OBVIOUS
    <3>. QED
      BY <3>1, LeavesWorth
  <2>3. burn \in Int /\ out \in Int
    <3>1. Burns(s, b) \in Seq(WithdrawalType)
      BY BurnsType
    <3>. QED
      BY <3>1, WithdrawalsConcat, BurnsWorth
  <2>4. GENESIS_POT \in Int
    BY LedgerAssumption
  <2>. QED
    BY <2>1, <2>2, <2>3, <2>4
<1>7. a.height = s.height + 1
  BY DEF ApplyBlock
<1>8. CASE b.coinbase_is_reward
  <2>1. /\ s.height >= l /\ c = ExpectedCoinbase(s, b)
        /\ ShieldedNext(s, b) + PotNext(s, b) = pool + pot + inflow - out
    BY <1>8 DEF ValidBlock, ValidReward
  <2>2. ShieldedNext(s, b) = pool + ExpectedCoinbase(s, b) + (inflow - infees) - (fees + burn)
    BY DEF ShieldedNext
  <2>3. a.pot = PotNext(s, b) /\ a.shielded_total = ShieldedNext(s, b)
    BY <1>8 DEF ApplyBlock
  <2>4. IssuedAt(s.height + 1) = g
    BY <1>4, <2>1, IssuedNext
  <2>5. PotNext(s, b) \in Int /\ ShieldedNext(s, b) \in Int
    BY BalanceType
  <2>. HIDE DEF a, u, w, p, d, g, fees, inflow, infees, burn, out, c, pot, pool, l
  <2>6. a.shielded_total = (u - fees + (inflow - infees) + c) - (w + burn)
    BY <1>3, <1>4, <1>5, <1>6, <2>1, <2>2, <2>3
  <2>7. a.pot + a.shielded_total = GENESIS_POT + g + (d + inflow) - (p + out)
    BY <1>3, <1>4, <1>5, <1>6, <2>1, <2>3, <2>5
  <2>8. PoolOk(a)
    BY <1>2, <2>6 DEF PoolOk
  <2>9. SupplyOk(a)
    BY <1>2, <1>7, <2>4, <2>7 DEF SupplyOk
  <2>. QED
    BY <1>2, <2>8, <2>9 DEF MoneyOk, a
<1>9. CASE ~ b.coinbase_is_reward
  <2>1. /\ s.height < l /\ c = GenesisAlloc[s.height + 1]
        /\ Spends(b) = <<>> /\ b.pegins = <<>>
    BY <1>9 DEF ValidBlock, ValidGenesis
  <2>2. a.pot = pot /\ a.shielded_total = pool + c
    BY <1>9 DEF ApplyBlock
  <2>3. IssuedAt(s.height + 1) = g + c
    BY <1>4, <2>1, IssuedNext
  <2>4. b.pegouts = <<>>
    <3>1. b.txs \in Seq(TxType) /\ b.pegouts \in Seq(TxType)
      BY DEF BlockType
    <3>2. Len(b.txs \o b.pegouts) = Len(b.txs) + Len(b.pegouts)
      BY <3>1, ConcatProperties
    <3>3. Len(b.txs \o b.pegouts) = 0
      BY <2>1 DEF Spends
    <3>4. Len(b.pegouts) = 0
      <4>1. Len(b.txs) \in Nat /\ Len(b.pegouts) \in Nat
        BY <3>1
      <4>2. Len(b.txs) + Len(b.pegouts) = 0
        BY <3>2, <3>3
      <4>3. \A x, y \in Nat : x + y = 0 => y = 0
        OBVIOUS
      <4>. QED
        BY <4>1, <4>2, <4>3
    <3>. QED
      BY <3>1, <3>4
  <2>5. Total(<<>>) = 0
    BY TotalEmpty
  <2>6. fees = 0 /\ inflow = 0 /\ infees = 0 /\ burn = 0 /\ out = 0
    <3>1. fees = 0
      <4>1. FLAT_FEE \in Nat /\ Len(Spends(b)) = 0
        BY <2>1, LedgerAssumption
      <4>. QED
        BY <4>1 DEF Fees
    <3>2. /\ [i \in DOMAIN b.pegins |-> DepositAmount[b.pegins[i]]] = <<>>
          /\ [i \in DOMAIN b.pegins |-> PegFee(DepositAmount[b.pegins[i]])] = <<>>
      BY <2>1
    <3>3. /\ [i \in DOMAIN b.pegouts |-> BurnValue(b.pegouts[i].spend)] = <<>>
          /\ [i \in DOMAIN b.pegouts |-> Withdraw[b.pegouts[i].spend]] = <<>>
      BY <2>4
    <3>. QED
      BY <2>5, <3>1, <3>2, <3>3 DEF PegInInflow, PegInFees, BurnTotal, PegOutOutflow
  <2>. HIDE DEF a, u, w, p, d, g, fees, inflow, infees, burn, out, c, pot, pool, l
  <2>7. a.shielded_total = (u - fees + (inflow - infees) + c) - (w + burn)
    BY <1>3, <1>4, <1>5, <2>2, <2>6
  <2>8. a.pot + a.shielded_total = GENESIS_POT + (g + c) + (d + inflow) - (p + out)
    BY <1>3, <1>4, <1>5, <1>6, <2>2, <2>6
  <2>9. PoolOk(a)
    BY <1>2, <2>7 DEF PoolOk
  <2>10. SupplyOk(a)
    BY <1>2, <1>7, <2>3, <2>8 DEF SupplyOk
  <2>. QED
    BY <1>2, <2>9, <2>10 DEF MoneyOk, a
<1>. QED
  BY <1>8, <1>9

--------------------------------------------------------------------------------
(* The branch and its undo records *)

\* The bounds of the model: what blocks may carry, claims included.
Bounded ==
  /\ {MaxSpends, MaxPegIns} \subseteq Nat
  /\ Anchors \subseteq Nat
  /\ Timestamps \subseteq Nat
  /\ Lies \subseteq Int \X Int \X Int

UndoRecords == {UndoOf(s, b) : s \in StateType, b \in BlockType}

\* The states of the live branch, oldest first.
History == Append(past, ledger)

\* The i-th state accepts the roots of the newest states up to it.
WindowAt(h, i) ==
  LET n == IF i < ROOT_WINDOW THEN i ELSE ROOT_WINDOW
  IN /\ Len(h[i].recent_roots) = n
     /\ \A k \in 1 .. n : h[i].recent_roots[k] = h[i - n + k].tree

\* What the branch and its undo records satisfy after every step.
HistoryInv ==
  /\ ledger \in StateType
  /\ past \in Seq(StateType)
  /\ undos \in Seq(UndoRecords)
  /\ Len(undos) = Len(past)
  /\ \A i \in 1 .. Len(past) : Rollback(History[i + 1], undos[i]) = History[i]
  /\ \A i \in 1 .. Len(past) + 1 : WindowAt(History, i)
  /\ \A i \in 1 .. Len(past) + 1 : NotesOk(History[i])
  /\ \A i \in 1 .. Len(past) + 1 : MoneyOk(History[i])

--------------------------------------------------------------------------------
LEMMA HistoryInit == LedgerInit => HistoryInv
<1>. SUFFICES ASSUME LedgerInit PROVE HistoryInv
  OBVIOUS
<1>1. /\ ledger = NewState /\ undos = <<>> /\ past = <<>>
      /\ ledger \in StateType /\ past \in Seq(StateType) /\ undos \in Seq(UndoRecords)
      /\ Len(undos) = 0 /\ Len(past) = 0 /\ History = <<ledger>>
  BY NewStateType DEF LedgerInit, History
<1>2. WindowAt(History, 1)
  <2>1. ROOT_WINDOW \in Nat \ {0}
    BY LedgerAssumption
  <2>2. ledger.recent_roots = << <<>> >> /\ ledger.tree = <<>>
    BY <1>1 DEF NewState
  <2>3. /\ (IF 1 < ROOT_WINDOW THEN 1 ELSE ROOT_WINDOW) = 1
        /\ History[1] = ledger /\ Len(ledger.recent_roots) = 1 /\ ledger.recent_roots[1] = ledger.tree
    BY <1>1, <2>1, <2>2
  <2>. QED
    BY <2>3 DEF WindowAt
<1>3. NotesOk(History[1]) /\ MoneyOk(History[1])
  BY <1>1, NotesNew, MoneyNew
<1>. QED
  BY <1>1, <1>2, <1>3 DEF HistoryInv

\* Blocks reach Apply with the types of apply_block's argument.
LEMMA MisstatedType ==
  ASSUME NEW b \in BlockType, NEW lie \in Int \X Int \X Int
  PROVE  Misstated(b, lie) \in BlockType
<1>. DEFINE x == b.coinbase_amount + lie[1]
            y == b.pot_after + lie[2]
            z == b.shielded_after + lie[3]
<1>1. x \in Int /\ y \in Int /\ z \in Int
  BY DEF BlockType
<1>2. Misstated(b, lie)
        = [b EXCEPT !.coinbase_amount = x, !.pot_after = y, !.shielded_after = z]
  BY DEF Misstated
<1>. HIDE DEF x, y, z
<1>3. [b EXCEPT !.coinbase_amount = x, !.pot_after = y, !.shielded_after = z] \in BlockType
  BY <1>1 DEF BlockType
<1>. QED
  BY <1>2, <1>3

\* The transactions of a block are against roots the branch had.
LEMMA TxsType == HistoryInv => ProvenTxs \subseteq TxType
<1>. SUFFICES ASSUME HistoryInv, NEW tx \in ProvenTxs PROVE tx \in TxType
  OBVIOUS
<1>1. /\ tx \in [spend : Spend, root : {past[i].tree : i \in DOMAIN past} \cup {ledger.tree}]
      /\ past \in Seq(StateType) /\ ledger \in StateType
  BY DEF ProvenTxs, HistoryInv
<1>2. ASSUME NEW i \in DOMAIN past PROVE past[i].tree \in Seq(LeafType)
  <2>1. past[i] \in StateType
    BY <1>1, ElementOfSeq
  <2>. QED
    BY <2>1 DEF StateType
<1>3. ledger.tree \in Seq(LeafType)
  BY <1>1 DEF StateType
<1>. QED
  BY <1>1, <1>2, <1>3 DEF TxType

\* A list of bounded length is a list.
LEMMA BoundedIsSeq ==
  ASSUME NEW S, NEW T, S \subseteq T, NEW n \in Nat, NEW s \in BoundedSeq(S, n)
  PROVE  s \in Seq(T)
BY DEF BoundedSeq, SeqOf

\* Each step applies a block of the type or rolls one back.
LEMMA StepShape ==
  ASSUME Bounded, NbitsPositive, HistoryInv, LedgerNext
  PROVE  (\E b \in BlockType : Apply(b)) \/ RollbackTip
<1>1. ASSUME ApplyReward PROVE \E b \in BlockType : Apply(b)
  <2>1. PICK txs \in BoundedSeq(ProvenTxs, MaxSpends), pegouts \in BoundedSeq(ProvenTxs, MaxSpends),
             pegins \in BoundedSeq(Deposit, MaxPegIns), anchor \in Anchors,
             ts \in Timestamps, lie \in Lies :
          Apply(Misstated(AssembleReward(ledger, txs, pegouts, pegins, anchor, ts), lie))
    BY <1>1 DEF ApplyReward
  <2>2. /\ txs \in Seq(TxType) /\ pegouts \in Seq(TxType) /\ pegins \in Seq(Deposit)
        /\ anchor \in Nat /\ ts \in Nat /\ lie \in Int \X Int \X Int /\ ledger \in StateType
    BY TxsType, BoundedIsSeq DEF Bounded, HistoryInv
  <2>3. AssembleReward(ledger, txs, pegouts, pegins, anchor, ts) \in BlockType
    BY <2>2, AssembleRewardType
  <2>. QED
    BY <2>1, <2>2, <2>3, MisstatedType
<1>2. ASSUME ApplyGenesis PROVE \E b \in BlockType : Apply(b)
  <2>1. PICK ts \in Timestamps, lie \in Lies :
          Apply(Misstated(AssembleGenesis(ledger, ts), lie))
    BY <1>2 DEF ApplyGenesis
  <2>2. /\ ts \in Nat /\ lie \in Int \X Int \X Int /\ ledger \in StateType
        /\ ledger.height < Len(GenesisAlloc)
    BY <1>2 DEF Bounded, HistoryInv, ApplyGenesis
  <2>3. AssembleGenesis(ledger, ts) \in BlockType
    BY <2>2, AssembleGenesisType
  <2>. QED
    BY <2>1, <2>2, <2>3, MisstatedType
<1>. QED
  BY <1>1, <1>2 DEF LedgerNext

\* The state a block leads to accepts the newest roots of the longer branch.
LEMMA WindowGrows ==
  ASSUME NEW h \in Seq(StateType), NEW t \in StateType, Len(h) > 0,
         t.recent_roots = Slide(h[Len(h)].recent_roots, t.tree, ROOT_WINDOW),
         \A i \in 1 .. Len(h) : WindowAt(h, i)
  PROVE  \A i \in 1 .. Len(h) + 1 : WindowAt(Append(h, t), i)
<1>. DEFINE g == Append(h, t)
            n == Len(h)
            r == ROOT_WINDOW
            w == h[n].recent_roots
<1>1. /\ n \in Nat \ {0} /\ g[n + 1] = t /\ \A i \in 1 .. n : g[i] = h[i]
  BY AppendProperties
<1>2. r \in Nat \ {0}
  BY LedgerAssumption
<1>3. w \in Seq(Seq(LeafType)) /\ t.tree \in Seq(LeafType)
  <2>1. h[n] \in StateType
    BY <1>1, ElementOfSeq
  <2>. QED
    BY <2>1 DEF StateType
<1>. HIDE DEF g
<1>4. ASSUME NEW i \in 1 .. n PROVE WindowAt(g, i)
  <2>. DEFINE m == IF i < r THEN i ELSE r
  <2>1. m \in 1 .. i
    BY <1>1, <1>2
  <2>2. Len(h[i].recent_roots) = m /\ \A k \in 1 .. m : h[i].recent_roots[k] = h[i - m + k].tree
    BY DEF WindowAt
  <2>3. g[i] = h[i] /\ \A k \in 1 .. m : g[i - m + k] = h[i - m + k]
    BY <1>1, <2>1
  <2>. QED
    BY <2>2, <2>3 DEF WindowAt
<1>5. WindowAt(g, n + 1)
  <2>. DEFINE m == IF n < r THEN n ELSE r
              v == t.recent_roots
  <2>1. WindowAt(h, n)
    BY <1>1
  <2>2. Len(w) = m /\ \A k \in 1 .. m : w[k] = h[n - m + k].tree
    BY <2>1 DEF WindowAt
  <2>3. v = Slide(w, t.tree, r)
    OBVIOUS
  <2>. HIDE DEF w, r
  <2>4. CASE n < r
    <3>1. Len(w) = n /\ \A k \in 1 .. n : w[k] = h[k].tree
      <4>1. m = n /\ \A k \in 1 .. n : n - n + k = k
        BY <1>1, <2>4
      <4>. HIDE DEF m
      <4>. QED
        BY <2>2, <4>1
    <3>2. v = Append(w, t.tree)
      <4>1. Len(w) # r
        BY <1>1, <1>2, <2>4, <3>1
      <4>. QED
        BY <2>3, <4>1 DEF Slide
    <3>3. Len(v) = n + 1 /\ v[n + 1] = t.tree /\ \A k \in 1 .. n : v[k] = w[k]
      BY <1>3, <3>1, <3>2, AppendProperties
    <3>4. \A k \in 1 .. n + 1 : v[k] = g[k].tree
      <4>1. \A k \in 1 .. n : v[k] = g[k].tree
        BY <1>1, <3>1, <3>3
      <4>. QED
        BY <1>1, <3>3, <4>1
    <3>5. (IF n + 1 < r THEN n + 1 ELSE r) = n + 1
      BY <1>1, <1>2, <2>4
    <3>. QED
      BY <1>1, <3>3, <3>4, <3>5 DEF WindowAt, r
  <2>5. CASE ~ (n < r)
    <3>1. Len(w) = r /\ \A k \in 1 .. r : w[k] = h[n - r + k].tree
      BY <1>1, <1>2, <2>2, <2>5
    <3>2. v = Append(Tail(w), t.tree) /\ w # <<>>
      BY <1>2, <1>3, <2>3, <3>1 DEF Slide
    <3>3. /\ Tail(w) \in Seq(Seq(LeafType)) /\ Len(Tail(w)) = r - 1
          /\ \A k \in 1 .. r - 1 : Tail(w)[k] = w[k + 1]
      BY <1>3, <3>1, <3>2, HeadTailProperties
    <3>4. Len(v) = r /\ v[r] = t.tree /\ \A k \in 1 .. r - 1 : v[k] = w[k + 1]
      <4>1. /\ Len(v) = r - 1 + 1 /\ v[r - 1 + 1] = t.tree
            /\ \A k \in 1 .. r - 1 : v[k] = Tail(w)[k]
        BY <1>3, <3>2, <3>3, AppendProperties
      <4>. QED
        BY <1>2, <3>3, <4>1
    <3>5. ASSUME NEW k \in 1 .. r PROVE v[k] = g[n + 1 - r + k].tree
      <4>1. CASE k = r
        <5>1. n + 1 - r + k = n + 1
          BY <1>1, <1>2, <4>1
        <5>. QED
          BY <1>1, <3>4, <4>1, <5>1
      <4>2. CASE k # r
        <5>1. /\ k \in 1 .. r - 1 /\ k + 1 \in 1 .. r
              /\ n - r + (k + 1) = n + 1 - r + k /\ n + 1 - r + k \in 1 .. n
          BY <1>1, <1>2, <2>5, <4>2
        <5>2. w[k + 1] = h[n + 1 - r + k].tree
          BY <3>1, <5>1
        <5>. QED
          BY <1>1, <3>4, <5>1, <5>2
      <4>. QED
        BY <4>1, <4>2
    <3>6. (IF n + 1 < r THEN n + 1 ELSE r) = r
      BY <1>1, <1>2, <2>5
    <3>. QED
      BY <1>1, <3>4, <3>5, <3>6 DEF WindowAt, r
  <2>. QED
    BY <2>4, <2>5
<1>. QED
  BY <1>1, <1>4, <1>5 DEF g

\* The branch after a block.
LEMMA HistoryApply ==
  ASSUME HistoryInv, NEW b \in BlockType, Apply(b)
  PROVE  HistoryInv'
<1>. DEFINE h == History
            n == Len(past)
<1>1. /\ ledger \in StateType /\ past \in Seq(StateType) /\ undos \in Seq(UndoRecords)
      /\ Len(undos) = n /\ n \in Nat
      /\ \A i \in 1 .. n : Rollback(h[i + 1], undos[i]) = h[i]
      /\ \A i \in 1 .. n + 1 : WindowAt(h, i) /\ NotesOk(h[i]) /\ MoneyOk(h[i])
  BY DEF HistoryInv
<1>2. /\ ValidBlock(ledger, b) /\ ledger' = ApplyBlock(ledger, b)
      /\ undos' = Append(undos, UndoOf(ledger, b)) /\ past' = h
  BY DEF Apply, History
<1>3. ledger' \in StateType
  BY <1>1, <1>2, ApplyType
<1>4. /\ h \in Seq(StateType) /\ Len(h) = n + 1 /\ h[n + 1] = ledger
  BY <1>1, AppendProperties DEF History
<1>5. UndoOf(ledger, b) \in UndoRecords
  BY <1>1 DEF UndoRecords
<1>6. /\ undos' \in Seq(UndoRecords) /\ Len(undos') = n + 1
      /\ undos'[n + 1] = UndoOf(ledger, b) /\ \A i \in 1 .. n : undos'[i] = undos[i]
  BY <1>1, <1>2, <1>5, AppendProperties
<1>7. /\ History' = Append(h, ledger')
      /\ \A i \in 1 .. n + 1 : History'[i] = h[i]
      /\ History'[n + 2] = ledger'
  <2>1. History' = Append(h, ledger')
    BY <1>2 DEF History
  <2>. QED
    BY <1>3, <1>4, <2>1, AppendProperties
<1>. HIDE DEF h
<1>8. ASSUME NEW i \in 1 .. n + 1 PROVE Rollback(History'[i + 1], undos'[i]) = History'[i]
  <2>1. CASE i \in 1 .. n
    <3>1. i + 1 \in 1 .. n + 1
      BY <1>1, <2>1
    <3>. QED
      BY <1>1, <1>6, <1>7, <2>1, <3>1
  <2>2. CASE i = n + 1
    <3>1. /\ History'[i + 1] = ApplyBlock(ledger, b) /\ undos'[i] = UndoOf(ledger, b)
          /\ History'[i] = ledger
      BY <1>1, <1>2, <1>4, <1>6, <1>7, <2>2
    <3>. QED
      BY <1>1, <1>2, <3>1, RollbackUndoes
  <2>. QED
    BY <1>1, <2>1, <2>2
<1>9. ledger'.recent_roots = Slide(ledger.recent_roots, ledger'.tree, ROOT_WINDOW)
  BY <1>2 DEF ApplyBlock
<1>10. \A i \in 1 .. Len(h) : WindowAt(h, i)
  BY <1>1, <1>4
<1>11. \A i \in 1 .. n + 2 : WindowAt(History', i)
  <2>1. \A i \in 1 .. Len(h) + 1 : WindowAt(Append(h, ledger'), i)
    BY <1>1, <1>3, <1>4, <1>9, <1>10, WindowGrows
  <2>. QED
    BY <1>1, <1>4, <1>7, <2>1
<1>12. past' \in Seq(StateType) /\ Len(past') = n + 1
  BY <1>2, <1>4
<1>13. ASSUME NEW i \in 1 .. n + 2 PROVE NotesOk(History'[i]) /\ MoneyOk(History'[i])
  <2>1. CASE i \in 1 .. n + 1
    BY <1>1, <1>7, <2>1
  <2>2. CASE i = n + 2
    <3>1. NotesOk(ledger) /\ MoneyOk(ledger)
      BY <1>1, <1>4
    <3>2. NotesOk(ApplyBlock(ledger, b)) /\ MoneyOk(ApplyBlock(ledger, b))
      BY <1>1, <1>2, <3>1, NotesApply, MoneyApply
    <3>. QED
      BY <1>2, <1>7, <2>2, <3>2
  <2>. QED
    BY <1>1, <2>1, <2>2
<1>. QED
  BY <1>1, <1>3, <1>6, <1>8, <1>11, <1>12, <1>13 DEF HistoryInv

\* A branch without its tip.
LEMMA HistoryBack ==
  ASSUME HistoryInv, RollbackTip
  PROVE  HistoryInv'
<1>. DEFINE h == History
            n == Len(past)
            m == n - 1
<1>1. /\ ledger \in StateType /\ past \in Seq(StateType) /\ undos \in Seq(UndoRecords)
      /\ Len(undos) = n /\ n \in Nat
      /\ \A i \in 1 .. n : Rollback(h[i + 1], undos[i]) = h[i]
      /\ \A i \in 1 .. n + 1 : WindowAt(h, i) /\ NotesOk(h[i]) /\ MoneyOk(h[i])
  BY DEF HistoryInv
<1>2. /\ undos # <<>> /\ ledger' = Rollback(ledger, undos[n])
      /\ undos' = SubSeq(undos, 1, m) /\ past' = SubSeq(past, 1, m)
  BY <1>1 DEF RollbackTip, Front, Last
<1>3. m \in Nat /\ n = m + 1
  <2>1. n # 0
    BY <1>1, <1>2
  <2>. QED
    BY <1>1, <2>1
<1>4. /\ h[n + 1] = ledger /\ \A i \in 1 .. n : h[i] = past[i] /\ past[i] \in StateType
  BY <1>1, AppendProperties, ElementOfSeq DEF History
<1>5. ledger' = past[n]
  BY <1>1, <1>2, <1>3, <1>4
<1>6. /\ past' \in Seq(StateType) /\ Len(past') = m
      /\ \A i \in 1 .. m : past'[i] = past[i]
  BY <1>1, <1>2, <1>3, SubSeqProperties
<1>7. /\ undos' \in Seq(UndoRecords) /\ Len(undos') = m
      /\ \A i \in 1 .. m : undos'[i] = undos[i]
  BY <1>1, <1>2, <1>3, SubSeqProperties
<1>8. ledger' \in StateType
  BY <1>3, <1>4, <1>5
<1>9. \A i \in 1 .. m + 1 : History'[i] = h[i]
  <2>1. /\ History' = Append(past', ledger')
        /\ Append(past', ledger')[m + 1] = ledger'
        /\ \A i \in 1 .. m : Append(past', ledger')[i] = past'[i]
    BY <1>6, <1>8, AppendProperties DEF History
  <2>. QED
    BY <1>3, <1>4, <1>5, <1>6, <2>1
<1>. HIDE DEF h, m
<1>10. ASSUME NEW i \in 1 .. m PROVE Rollback(History'[i + 1], undos'[i]) = History'[i]
  BY <1>1, <1>3, <1>7, <1>9
<1>11. ASSUME NEW i \in 1 .. m + 1 PROVE WindowAt(History', i)
  <2>. DEFINE l == IF i < ROOT_WINDOW THEN i ELSE ROOT_WINDOW
  <2>1. WindowAt(h, i)
    BY <1>1, <1>3
  <2>2. Len(h[i].recent_roots) = l /\ \A k \in 1 .. l : h[i].recent_roots[k] = h[i - l + k].tree
    BY <2>1 DEF WindowAt
  <2>3. l \in 1 .. i
    BY <1>3, LedgerAssumption
  <2>. HIDE DEF l
  <2>4. History'[i] = h[i] /\ \A k \in 1 .. l : History'[i - l + k] = h[i - l + k]
    BY <1>3, <1>9, <2>3
  <2>5. /\ Len(History'[i].recent_roots) = l
        /\ \A k \in 1 .. l : History'[i].recent_roots[k] = History'[i - l + k].tree
    BY <2>2, <2>4
  <2>. QED
    BY <2>5 DEF WindowAt, l
<1>12. ASSUME NEW i \in 1 .. m + 1 PROVE NotesOk(History'[i]) /\ MoneyOk(History'[i])
  BY <1>1, <1>3, <1>9
<1>. QED
  BY <1>6, <1>7, <1>8, <1>10, <1>11, <1>12 DEF HistoryInv

LEMMA HistoryStep ==
  ASSUME Bounded, NbitsPositive
  PROVE  HistoryInv /\ [LedgerNext]_ledgerVars => HistoryInv'
<1>. SUFFICES ASSUME HistoryInv, [LedgerNext]_ledgerVars PROVE HistoryInv'
  OBVIOUS
<1>1. CASE LedgerNext
  BY <1>1, StepShape, HistoryApply, HistoryBack
<1>2. CASE UNCHANGED ledgerVars
  <2>1. History' = History
    BY <1>2 DEF ledgerVars, History
  <2>. QED
    BY <1>2, <2>1 DEF ledgerVars, HistoryInv
<1>. QED
  BY <1>1, <1>2

\* The invariant says what the run checks.
LEMMA HistoryRollsBack == HistoryInv => LedgerRollsBack
<1>. SUFFICES ASSUME HistoryInv PROVE LedgerRollsBack
  OBVIOUS
<1>. DEFINE h == History
            n == Len(past)
<1>1. /\ ledger \in StateType /\ past \in Seq(StateType) /\ undos \in Seq(UndoRecords)
      /\ Len(undos) = n /\ n \in Nat
      /\ \A i \in 1 .. n : Rollback(h[i + 1], undos[i]) = h[i]
      /\ \A i \in 1 .. n + 1 : WindowAt(h, i)
  BY DEF HistoryInv
<1>2. h[n + 1] = ledger /\ \A i \in 1 .. n : h[i] = past[i] /\ past[i] \in StateType
  BY <1>1, AppendProperties, ElementOfSeq DEF History
<1>. HIDE DEF h
<1>3. RollbackExact
  <2>. SUFFICES ASSUME undos # <<>> PROVE Rollback(ledger, undos[n]) = past[n]
    BY <1>1 DEF RollbackExact, Last
  <2>1. n \in 1 .. n
    BY <1>1
  <2>. QED
    BY <1>1, <1>2, <2>1
<1>4. WindowIsRecent
  <2>. DEFINE trees == [i \in DOMAIN past |-> past[i].tree]
              roots == Append(trees, ledger.tree)
              m == IF n + 1 < ROOT_WINDOW THEN n + 1 ELSE ROOT_WINDOW
              w == ledger.recent_roots
              v == SubSeq(roots, n + 1 - m + 1, n + 1)
  <2>1. /\ trees \in Seq(Seq(LeafType)) /\ Len(trees) = n
        /\ \A i \in 1 .. n : trees[i] = past[i].tree
    <3>1. \A i \in 1 .. n : past[i].tree \in Seq(LeafType)
      BY <1>2 DEF StateType
    <3>2. DOMAIN past = 1 .. n
      BY <1>1
    <3>. QED
      BY <1>1, <3>1, <3>2
  <2>2. ledger.tree \in Seq(LeafType) /\ w \in Seq(Seq(LeafType))
    BY <1>1 DEF StateType
  <2>. HIDE DEF trees, w
  <2>3. /\ roots \in Seq(Seq(LeafType)) /\ Len(roots) = n + 1
        /\ roots[n + 1] = ledger.tree /\ \A i \in 1 .. n : roots[i] = trees[i]
    BY <2>1, <2>2, AppendProperties
  <2>4. \A i \in 1 .. n + 1 : roots[i] = h[i].tree /\ roots[i] \in Seq(LeafType)
    BY <1>1, <1>2, <2>1, <2>3, ElementOfSeq
  <2>5. m \in 1 .. n + 1 /\ m = Min({ROOT_WINDOW, n + 1})
    <3>1. ROOT_WINDOW \in Nat \ {0} /\ ROOT_WINDOW \in Int /\ n + 1 \in Int
      BY <1>1, LedgerAssumption
    <3>2. Min({ROOT_WINDOW, n + 1}) = IF ROOT_WINDOW <= n + 1 THEN ROOT_WINDOW ELSE n + 1
      BY <3>1, MinPair
    <3>. QED
      BY <1>1, <3>1, <3>2
  <2>. HIDE DEF roots
  <2>6. Len(w) = m /\ \A k \in 1 .. m : w[k] = h[n + 1 - m + k].tree
    BY <1>1, <1>2 DEF WindowAt, w
  <2>. HIDE DEF m
  <2>7. /\ v \in Seq(Seq(LeafType)) /\ Len(v) = m
        /\ \A k \in 1 .. m : v[k] = roots[n + 1 - m + k]
    <3>1. \A i \in n + 1 - m + 1 .. n + 1 : roots[i] \in Seq(LeafType)
      BY <1>1, <2>4, <2>5
    <3>2. n + 1 - m + 1 \in Int /\ n + 1 \in Int
      BY <1>1, <2>5
    <3>3. /\ v \in Seq(Seq(LeafType))
          /\ Len(v) = IF n + 1 - m + 1 <= n + 1 THEN n + 1 - (n + 1 - m + 1) + 1 ELSE 0
          /\ \A k \in 1 .. n + 1 - (n + 1 - m + 1) + 1 : v[k] = roots[n + 1 - m + 1 + k - 1]
      BY <3>1, <3>2, SubSeqProperties
    <3>4. n + 1 - (n + 1 - m + 1) + 1 = m /\ n + 1 - m + 1 <= n + 1
      BY <1>1, <2>5
    <3>5. \A k \in 1 .. m : n + 1 - m + 1 + k - 1 = n + 1 - m + k
      BY <1>1, <2>5
    <3>. QED
      BY <3>3, <3>4, <3>5
  <2>. HIDE DEF v
  <2>8. ASSUME NEW k \in 1 .. m PROVE w[k] = v[k]
    <3>1. n + 1 - m + k \in 1 .. n + 1
      BY <1>1, <2>5
    <3>. QED
      BY <2>4, <2>6, <2>7, <3>1
  <2>9. w = v
    BY <2>2, <2>6, <2>7, <2>8, SeqEqual
  <2>10. SubSeq(roots, Len(roots) - Min({ROOT_WINDOW, Len(roots)}) + 1, Len(roots)) = v
    <3>. DEFINE l == Len(roots)
    <3>1. l = n + 1 /\ Min({ROOT_WINDOW, n + 1}) = m
      BY <2>3, <2>5
    <3>. HIDE DEF l
    <3>2. Min({ROOT_WINDOW, l}) = m
      BY <3>1
    <3>3. l - Min({ROOT_WINDOW, l}) + 1 = n + 1 - m + 1
      BY <1>1, <2>5, <3>1, <3>2
    <3>4. SubSeq(roots, l - Min({ROOT_WINDOW, l}) + 1, l) = v
      BY <3>1, <3>3 DEF v
    <3>. QED
      BY <3>4 DEF l
  <2>11. ledger.recent_roots
           = SubSeq(roots, Len(roots) - Min({ROOT_WINDOW, Len(roots)}) + 1, Len(roots))
    BY <2>9, <2>10 DEF w
  <2>. QED
    BY <2>11 DEF WindowIsRecent, roots, trees
<1>. QED
  BY <1>3, <1>4 DEF LedgerRollsBack

\* A rollback leads back to the very state the block was applied to, and the
\* window of accepted roots is that of the live branch alone, whatever the blocks
\* claim (apply_block, rollback).
THEOREM LedgerRollsBackCorrect ==
  ASSUME Bounded, NbitsPositive
  PROVE  LedgerSpec => []LedgerRollsBack
<1>1. LedgerInit => HistoryInv
  BY HistoryInit
<1>2. HistoryInv /\ [LedgerNext]_ledgerVars => HistoryInv'
  BY HistoryStep
<1>3. HistoryInv => LedgerRollsBack
  BY HistoryRollsBack
<1>. QED
  BY <1>1, <1>2, <1>3, PTL DEF LedgerSpec

\* The last state of the branch is the live one.
LEMMA HistoryTip == HistoryInv => NotesOk(ledger) /\ MoneyOk(ledger)
<1>. SUFFICES ASSUME HistoryInv PROVE NotesOk(ledger) /\ MoneyOk(ledger)
  OBVIOUS
<1>1. ledger \in StateType /\ past \in Seq(StateType)
  BY DEF HistoryInv
<1>2. History[Len(past) + 1] = ledger /\ Len(past) \in Nat
  BY <1>1, AppendProperties DEF History
<1>3. NotesOk(History[Len(past) + 1]) /\ MoneyOk(History[Len(past) + 1])
  BY <1>2 DEF HistoryInv
<1>. QED
  BY <1>2, <1>3

LEMMA HistoryTypes == HistoryInv => LedgerTypeOK
<1>. SUFFICES ASSUME HistoryInv PROVE LedgerTypeOK
  OBVIOUS
<1>1. ledger \in StateType /\ Len(undos) = Len(past)
  BY DEF HistoryInv
<1>2. ledger.recent_roots \in Seq(Seq(LeafType))
  BY <1>1 DEF StateType
<1>3. \A i \in DOMAIN ledger.recent_roots : ledger.recent_roots[i] \in Seq(LeafType)
  BY <1>2, ElementOfSeq
<1>. QED
  BY <1>1, <1>3 DEF LedgerTypeOK, StateType

\* Types of HnState; no balance goes below zero, although blocks may claim
\* anything (apply_block's checks).
THEOREM LedgerTypeCorrect ==
  ASSUME Bounded, NbitsPositive
  PROVE  LedgerSpec => []LedgerTypeOK
BY HistoryInit, HistoryStep, HistoryTypes, PTL DEF LedgerSpec

\* No note is in the tree twice and every nullifier is that of a note in it, so a
\* spent note cannot be paid out again; a deposit is marked used exactly while its
\* note is there, through any mix of blocks and rollbacks (validate_tx, the peg-in
\* loop and the used set of apply_block, rollback).
THEOREM NotesUniqueCorrect ==
  ASSUME Bounded, NbitsPositive
  PROVE  LedgerSpec => []NotesUnique
<1>1. HistoryInv => NotesUnique
  BY HistoryTip DEF NotesOk, NotesUnique
<1>. QED
  BY <1>1, HistoryInit, HistoryStep, PTL DEF LedgerSpec

\* No value is created or lost by any mix of blocks and rollbacks, whatever the
\* blocks claim: the public shielded total is what the unspent notes are worth less
\* the burn notes of recorded withdrawals, and pot and pool together hold the genesis
\* issuance and the deposits less the withdrawals (the conservation checks of
\* apply_block, which sees no note's value, and rollback).
THEOREM LedgerConservesCorrect ==
  ASSUME Bounded, NbitsPositive
  PROVE  LedgerSpec => []LedgerConserves
<1>1. HistoryInv => LedgerConserves
  <2>. SUFFICES ASSUME HistoryInv PROVE LedgerConserves
    OBVIOUS
  <2>1. LedgerTypeOK /\ NotesOk(ledger) /\ MoneyOk(ledger)
    BY HistoryTypes, HistoryTip
  <2>2. NotesUnique
    BY <2>1 DEF NotesOk, NotesUnique
  <2>3. PoolMatchesNotes
    BY <2>1 DEF MoneyOk, PoolOk, PoolMatchesNotes, UnspentOf, Worths, UnspentValue,
                BurnsOf, WithdrawnBurns
  <2>4. Conservation
    BY <2>1 DEF MoneyOk, SupplyOk, Conservation, IssuedAt, Issued, DepositedOf, Deposited,
                PaidOf
  <2>. QED
    BY <2>1, <2>2, <2>3, <2>4 DEF LedgerConserves
<1>. QED
  BY <1>1, HistoryInit, HistoryStep, PTL DEF LedgerSpec

===============================================================================
