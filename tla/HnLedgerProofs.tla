---------------------------- MODULE HnLedgerProofs ----------------------------
(***************************************************************************)
(* The ledger's operators: what apply_block returns for a valid block, and *)
(* that rollback undoes it.                                                *)
(***************************************************************************)
EXTENDS HnLedger, SelectionProofs

WithdrawalType == [spend : Spend, amount : Nat, hn_height : Nat]

StateType ==
  [tree : Seq(LeafType), nullifiers : SUBSET SpendableNotes,
   recent_roots : Seq(Seq(LeafType)), height : Nat, anchor_height : Nat,
   daa_view : Seq(Nat \X Nat), pot : Nat, shielded_total : Nat,
   used_pegins : SUBSET Deposit, pending_withdrawals : Seq(WithdrawalType)]

\* A block as it arrives: what it claims of the balances may be anything.
BlockType ==
  [prev_root : Seq(LeafType), anchor : Nat, timestamp_ms : Nat, sc_nbits : Nat,
   txs : Seq(TxType), pegouts : Seq(TxType), pegins : Seq(Deposit),
   coinbase_is_reward : BOOLEAN, coinbase_amount : Int, pot_after : Int,
   shielded_after : Int]

--------------------------------------------------------------------------------
(* Sums *)

\* The equation Totals is defined by.
IsTotals(f, s, n) == f = [i \in 0 .. n |-> IF i = 0 THEN 0 ELSE f[i - 1] + s[i]]

\* The equation at one point.
LEMMA TotalsAt ==
  ASSUME NEW f, NEW s, NEW n, IsTotals(f, s, n), NEW i \in 0 .. n
  PROVE  f[i] = IF i = 0 THEN 0 ELSE f[i - 1] + s[i]
<1>. DEFINE e(j) == IF j = 0 THEN 0 ELSE f[j - 1] + s[j]
            h == [j \in 0 .. n |-> e(j)]
<1>1. f = h
  BY DEF IsTotals
<1>2. h[i] = e(i)
  OBVIOUS
<1>. HIDE DEF h
<1>. QED
  BY <1>1, <1>2

\* A function that satisfies the equation exists for every length.
LEMMA TotalsExist ==
  ASSUME NEW s, NEW n \in Nat
  PROVE  \E f : IsTotals(f, s, n)
<1>. DEFINE T == {m \in Nat : ~ \E f : IsTotals(f, s, m)}
<1>. SUFFICES ASSUME T # {} PROVE FALSE
  OBVIOUS
<1>1. PICK m \in T : \A j \in T : m <= j
  BY LeastNat
<1>2. m # 0
  <2>1. IsTotals([i \in 0 .. 0 |-> 0], s, 0)
    BY DEF IsTotals
  <2>. QED
    BY <2>1
<1>3. m - 1 \in Nat /\ m - 1 \notin T
  BY <1>1, <1>2
<1>4. PICK f : IsTotals(f, s, m - 1)
  BY <1>3
<1>. DEFINE h == [i \in 0 .. m |-> IF i < m THEN f[i] ELSE f[m - 1] + s[m]]
<1>5. \A i \in 0 .. m - 1 : h[i] = f[i]
  BY <1>1
<1>6. ASSUME NEW i \in 0 .. m PROVE h[i] = IF i = 0 THEN 0 ELSE h[i - 1] + s[i]
  <2>1. CASE i = 0
    BY <1>2, <1>4, <1>5, <2>1 DEF IsTotals
  <2>2. CASE i \in 1 .. m - 1
    <3>1. h[i] = f[i] /\ h[i - 1] = f[i - 1] /\ i \in 0 .. m - 1
      BY <1>5, <2>2
    <3>2. f[i] = f[i - 1] + s[i]
      BY <1>4, <2>2, <3>1, TotalsAt
    <3>. QED
      BY <2>2, <3>1, <3>2
  <2>3. CASE i = m
    BY <1>2, <1>5, <2>3
  <2>. QED
    BY <1>6, <2>1, <2>2, <2>3
<1>7. IsTotals(h, s, m)
  BY <1>6 DEF IsTotals
<1>. QED
  BY <1>1, <1>7

\* Totals at every point of a list.
LEMMA TotalsDef ==
  ASSUME NEW s, Len(s) \in Nat, NEW i \in 0 .. Len(s)
  PROVE  Totals(s)[i] = IF i = 0 THEN 0 ELSE Totals(s)[i - 1] + s[i]
<1>1. PICK f : IsTotals(f, s, Len(s))
  BY TotalsExist
<1>2. IsTotals(Totals(s), s, Len(s))
  BY <1>1 DEF Totals, IsTotals
<1>. QED
  BY <1>2, TotalsAt

\* A sum of naturals is a natural.
LEMMA TotalType ==
  ASSUME NEW s \in Seq(Nat)
  PROVE  Total(s) \in Nat
<1>. DEFINE T == {i \in 0 .. Len(s) : Totals(s)[i] \notin Nat}
<1>0. Len(s) \in Nat
  OBVIOUS
<1>1. T = {}
  <2>. SUFFICES ASSUME T # {} PROVE FALSE
    OBVIOUS
  <2>0. T \in SUBSET Nat
    BY <1>0
  <2>1. PICK i \in T : \A j \in T : i <= j
    BY <2>0, LeastNat
  <2>2. Totals(s)[i] = IF i = 0 THEN 0 ELSE Totals(s)[i - 1] + s[i]
    BY <1>0, TotalsDef
  <2>3. i # 0
    BY <2>2
  <2>4. i - 1 \in 0 .. Len(s) /\ i - 1 \notin T
    BY <1>0, <2>1, <2>3
  <2>5. Totals(s)[i - 1] \in Nat /\ s[i] \in Nat
    BY <1>0, <2>3, <2>4, ElementOfSeq
  <2>. QED
    BY <2>2, <2>3, <2>5
<1>. QED
  BY <1>0, <1>1 DEF Total

\* The partial sums of a list of integers are integers.
LEMMA TotalsType ==
  ASSUME NEW s, Len(s) \in Nat, \A i \in 1 .. Len(s) : s[i] \in Int
  PROVE  \A i \in 0 .. Len(s) : Totals(s)[i] \in Int
<1>. DEFINE G == {i \in 0 .. Len(s) : Totals(s)[i] \in Int}
<1>1. 0 \in G
  BY TotalsDef
<1>2. ASSUME NEW i \in 0 .. Len(s) - 1, i \in G PROVE i + 1 \in G
  <2>1. i + 1 \in 0 .. Len(s) /\ i + 1 # 0 /\ i + 1 - 1 = i /\ i + 1 \in 1 .. Len(s)
    OBVIOUS
  <2>2. Totals(s)[i + 1] = Totals(s)[i] + s[i + 1]
    BY <2>1, TotalsDef
  <2>. QED
    BY <1>2, <2>1, <2>2
<1>. HIDE DEF G
<1>3. \A i \in 0 .. Len(s) : i \in G
  BY <1>1, <1>2, UpTo
<1>. QED
  BY <1>3 DEF G

\* Each partial sum adds one entry to the one before it.
LEMMA TotalsNext ==
  ASSUME NEW s, NEW n \in Nat, Len(s) = n
  PROVE  /\ Totals(s)[0] = 0
         /\ \A i \in 1 .. n : Totals(s)[i] = Totals(s)[i - 1] + s[i]
         /\ \A i \in 0 .. n - 1 : Totals(s)[i + 1] = Totals(s)[i] + s[i + 1]
         /\ Total(s) = Totals(s)[n]
<1>1. \A i \in 0 .. n : Totals(s)[i] = IF i = 0 THEN 0 ELSE Totals(s)[i - 1] + s[i]
  BY TotalsDef
<1>2. 0 \in 0 .. n /\ \A i \in 1 .. n : i \in 0 .. n /\ i # 0
  OBVIOUS
<1>3. \A i \in 0 .. n - 1 : i + 1 \in 1 .. n /\ i + 1 - 1 = i
  OBVIOUS
<1>4. Totals(s)[0] = 0 /\ \A i \in 1 .. n : Totals(s)[i] = Totals(s)[i - 1] + s[i]
  BY <1>1, <1>2
<1>. QED
  BY <1>3, <1>4 DEF Total

\* A list whose entries are sums of those of two others.
LEMMA TotalAdds ==
  ASSUME NEW n \in Nat, NEW s, NEW a, NEW b, Len(s) = n, Len(a) = n, Len(b) = n,
         \A i \in 1 .. n : a[i] \in Int /\ b[i] \in Int /\ s[i] = a[i] + b[i]
  PROVE  Total(s) = Total(a) + Total(b)
<1>. DEFINE G == {i \in 0 .. n : Totals(s)[i] = Totals(a)[i] + Totals(b)[i]}
<1>0. \A i \in 0 .. n : Totals(a)[i] \in Int /\ Totals(b)[i] \in Int
  BY TotalsType
<1>1. 0 \in G
  <2>1. Totals(s)[0] = 0 /\ Totals(a)[0] = 0 /\ Totals(b)[0] = 0
    BY TotalsDef
  <2>. QED
    BY <2>1
<1>2. ASSUME NEW i \in 0 .. n - 1, i \in G PROVE i + 1 \in G
  <2>1. i + 1 \in 0 .. n /\ i + 1 # 0 /\ i + 1 - 1 = i /\ i + 1 \in 1 .. n /\ i \in 0 .. n
    OBVIOUS
  <2>2. /\ Totals(s)[i + 1] = Totals(s)[i] + s[i + 1]
        /\ Totals(a)[i + 1] = Totals(a)[i] + a[i + 1]
        /\ Totals(b)[i + 1] = Totals(b)[i] + b[i + 1]
    BY TotalsNext
  <2>3. Totals(s)[i] = Totals(a)[i] + Totals(b)[i]
    BY <1>2
  <2>4. \A x, y, v, w \in Int : (x + y) + (v + w) = (x + v) + (y + w)
    OBVIOUS
  <2>5. Totals(s)[i + 1] = Totals(a)[i + 1] + Totals(b)[i + 1]
    BY <1>0, <2>1, <2>2, <2>3, <2>4
  <2>. QED
    BY <2>1, <2>5
<1>. HIDE DEF G
<1>3. \A i \in 0 .. n : i \in G
  BY <1>1, <1>2, UpTo
<1>4. Totals(s)[n] = Totals(a)[n] + Totals(b)[n]
  BY <1>3 DEF G
<1>. QED
  BY <1>4 DEF Total

\* The sum of one list behind another.
LEMMA TotalConcat ==
  ASSUME NEW s \in Seq(Int), NEW t \in Seq(Int)
  PROVE  Total(s \o t) = Total(s) + Total(t)
<1>. DEFINE u == s \o t
            n == Len(s)
            m == Len(t)
            G == {i \in 0 .. n : Totals(u)[i] = Totals(s)[i]}
            H == {i \in 0 .. m : Totals(u)[n + i] = Totals(s)[n] + Totals(t)[i]}
<1>1. /\ n \in Nat /\ m \in Nat /\ Len(u) = n + m
      /\ \A i \in 1 .. n : s[i] \in Int /\ u[i] = s[i]
      /\ \A i \in 1 .. m : t[i] \in Int /\ u[n + i] = t[i]
  <2>1. n \in Nat /\ m \in Nat /\ Len(u) = n + m
    BY ConcatProperties
  <2>2. \A i \in 1 .. n + m : u[i] = IF i <= n THEN s[i] ELSE t[i - n]
    BY ConcatProperties
  <2>. HIDE DEF u
  <2>3. \A i \in 1 .. m : n + i \in 1 .. n + m /\ ~ (n + i <= n) /\ n + i - n = i
    BY <2>1
  <2>4. \A i \in 1 .. n : i \in 1 .. n + m /\ i <= n
    BY <2>1
  <2>5. /\ \A i \in 1 .. n : s[i] \in Int
        /\ \A i \in 1 .. m : t[i] \in Int
    BY ElementOfSeq
  <2>. QED
    BY <2>1, <2>2, <2>3, <2>4, <2>5
<1>. HIDE DEF u, n, m
<1>2. /\ \A i \in 0 .. n : Totals(s)[i] \in Int
      /\ \A i \in 0 .. m : Totals(t)[i] \in Int
  BY <1>1, TotalsType DEF n, m
<1>3. /\ Totals(u)[0] = 0 /\ Totals(s)[0] = 0 /\ Totals(t)[0] = 0
      /\ \A i \in 1 .. n + m : Totals(u)[i] = Totals(u)[i - 1] + u[i]
      /\ \A i \in 1 .. n : Totals(s)[i] = Totals(s)[i - 1] + s[i]
      /\ \A i \in 1 .. m : Totals(t)[i] = Totals(t)[i - 1] + t[i]
  <2>1. n + m \in Nat /\ Len(s) = n /\ Len(t) = m
    BY <1>1 DEF n, m
  <2>. QED
    BY <1>1, <2>1, TotalsNext
<1>4. \A i \in 0 .. n : i \in G
  <2>1. 0 \in G
    BY <1>1, <1>3
  <2>2. ASSUME NEW i \in 0 .. n - 1, i \in G PROVE i + 1 \in G
    <3>1. i + 1 \in 1 .. n /\ i + 1 \in 1 .. n + m /\ i + 1 - 1 = i /\ i + 1 \in 0 .. n
      BY <1>1
    <3>. QED
      BY <1>1, <1>3, <2>2, <3>1
  <2>. HIDE DEF G
  <2>. QED
    BY <1>1, <2>1, <2>2, UpTo
<1>5. \A i \in 0 .. m : i \in H
  <2>1. 0 \in H
    <3>1. n \in G /\ n + 0 = n /\ Totals(s)[n] \in Int
      BY <1>1, <1>2, <1>4
    <3>. QED
      BY <1>1, <1>3, <3>1
  <2>2. ASSUME NEW i \in 0 .. m - 1, i \in H PROVE i + 1 \in H
    <3>1. /\ i + 1 \in 1 .. m /\ n + (i + 1) \in 1 .. n + m /\ i + 1 - 1 = i
          /\ n + (i + 1) - 1 = n + i /\ i + 1 \in 0 .. m /\ i \in 0 .. m
      BY <1>1
    <3>2. /\ Totals(u)[n + (i + 1)] = Totals(u)[n + i] + u[n + (i + 1)]
          /\ Totals(t)[i + 1] = Totals(t)[i] + t[i + 1]
          /\ u[n + (i + 1)] = t[i + 1]
      BY <1>1, <1>3, <3>1
    <3>3. Totals(u)[n + i] = Totals(s)[n] + Totals(t)[i]
      BY <2>2
    <3>4. \A x, y, z \in Int : (x + y) + z = x + (y + z)
      OBVIOUS
    <3>5. Totals(u)[n + (i + 1)] = Totals(s)[n] + Totals(t)[i + 1]
      <4>1. Totals(s)[n] \in Int /\ Totals(t)[i] \in Int /\ t[i + 1] \in Int
        BY <1>1, <1>2, <3>1
      <4>. QED
        BY <3>2, <3>3, <3>4, <4>1
    <3>. QED
      BY <3>1, <3>5
  <2>. HIDE DEF H
  <2>. QED
    BY <1>1, <2>1, <2>2, UpTo
<1>6. Totals(u)[n + m] = Totals(s)[n] + Totals(t)[m]
  BY <1>1, <1>5
<1>. QED
  BY <1>1, <1>6 DEF Total, u, n, m

\* A list that is zero but for one entry, and a list of equal entries.
LEMMA TotalOne ==
  ASSUME NEW n \in Nat, NEW k \in 1 .. n, NEW d \in Int
  PROVE  Total([i \in 1 .. n |-> IF i = k THEN d ELSE 0]) = d
<1>. DEFINE s == [i \in 1 .. n |-> IF i = k THEN d ELSE 0]
            G == {i \in 0 .. n : Totals(s)[i] = IF i < k THEN 0 ELSE d}
<1>1. Len(s) = n /\ \A i \in 1 .. n : s[i] = IF i = k THEN d ELSE 0
  OBVIOUS
<1>. HIDE DEF s
<1>2. \A i \in 0 .. n : Totals(s)[i] = IF i = 0 THEN 0 ELSE Totals(s)[i - 1] + s[i]
  BY <1>1, TotalsDef
<1>3. 0 \in G
  BY <1>2
<1>4. ASSUME NEW i \in 0 .. n - 1, i \in G PROVE i + 1 \in G
  <2>1. i + 1 \in 1 .. n /\ i + 1 - 1 = i /\ i + 1 # 0 /\ i + 1 \in 0 .. n
    OBVIOUS
  <2>2. Totals(s)[i + 1] = (IF i < k THEN 0 ELSE d) + (IF i + 1 = k THEN d ELSE 0)
    BY <1>1, <1>2, <1>4, <2>1
  <2>3. Totals(s)[i + 1] = IF i + 1 < k THEN 0 ELSE d
    BY <2>2
  <2>. QED
    BY <2>1, <2>3
<1>. HIDE DEF G
<1>5. \A i \in 0 .. n : i \in G
  BY <1>3, <1>4, UpTo
<1>6. Totals(s)[n] = d
  BY <1>5 DEF G
<1>. QED
  BY <1>1, <1>6 DEF Total, s

LEMMA TotalEqual ==
  ASSUME NEW n \in Nat, NEW d \in Int
  PROVE  Total([i \in 1 .. n |-> d]) = d * n
<1>. DEFINE s == [i \in 1 .. n |-> d]
            G == {i \in 0 .. n : Totals(s)[i] = d * i}
<1>1. Len(s) = n /\ \A i \in 1 .. n : s[i] = d
  OBVIOUS
<1>. HIDE DEF s
<1>2. \A i \in 0 .. n : Totals(s)[i] = IF i = 0 THEN 0 ELSE Totals(s)[i - 1] + s[i]
  BY <1>1, TotalsDef
<1>3. 0 \in G
  <2>1. d * 0 = 0
    OBVIOUS
  <2>. QED
    BY <1>2, <2>1
<1>4. ASSUME NEW i \in 0 .. n - 1, i \in G PROVE i + 1 \in G
  <2>1. i + 1 \in 1 .. n /\ i + 1 - 1 = i /\ i + 1 # 0 /\ i + 1 \in 0 .. n
    OBVIOUS
  <2>2. Totals(s)[i + 1] = d * i + d
    BY <1>1, <1>2, <1>4, <2>1
  <2>3. d * i + d = d * (i + 1)
    OBVIOUS
  <2>. QED
    BY <2>1, <2>2, <2>3
<1>. HIDE DEF G
<1>5. \A i \in 0 .. n : i \in G
  BY <1>3, <1>4, UpTo
<1>6. Totals(s)[n] = d * n
  BY <1>5 DEF G
<1>. QED
  BY <1>1, <1>6 DEF Total, s

\* A sum of zeros.
LEMMA TotalZero ==
  ASSUME NEW s, NEW n \in Nat, Len(s) = n, \A i \in 1 .. n : s[i] = 0
  PROVE  Total(s) = 0
<1>1. /\ Totals(s)[0] = 0 /\ Total(s) = Totals(s)[n]
      /\ \A i \in 0 .. n - 1 : Totals(s)[i + 1] = Totals(s)[i] + s[i + 1]
  BY TotalsNext
<1>. DEFINE G == {i \in 0 .. n : Totals(s)[i] = 0}
<1>2. 0 \in G
  BY <1>1
<1>3. ASSUME NEW i \in 0 .. n - 1, i \in G PROVE i + 1 \in G
  <2>1. i + 1 \in 1 .. n /\ i + 1 \in 0 .. n
    OBVIOUS
  <2>. QED
    BY <1>1, <1>3, <2>1
<1>4. n \in G
  <2>. HIDE DEF G
  <2>1. \A i \in 0 .. n : i \in G
    BY <1>2, <1>3, UpTo
  <2>. QED
    BY <2>1
<1>. QED
  BY <1>1, <1>4

\* No entries, no sum.
LEMMA TotalEmpty == Total(<<>>) = 0
<1>. DEFINE n == 0
            z == <<>>
<1>1. n \in Nat /\ Len(z) = n /\ \A i \in 1 .. n : z[i] = 0
  OBVIOUS
<1>. HIDE DEF n, z
<1>2. Total(z) = 0
  BY <1>1, TotalZero
<1>. QED
  BY <1>2 DEF z

\* Two lists of integers in one, by their lengths.
LEMMA IntConcat ==
  ASSUME NEW a \in Seq(Int), NEW c \in Seq(Int), NEW n, NEW m, Len(a) = n, Len(c) = m
  PROVE  /\ a \o c \in Seq(Int) /\ Len(a \o c) = n + m
         /\ \A i \in 1 .. n + m : (a \o c)[i] = IF i <= n THEN a[i] ELSE c[i - n]
<1>1. /\ a \o c \in Seq(Int) /\ Len(a \o c) = Len(a) + Len(c)
      /\ \A i \in 1 .. Len(a) + Len(c) :
           (a \o c)[i] = IF i <= Len(a) THEN a[i] ELSE c[i - Len(a)]
  BY ConcatProperties
<1>. DEFINE u == a \o c
<1>. HIDE DEF u
<1>2. /\ u \in Seq(Int) /\ Len(u) = n + m
      /\ \A i \in 1 .. n + m : u[i] = IF i <= n THEN a[i] ELSE c[i - n]
  BY <1>1 DEF u
<1>. QED
  BY <1>2 DEF u

\* The sum of f over the entries of a list.
SumOver(f, s) == Total([i \in DOMAIN s |-> f[s[i]]])

\* The sum over a list is that over its two parts.
LEMMA TotalMap ==
  ASSUME NEW S, NEW f \in [S -> Int], NEW s \in Seq(S), NEW t \in Seq(S)
  PROVE  SumOver(f, s \o t) = SumOver(f, s) + SumOver(f, t) /\ SumOver(f, s) \in Int
<1>. DEFINE n == Len(s)
            m == Len(t)
            u == s \o t
            a == [i \in DOMAIN s |-> f[s[i]]]
            c == [i \in DOMAIN t |-> f[t[i]]]
            e == [i \in DOMAIN u |-> f[u[i]]]
<1>1. /\ n \in Nat /\ m \in Nat /\ DOMAIN s = 1 .. n /\ DOMAIN t = 1 .. m
      /\ u \in Seq(S) /\ Len(u) = n + m
      /\ \A i \in 1 .. n + m : u[i] = IF i <= n THEN s[i] ELSE t[i - n]
  BY ConcatProperties
<1>. HIDE DEF u
<1>2. /\ a \in Seq(Int) /\ Len(a) = n /\ \A i \in 1 .. n : a[i] = f[s[i]]
  <2>1. \A i \in 1 .. n : f[s[i]] \in Int
    BY <1>1, ElementOfSeq
  <2>. QED
    BY <1>1, <2>1
<1>3. /\ c \in Seq(Int) /\ Len(c) = m /\ \A i \in 1 .. m : c[i] = f[t[i]]
  <2>1. \A i \in 1 .. m : f[t[i]] \in Int
    BY <1>1, ElementOfSeq
  <2>. QED
    BY <1>1, <2>1
<1>4. /\ e \in Seq(Int) /\ Len(e) = n + m /\ \A i \in 1 .. n + m : e[i] = f[u[i]]
  <2>1. DOMAIN u = 1 .. n + m /\ n + m \in Nat
    BY <1>1
  <2>2. \A i \in 1 .. n + m : f[u[i]] \in Int
    BY <1>1, <2>1, ElementOfSeq
  <2>. QED
    BY <2>1, <2>2
<1>. HIDE DEF a, c, e, n, m
<1>5. /\ a \o c \in Seq(Int) /\ Len(a \o c) = n + m
      /\ \A i \in 1 .. n + m : (a \o c)[i] = IF i <= n THEN a[i] ELSE c[i - n]
  BY <1>2, <1>3, IntConcat
<1>6. ASSUME NEW i \in 1 .. n + m PROVE e[i] = (a \o c)[i]
  <2>1. CASE i <= n
    <3>1. i \in 1 .. n
      BY <1>1, <2>1
    <3>. QED
      BY <1>1, <1>2, <1>4, <1>5, <2>1, <3>1
  <2>2. CASE ~ (i <= n)
    <3>1. i - n \in 1 .. m
      BY <1>1, <2>2
    <3>. QED
      BY <1>1, <1>3, <1>4, <1>5, <2>2, <3>1
  <2>. QED
    BY <2>1, <2>2
<1>7. e = a \o c
  BY <1>4, <1>5, <1>6, SeqEqual
<1>8. Total(e) = Total(a) + Total(c)
  BY <1>2, <1>3, <1>7, TotalConcat
<1>9. Total(a) \in Int
  <2>1. \A i \in 0 .. Len(a) : Totals(a)[i] \in Int
    BY <1>1, <1>2, ElementOfSeq, TotalsType
  <2>. QED
    BY <1>1, <1>2, <2>1 DEF Total
<1>. QED
  BY <1>8, <1>9 DEF SumOver, a, c, e, u

\* The larger and the smaller of two numbers.
LEMMA MaxPair ==
  ASSUME NEW x \in Int, NEW y \in Int
  PROVE  Max({x, y}) = IF x >= y THEN x ELSE y
BY DEF Max

LEMMA MinPair ==
  ASSUME NEW x \in Int, NEW y \in Int
  PROVE  Min({x, y}) = IF x <= y THEN x ELSE y
BY DEF Min

LEMMA PegFeeType ==
  ASSUME NEW a \in Nat
  PROVE  PegFee(a) \in Nat
<1>1. PEG_FEE_PERCENT \in Nat
  BY LedgerAssumption
<1>2. a * PEG_FEE_PERCENT \in Nat
  BY <1>1
<1>. DEFINE p == a * PEG_FEE_PERCENT
<1>. HIDE DEF p
<1>3. p \div 100 \in Nat
  BY <1>2 DEF p
<1>4. PegFee(a) = Max({p \div 100, 1})
  BY DEF PegFee, p
<1>. QED
  BY <1>3, <1>4, MaxPair

\* A coinbase is a natural and never more than the pot.
LEMMA CoinbaseType ==
  ASSUME NEW pot \in Nat, NEW n \in Nat
  PROVE  CoinbaseAmount(pot, n) \in Nat /\ CoinbaseAmount(pot, n) <= pot
<1>1. COINBASE_BASE \in Nat /\ COINBASE_PER_TX \in Nat
  BY LedgerAssumption
<1>2. COINBASE_PER_TX * n \in Nat
  BY <1>1
<1>. DEFINE p == COINBASE_PER_TX * n
<1>. HIDE DEF p
<1>3. COINBASE_BASE + p \in Nat
  BY <1>1, <1>2 DEF p
<1>4. CoinbaseAmount(pot, n) = Min({COINBASE_BASE + p, pot})
  BY DEF CoinbaseAmount, p
<1>. QED
  BY <1>3, <1>4, MinPair

--------------------------------------------------------------------------------
(* Blocks *)

\* The spends of a block are a list of transactions.
LEMMA SpendsType ==
  ASSUME NEW b \in BlockType
  PROVE  Spends(b) \in Seq(TxType)
BY ConcatProperties DEF Spends, BlockType

LEMMA SpentByType ==
  ASSUME NEW txs \in Seq(TxType)
  PROVE  SpentBy(txs) \in SUBSET SpendableNotes
<1>1. ASSUME NEW i \in DOMAIN txs PROVE Inputs[txs[i].spend] \in SUBSET SpendableNotes
  <2>1. txs[i] \in TxType
    BY ElementOfSeq
  <2>. QED
    BY <2>1, LedgerAssumption DEF TxType
<1>. QED
  BY <1>1 DEF SpentBy

\* What a peg-out or a peg-in moves.
LEMMA AmountType ==
  /\ \A s \in Spend : Withdraw[s] \in Nat /\ PegFee(Withdraw[s]) \in Nat
                      /\ BurnValue(s) \in Nat
  /\ \A d \in Deposit : DepositAmount[d] \in Nat /\ PegFee(DepositAmount[d]) \in Nat
<1>1. ASSUME NEW s \in Spend
      PROVE  Withdraw[s] \in Nat /\ PegFee(Withdraw[s]) \in Nat /\ BurnValue(s) \in Nat
  <2>1. Withdraw[s] \in Nat
    BY LedgerAssumption
  <2>2. PegFee(Withdraw[s]) \in Nat
    BY <2>1, PegFeeType
  <2>. QED
    BY <2>1, <2>2 DEF BurnValue
<1>2. ASSUME NEW d \in Deposit
      PROVE  DepositAmount[d] \in Nat /\ PegFee(DepositAmount[d]) \in Nat
  <2>1. DepositAmount[d] \in Nat
    BY LedgerAssumption
  <2>. QED
    BY <2>1, PegFeeType
<1>. QED
  BY <1>1, <1>2

\* The balances after a block are numbers, and the pot pays the coinbase.
LEMMA BalanceType ==
  ASSUME NEW s \in StateType, NEW b \in BlockType
  PROVE  /\ ExpectedCoinbase(s, b) \in Nat
         /\ PotNext(s, b) \in Nat
         /\ ShieldedNext(s, b) \in Int
<1>1. /\ Len(Spends(b)) \in Nat /\ s.pot \in Nat /\ s.shielded_total \in Nat
      /\ b.pegouts \in Seq(TxType) /\ b.pegins \in Seq(Deposit)
  BY SpendsType DEF StateType, BlockType
<1>2. ExpectedCoinbase(s, b) \in Nat /\ ExpectedCoinbase(s, b) <= s.pot
  BY <1>1, CoinbaseType DEF ExpectedCoinbase
<1>3. Fees(b) \in Nat
  BY <1>1, LedgerAssumption DEF Fees
<1>4. ASSUME NEW i \in DOMAIN b.pegouts PROVE b.pegouts[i].spend \in Spend
  <2>1. b.pegouts[i] \in TxType
    BY <1>1, ElementOfSeq
  <2>. QED
    BY <2>1 DEF TxType
<1>5. PegOutFees(b) \in Nat
  <2>1. [i \in DOMAIN b.pegouts |-> PegFee(Withdraw[b.pegouts[i].spend])] \in Seq(Nat)
    BY <1>1, <1>4, AmountType, SMTT(30)
  <2>. QED
    BY <2>1, TotalType DEF PegOutFees
<1>6. BurnTotal(b) \in Nat
  <2>1. \A i \in DOMAIN b.pegouts : BurnValue(b.pegouts[i].spend) \in Nat
    BY <1>4, AmountType
  <2>2. [i \in DOMAIN b.pegouts |-> BurnValue(b.pegouts[i].spend)] \in Seq(Nat)
    BY <1>1, <2>1
  <2>. QED
    BY <2>2, TotalType DEF BurnTotal
<1>7. ASSUME NEW i \in DOMAIN b.pegins PROVE b.pegins[i] \in Deposit
  BY <1>1, ElementOfSeq
<1>8. PegInInflow(b) \in Nat
  <2>1. [i \in DOMAIN b.pegins |-> DepositAmount[b.pegins[i]]] \in Seq(Nat)
    BY <1>1, <1>7, AmountType
  <2>. QED
    BY <2>1, TotalType DEF PegInInflow
<1>9. PegInFees(b) \in Nat
  <2>1. \A i \in DOMAIN b.pegins : PegFee(DepositAmount[b.pegins[i]]) \in Nat
    BY <1>7, AmountType
  <2>2. [i \in DOMAIN b.pegins |-> PegFee(DepositAmount[b.pegins[i]])] \in Seq(Nat)
    BY <1>1, <2>1
  <2>. QED
    BY <2>2, TotalType DEF PegInFees
<1>10. PotNext(s, b) \in Nat
  <2>1. \A p, f, g, h, c \in Nat : c <= p => p + f + g + h - c \in Nat
    OBVIOUS
  <2>. QED
    BY <1>1, <1>2, <1>3, <1>5, <1>9, <2>1 DEF PotNext
<1>11. ShieldedNext(s, b) \in Int
  <2>1. \A t, c, i, f, g, h \in Nat : t + c + (i - f) - (g + h) \in Int
    OBVIOUS
  <2>. QED
    BY <1>1, <1>2, <1>3, <1>6, <1>8, <1>9, <2>1 DEF ShieldedNext
<1>. QED
  BY <1>2, <1>10, <1>11

\* A valid block appends typed leaves.
LEMMA LeavesType ==
  ASSUME NEW s \in StateType, NEW b \in BlockType, ValidBlock(s, b)
  PROVE  /\ OutLeaves(b) \in Seq(LeafType)
         /\ MintLeaves(b) \in Seq(LeafType)
         /\ CoinLeaf(s, b) \in LeafType
<1>1. /\ Spends(b) \in Seq(TxType) /\ Len(Spends(b)) \in Nat
      /\ b.pegins \in Seq(Deposit) /\ s.height \in Nat
  BY SpendsType DEF StateType, BlockType
<1>2. ASSUME NEW k \in 1 .. 2 * Len(Spends(b))
      PROVE  LET t == Spends(b)[(k + 1) \div 2].spend
                 j == IF k % 2 = 1 THEN 1 ELSE 2
             IN Leaf(Out(t, j), OutValue[t][j]) \in LeafType
  <2>. DEFINE t == Spends(b)[(k + 1) \div 2].spend
              j == IF k % 2 = 1 THEN 1 ELSE 2
  <2>1. (k + 1) \div 2 \in 1 .. Len(Spends(b))
    BY <1>1
  <2>2. Spends(b)[(k + 1) \div 2] \in TxType
    BY <1>1, <2>1, ElementOfSeq
  <2>3. t \in Spend /\ j \in 1 .. 2
    BY <2>2 DEF TxType
  <2>. HIDE DEF t, j
  <2>4. Out(t, j) \in SpendableNotes
    BY <2>3 DEF SpendableNotes
  <2>5. OutValue[t][j] \in Nat
    <3>1. OutValue[t] \in Nat \X Nat
      BY <2>3, LedgerAssumption
    <3>2. j = 1 \/ j = 2
      BY <2>3
    <3>. QED
      BY <3>1, <3>2
  <2>6. Leaf(Out(t, j), OutValue[t][j]) \in LeafType
    BY <2>4, <2>5 DEF Leaf, LeafType
  <2>. QED
    BY <2>6 DEF t, j
<1>3. OutLeaves(b) \in Seq(LeafType)
  BY <1>1, <1>2 DEF OutLeaves
<1>4. ASSUME NEW i \in DOMAIN b.pegins
      PROVE  Leaf(Mint(b.pegins[i]), NoteValue(Mint(b.pegins[i]))) \in LeafType
  <2>. DEFINE d == b.pegins[i]
  <2>1. d \in Deposit
    BY <1>1, ElementOfSeq
  <2>2. DepositAmount[d] > PegFee(DepositAmount[d])
    BY DEF ValidBlock, ValidPegIns
  <2>. HIDE DEF d
  <2>3. NoteValue(Mint(d)) = DepositAmount[d] - PegFee(DepositAmount[d])
    BY DEF NoteValue, Mint
  <2>4. NoteValue(Mint(d)) \in Nat
    BY <2>1, <2>2, <2>3, AmountType DEF d
  <2>5. Mint(d) \in SpendableNotes
    BY <2>1 DEF SpendableNotes
  <2>6. Leaf(Mint(d), NoteValue(Mint(d))) \in LeafType
    BY <2>4, <2>5 DEF Leaf, LeafType
  <2>. QED
    BY <2>6 DEF d
<1>5. MintLeaves(b) \in Seq(LeafType)
  BY <1>1, <1>4 DEF MintLeaves
<1>6. CoinLeaf(s, b) \in LeafType
  <2>1. CASE b.coinbase_is_reward
    <3>1. b.coinbase_amount \in Nat
      BY <2>1, BalanceType DEF ValidBlock, ValidReward
    <3>2. Coinbase(s.height) \in {"coinbase"} \X Nat
      BY <1>1 DEF Coinbase
    <3>. QED
      BY <2>1, <3>1, <3>2 DEF CoinLeaf, Leaf, LeafType
  <2>2. CASE ~ b.coinbase_is_reward
    <3>1. s.height < Len(GenesisAlloc) /\ b.coinbase_amount = GenesisAlloc[s.height + 1]
      BY <2>2 DEF ValidBlock, ValidGenesis
    <3>2. s.height + 1 \in DOMAIN GenesisAlloc /\ GenesisAlloc[s.height + 1] \in Nat
      BY <1>1, <3>1, LedgerAssumption
    <3>3. Alloc(s.height + 1) \in SpendableNotes
      BY <3>2 DEF SpendableNotes
    <3>. QED
      BY <2>2, <3>1, <3>2, <3>3 DEF CoinLeaf, Leaf, LeafType
  <2>. QED
    BY <2>1, <2>2
<1>. QED
  BY <1>3, <1>5, <1>6

LEMMA NewLeavesType ==
  ASSUME NEW s \in StateType, NEW b \in BlockType, ValidBlock(s, b)
  PROVE  NewLeaves(s, b) \in Seq(LeafType)
<1>1. <<CoinLeaf(s, b)>> \in Seq(LeafType)
  BY LeavesType
<1>. QED
  BY <1>1, LeavesType, ConcatProperties DEF NewLeaves

\* The window keeps the type of its entries.
LEMMA SlideType ==
  ASSUME NEW S, NEW w \in Seq(S), NEW x \in S, NEW n \in Nat \ {0}
  PROVE  Slide(w, x, n) \in Seq(S)
<1>1. CASE Len(w) = n
  <2>1. w # <<>>
    BY <1>1
  <2>2. Tail(w) \in Seq(S)
    BY <2>1, HeadTailProperties
  <2>. QED
    BY <1>1, <2>2, AppendProperties DEF Slide
<1>2. CASE Len(w) # n
  BY <1>2, AppendProperties DEF Slide
<1>. QED
  BY <1>1, <1>2

\* The withdrawals a block records.
Burns(s, b) ==
  [i \in DOMAIN b.pegouts |->
     [spend |-> b.pegouts[i].spend, amount |-> Withdraw[b.pegouts[i].spend],
      hn_height |-> s.height]]

LEMMA BurnsType ==
  ASSUME NEW s \in StateType, NEW b \in BlockType
  PROVE  Burns(s, b) \in Seq(WithdrawalType)
<1>1. b.pegouts \in Seq(TxType) /\ s.height \in Nat
  BY DEF StateType, BlockType
<1>2. ASSUME NEW i \in DOMAIN b.pegouts
      PROVE  [spend |-> b.pegouts[i].spend, amount |-> Withdraw[b.pegouts[i].spend],
              hn_height |-> s.height] \in WithdrawalType
  <2>1. b.pegouts[i] \in TxType
    BY <1>1, ElementOfSeq
  <2>2. b.pegouts[i].spend \in Spend
    BY <2>1 DEF TxType
  <2>3. Withdraw[b.pegouts[i].spend] \in Nat
    BY <2>2, AmountType
  <2>. QED
    BY <1>1, <2>2, <2>3 DEF WithdrawalType
<1>3. Len(b.pegouts) \in Nat /\ DOMAIN b.pegouts = 1 .. Len(b.pegouts)
  BY <1>1
<1>. QED
  BY <1>2, <1>3 DEF Burns

\* apply_block takes a state to a state when the block is valid.
LEMMA ApplyType ==
  ASSUME NEW s \in StateType, NEW b \in BlockType, ValidBlock(s, b)
  PROVE  ApplyBlock(s, b) \in StateType
<1>. DEFINE leaves == s.tree \o NewLeaves(s, b)
<1>1. leaves \in Seq(LeafType)
  BY NewLeavesType, ConcatProperties DEF StateType
<1>2. s.nullifiers \cup SpentBy(Spends(b)) \in SUBSET SpendableNotes
  BY SpendsType, SpentByType DEF StateType
<1>3. Slide(s.recent_roots, leaves, ROOT_WINDOW) \in Seq(Seq(LeafType))
  BY <1>1, SlideType, LedgerAssumption DEF StateType
<1>4. s.height + 1 \in Nat /\ b.anchor \in Nat
  BY DEF StateType, BlockType
<1>5. Slide(s.daa_view, <<b.timestamp_ms, b.sc_nbits>>, DAA_WINDOW + 1) \in Seq(Nat \X Nat)
  <2>1. <<b.timestamp_ms, b.sc_nbits>> \in Nat \X Nat
    BY DEF BlockType
  <2>2. DAA_WINDOW + 1 \in Nat \ {0}
    BY LedgerAssumption
  <2>3. s.daa_view \in Seq(Nat \X Nat)
    BY DEF StateType
  <2>. QED
    BY <2>1, <2>2, <2>3, SlideType
<1>6. (IF b.coinbase_is_reward THEN PotNext(s, b) ELSE s.pot) \in Nat
  BY BalanceType DEF StateType
<1>7. (IF b.coinbase_is_reward THEN ShieldedNext(s, b)
                               ELSE s.shielded_total + b.coinbase_amount) \in Nat
  <2>1. CASE b.coinbase_is_reward
    BY <2>1, BalanceType DEF ValidBlock, ValidReward
  <2>2. CASE ~ b.coinbase_is_reward
    <3>1. s.height < Len(GenesisAlloc) /\ b.coinbase_amount = GenesisAlloc[s.height + 1]
      BY <2>2 DEF ValidBlock, ValidGenesis
    <3>2. s.height + 1 \in DOMAIN GenesisAlloc /\ GenesisAlloc[s.height + 1] \in Nat
      BY <3>1, LedgerAssumption, SMTT(30) DEF StateType
    <3>. QED
      BY <2>2, <3>1, <3>2 DEF StateType
  <2>. QED
    BY <2>1, <2>2
<1>8. s.used_pegins \cup ToSet(b.pegins) \in SUBSET Deposit
  <2>1. b.pegins \in Seq(Deposit) /\ s.used_pegins \in SUBSET Deposit
    BY DEF StateType, BlockType
  <2>. QED
    BY <2>1, ElementOfSeq DEF ToSet
<1>9. s.pending_withdrawals \o Burns(s, b) \in Seq(WithdrawalType)
  <2>1. s.pending_withdrawals \in Seq(WithdrawalType)
    BY DEF StateType
  <2>. QED
    BY <2>1, BurnsType, ConcatProperties
<1>. QED
  BY <1>1, <1>2, <1>3, <1>4, <1>5, <1>6, <1>7, <1>8, <1>9 DEF ApplyBlock, Burns, StateType

\* next_nbits never asks for less work than one (the floor of the difficulty).
NbitsPositive == \A view \in Seq(Nat \X Nat) : NextNbits(view) \in Nat \ {0}

LEMMA SkeletonType ==
  ASSUME NbitsPositive, NEW s \in StateType, NEW r \in BOOLEAN, NEW txs \in Seq(TxType),
         NEW pegouts \in Seq(TxType), NEW pegins \in Seq(Deposit), NEW anchor \in Nat,
         NEW ts \in Nat
  PROVE  Skeleton(s, r, txs, pegouts, pegins, anchor, ts) \in BlockType
<1>1. /\ s.tree \in Seq(LeafType) /\ s.pot \in Nat /\ s.shielded_total \in Nat
      /\ s.daa_view \in Seq(Nat \X Nat)
  BY DEF StateType
<1>2. ExpectedNbits(s) \in Nat
  BY <1>1 DEF NbitsPositive, ExpectedNbits
<1>. QED
  BY <1>1, <1>2 DEF Skeleton, BlockType

LEMMA AssembleRewardType ==
  ASSUME NbitsPositive, NEW s \in StateType, NEW txs \in Seq(TxType),
         NEW pegouts \in Seq(TxType), NEW pegins \in Seq(Deposit), NEW anchor \in Nat,
         NEW ts \in Nat
  PROVE  AssembleReward(s, txs, pegouts, pegins, anchor, ts) \in BlockType
<1>. DEFINE b == Skeleton(s, TRUE, txs, pegouts, pegins, anchor, ts)
<1>1. b \in BlockType
  BY SkeletonType
<1>. HIDE DEF b
<1>2. /\ ExpectedCoinbase(s, b) \in Int /\ PotNext(s, b) \in Int
      /\ ShieldedNext(s, b) \in Int
  BY <1>1, BalanceType
<1>3. [b EXCEPT !.coinbase_amount = ExpectedCoinbase(s, b),
                !.pot_after = PotNext(s, b),
                !.shielded_after = ShieldedNext(s, b)] \in BlockType
  BY <1>1, <1>2 DEF BlockType
<1>. QED
  BY <1>3 DEF AssembleReward, b

LEMMA AssembleGenesisType ==
  ASSUME NbitsPositive, NEW s \in StateType, s.height < Len(GenesisAlloc), NEW ts \in Nat
  PROVE  AssembleGenesis(s, ts) \in BlockType
<1>. DEFINE b == Skeleton(s, FALSE, <<>>, <<>>, <<>>, 0, ts)
            g == GenesisAlloc[s.height + 1]
<1>1. b \in BlockType
  <2>1. <<>> \in Seq(TxType) /\ <<>> \in Seq(Deposit) /\ FALSE \in BOOLEAN /\ 0 \in Nat
    OBVIOUS
  <2>. QED
    BY <2>1, SkeletonType
<1>2. g \in Nat
  <2>1. s.height + 1 \in 1 .. Len(GenesisAlloc) /\ GenesisAlloc \in Seq(Nat)
    BY LedgerAssumption, SMTT(30) DEF StateType
  <2>. QED
    BY <2>1, ElementOfSeq
<1>. HIDE DEF b, g
<1>3. [b EXCEPT !.coinbase_amount = g, !.shielded_after = @ + g] \in BlockType
  <2>1. b.shielded_after + g \in Int
    BY <1>1, <1>2 DEF BlockType
  <2>2. ASSUME NEW x \in Int, NEW y \in Int
        PROVE  [b EXCEPT !.coinbase_amount = x, !.shielded_after = y] \in BlockType
    BY <1>1 DEF BlockType
  <2>3. [b EXCEPT !.coinbase_amount = g, !.shielded_after = @ + g]
          = [b EXCEPT !.coinbase_amount = g, !.shielded_after = b.shielded_after + g]
    OBVIOUS
  <2>4. g \in Int
    BY <1>2
  <2>. QED
    BY <2>1, <2>2, <2>3, <2>4
<1>. QED
  BY <1>3 DEF AssembleGenesis, b, g

LEMMA NewStateType == NewState \in StateType
<1>1. << <<>> >> \in Seq(Seq(LeafType))
  OBVIOUS
<1>. QED
  BY <1>1, LedgerAssumption DEF NewState, StateType

--------------------------------------------------------------------------------
(* Rollback *)

\* A list cut back to its first half.
LEMMA CutBack ==
  ASSUME NEW S, NEW s \in Seq(S), NEW t \in Seq(S)
  PROVE  SubSeq(s \o t, 1, Len(s)) = s
<1>. DEFINE u == SubSeq(s \o t, 1, Len(s))
<1>1. /\ s \o t \in Seq(S) /\ Len(s) \in Nat
      /\ \A i \in 1 .. Len(s) : (s \o t)[i] = s[i] /\ s[i] \in S
  BY ConcatProperties, ElementOfSeq
<1>2. u \in Seq(S) /\ Len(u) = Len(s) /\ \A i \in 1 .. Len(s) : u[i] = s[i]
  <2>1. \A i \in 1 .. Len(s) : (s \o t)[i] \in S
    BY <1>1
  <2>2. 1 \in Int /\ Len(s) \in Int
    BY <1>1
  <2>3. /\ u \in Seq(S) /\ Len(u) = IF 1 <= Len(s) THEN Len(s) - 1 + 1 ELSE 0
        /\ \A i \in 1 .. Len(s) - 1 + 1 : u[i] = (s \o t)[1 + i - 1]
    BY <2>1, <2>2, SubSeqProperties
  <2>. QED
    BY <1>1, <2>3
<1>. HIDE DEF u
<1>3. u = s
  BY <1>2, SeqEqual
<1>. QED
  BY <1>3 DEF u

\* A list without the entry appended last.
LEMMA FrontAppend ==
  ASSUME NEW S, NEW s \in Seq(S), NEW x \in S
  PROVE  /\ Front(Append(s, x)) = s
         /\ Last(Append(s, x)) = x
         /\ Append(s, x) # <<>>
<1>1. <<x>> \in Seq(S) /\ Append(s, x) = s \o <<x>>
  BY AppendIsConcat
<1>2. SubSeq(s \o <<x>>, 1, Len(s)) = s
  BY <1>1, CutBack
<1>3. /\ Len(Append(s, x)) = Len(s) + 1 /\ Append(s, x)[Len(s) + 1] = x
      /\ Len(s) \in Nat
  BY AppendProperties
<1>. QED
  BY <1>1, <1>2, <1>3 DEF Front, Last

\* What slid out of a window goes back in front.
LEMMA SlideBack ==
  ASSUME NEW S, NEW w \in Seq(S), NEW x \in S, NEW n \in Nat \ {0}
  PROVE  Evicted(w, n) \o Front(Slide(w, x, n)) = w
<1>1. CASE Len(w) = n
  <2>1. w # <<>>
    BY <1>1
  <2>2. Tail(w) \in Seq(S) /\ Head(w) \in S
    BY <2>1, HeadTailProperties
  <2>3. Front(Append(Tail(w), x)) = Tail(w)
    BY <2>2, FrontAppend
  <2>4. <<Head(w)>> \o Tail(w) = w
    BY <2>1
  <2>. QED
    BY <1>1, <2>3, <2>4 DEF Slide, Evicted
<1>2. CASE Len(w) # n
  <2>1. Front(Append(w, x)) = w
    BY FrontAppend
  <2>2. <<>> \o w = w
    BY ConcatEmptySeq
  <2>. QED
    BY <1>2, <2>1, <2>2 DEF Slide, Evicted
<1>. QED
  BY <1>1, <1>2

\* rollback with the undo record of a valid block gives the state back, whole.
LEMMA RollbackUndoes ==
  ASSUME NEW s \in StateType, NEW b \in BlockType, ValidBlock(s, b)
  PROVE  Rollback(ApplyBlock(s, b), UndoOf(s, b)) = s
<1>. DEFINE a == ApplyBlock(s, b)
            u == UndoOf(s, b)
<1>1. SubSeq(a.tree, 1, u.leaf_count) = s.tree
  BY NewLeavesType, CutBack DEF StateType, ApplyBlock, UndoOf
<1>2. a.nullifiers \ u.added_nullifiers = s.nullifiers
  <2>1. SpentBy(Spends(b)) \cap s.nullifiers = {}
    BY DEF SpentBy, ValidBlock, ValidSpends, ValidateTx
  <2>. QED
    BY <2>1 DEF ApplyBlock, UndoOf
<1>3. u.evicted_root \o Front(a.recent_roots) = s.recent_roots
  <2>1. s.tree \o NewLeaves(s, b) \in Seq(LeafType)
    BY NewLeavesType, ConcatProperties DEF StateType
  <2>2. s.recent_roots \in Seq(Seq(LeafType)) /\ ROOT_WINDOW \in Nat \ {0}
    BY LedgerAssumption DEF StateType
  <2>. QED
    BY <2>1, <2>2, SlideBack, ZenonT(30) DEF ApplyBlock, UndoOf
<1>4. u.evicted_daa \o Front(a.daa_view) = s.daa_view
  <2>1. <<b.timestamp_ms, b.sc_nbits>> \in Nat \X Nat
    BY DEF BlockType
  <2>2. s.daa_view \in Seq(Nat \X Nat) /\ DAA_WINDOW + 1 \in Nat \ {0}
    BY LedgerAssumption DEF StateType
  <2>. QED
    <3>1. Evicted(s.daa_view, DAA_WINDOW + 1)
            \o Front(Slide(s.daa_view, <<b.timestamp_ms, b.sc_nbits>>, DAA_WINDOW + 1))
          = s.daa_view
      BY <2>1, <2>2, SlideBack
    <3>. QED
      BY <3>1 DEF ApplyBlock, UndoOf
<1>5. a.used_pegins \ u.added_pegins = s.used_pegins
  <2>1. ToSet(b.pegins) \cap s.used_pegins = {}
    BY DEF ToSet, ValidBlock, ValidPegIns
  <2>. QED
    BY <2>1 DEF ApplyBlock, UndoOf
<1>6. SubSeq(a.pending_withdrawals, 1, u.withdrawal_count) = s.pending_withdrawals
  <2>1. /\ a.pending_withdrawals = s.pending_withdrawals \o Burns(s, b)
        /\ u.withdrawal_count = Len(s.pending_withdrawals)
    BY DEF ApplyBlock, UndoOf, Burns
  <2>2. s.pending_withdrawals \in Seq(WithdrawalType)
    BY DEF StateType
  <2>. QED
    BY <2>1, <2>2, BurnsType, CutBack
<1>7. /\ u.height = s.height /\ u.anchor_height = s.anchor_height /\ u.pot = s.pot
      /\ u.shielded_total = s.shielded_total
  BY DEF UndoOf
<1>. HIDE DEF a, u
<1>8. Rollback(a, u) = s
  BY <1>1, <1>2, <1>3, <1>4, <1>5, <1>6, <1>7 DEF Rollback, StateType
<1>. QED
  BY <1>8 DEF a, u

--------------------------------------------------------------------------------
(* Notes *)

\* No note is in the tree twice, and why the next block cannot bring it again: a
\* spend that landed left its inputs spent, a deposit that was minted is marked
\* used, and the coinbase and the allocations are numbered by height.
NotesOk(s) ==
  /\ \A i, j \in DOMAIN s.tree : s.tree[i].note = s.tree[j].note => i = j
  /\ s.nullifiers \subseteq Notes(s.tree)
  /\ \A d \in Deposit : d \in s.used_pegins <=> Mint(d) \in Notes(s.tree)
  /\ \A t \in Spend, j \in 1 .. 2 :
       Out(t, j) \in Notes(s.tree) => Inputs[t] \subseteq s.nullifiers
  /\ \A h \in Nat : Coinbase(h) \in Notes(s.tree) => h < s.height
  /\ \A h \in Nat : Alloc(h) \in Notes(s.tree) => h <= s.height
  /\ \A i \in DOMAIN s.recent_roots : Notes(s.recent_roots[i]) \subseteq Notes(s.tree)

\* Notes of different kinds differ, and a note says where it comes from.
LEMMA NotesDiffer ==
  /\ \A t, j, u, k : Out(t, j) = Out(u, k) => t = u /\ j = k
  /\ \A d, e : Mint(d) = Mint(e) => d = e
  /\ \A h, k : Coinbase(h) = Coinbase(k) => h = k
  /\ \A h, k : Alloc(h) = Alloc(k) => h = k
  /\ \A t, j, d : Out(t, j) # Mint(d)
  /\ \A t, j, h : Out(t, j) # Coinbase(h)
  /\ \A t, j, h : Out(t, j) # Alloc(h)
  /\ \A d, h : Mint(d) # Coinbase(h)
  /\ \A d, h : Mint(d) # Alloc(h)
  /\ \A h, k : Coinbase(h) # Alloc(k)
<1>1. /\ \A t, j : Out(t, j)[1] = "out" /\ Out(t, j)[2] = t /\ Out(t, j)[3] = j
      /\ \A d : Mint(d)[1] = "mint" /\ Mint(d)[2] = d
      /\ \A h : Coinbase(h)[1] = "coinbase" /\ Coinbase(h)[2] = h
      /\ \A h : Alloc(h)[1] = "alloc" /\ Alloc(h)[2] = h
  BY DEF Out, Mint, Coinbase, Alloc
<1>2. /\ "out" # "mint" /\ "out" # "coinbase" /\ "out" # "alloc"
      /\ "mint" # "coinbase" /\ "mint" # "alloc" /\ "coinbase" # "alloc"
  OBVIOUS
<1>. QED
  BY <1>1, <1>2

\* A spend consumes something.
LEMMA InputsNonempty == \A s \in Spend : Inputs[s] # {}
<1>. SUFFICES ASSUME NEW s \in Spend PROVE Inputs[s] # {}
  OBVIOUS
<1>1. Cardinality(Inputs[s]) = 2
  BY LedgerAssumption
<1>2. Cardinality({}) = 0
  BY FS_EmptySet
<1>. QED
  BY <1>1, <1>2

LEMMA NotesConcat ==
  ASSUME NEW S, NEW s \in Seq(S), NEW t \in Seq(S)
  PROVE  Notes(s \o t) = Notes(s) \cup Notes(t)
<1>1. /\ Len(s) \in Nat /\ Len(t) \in Nat /\ DOMAIN s = 1 .. Len(s)
      /\ DOMAIN t = 1 .. Len(t) /\ DOMAIN (s \o t) = 1 .. Len(s) + Len(t)
      /\ \A i \in 1 .. Len(s) + Len(t) :
           (s \o t)[i] = IF i <= Len(s) THEN s[i] ELSE t[i - Len(s)]
  BY ConcatProperties
<1>2. ASSUME NEW i \in DOMAIN (s \o t) PROVE (s \o t)[i].note \in Notes(s) \cup Notes(t)
  <2>1. CASE i <= Len(s)
    <3>1. (s \o t)[i] = s[i] /\ i \in DOMAIN s
      BY <1>1, <2>1
    <3>. QED
      BY <3>1 DEF Notes
  <2>2. CASE ~ (i <= Len(s))
    <3>1. (s \o t)[i] = t[i - Len(s)] /\ i - Len(s) \in DOMAIN t
      BY <1>1, <2>2
    <3>. QED
      BY <3>1 DEF Notes
  <2>. QED
    BY <2>1, <2>2
<1>3. ASSUME NEW i \in DOMAIN s PROVE s[i].note \in Notes(s \o t)
  <2>1. i \in DOMAIN (s \o t) /\ (s \o t)[i] = s[i]
    BY <1>1
  <2>. QED
    BY <2>1 DEF Notes
<1>4. ASSUME NEW i \in DOMAIN t PROVE t[i].note \in Notes(s \o t)
  <2>1. /\ Len(s) + i \in DOMAIN (s \o t) /\ (s \o t)[Len(s) + i] = t[i]
    BY <1>1
  <2>. QED
    BY <2>1 DEF Notes
<1>. QED
  BY <1>2, <1>3, <1>4 DEF Notes

\* The spends of a valid block differ, none is in the tree, and each consumes
\* notes of the tree that are not spent.
LEMMA SpendsFresh ==
  ASSUME NEW s \in StateType, NEW b \in BlockType, ValidBlock(s, b), NotesOk(s)
  PROVE  /\ \A i \in DOMAIN Spends(b) : /\ Spends(b)[i].spend \in Spend
                                       /\ \A j \in 1 .. 2 :
                                            Out(Spends(b)[i].spend, j) \notin Notes(s.tree)
         /\ \A i, j \in DOMAIN Spends(b) :
              Spends(b)[i].spend = Spends(b)[j].spend => i = j
         /\ SpentBy(Spends(b)) \subseteq Notes(s.tree)
<1>. DEFINE all == Spends(b)
<1>1. all \in Seq(TxType) /\ Len(all) \in Nat /\ DOMAIN all = 1 .. Len(all)
  BY SpendsType
<1>2. ASSUME NEW i \in DOMAIN all
      PROVE  /\ all[i].spend \in Spend
             /\ all[i].root \in ToSet(s.recent_roots)
             /\ Inputs[all[i].spend] \cap s.nullifiers = {}
             /\ Inputs[all[i].spend] \cap SpentBy(SubSeq(all, 1, i - 1)) = {}
             /\ Inputs[all[i].spend] \subseteq Notes(all[i].root)
  <2>1. all[i] \in TxType
    BY <1>1, ElementOfSeq
  <2>2. ValidateTx(s, all[i], SpentBy(SubSeq(all, 1, i - 1)))
    BY DEF ValidBlock, ValidSpends
  <2>. QED
    BY <2>1, <2>2 DEF ValidateTx, CircuitVerifies, TxType
<1>. HIDE DEF all
<1>3. ASSUME NEW i \in DOMAIN all, NEW j \in 1 .. 2, Out(all[i].spend, j) \in Notes(s.tree)
      PROVE  FALSE
  <2>1. Inputs[all[i].spend] \subseteq s.nullifiers
    BY <1>2, <1>3 DEF NotesOk
  <2>. QED
    BY <1>2, <2>1, InputsNonempty
<1>4. ASSUME NEW i \in DOMAIN all, NEW j \in DOMAIN all, i < j
      PROVE  all[i].spend # all[j].spend
  <2>. DEFINE before == SubSeq(all, 1, j - 1)
  <2>1. i \in DOMAIN before /\ before[i] = all[i]
    <3>1. \A k \in 1 .. j - 1 : all[k] \in TxType
      BY <1>1, ElementOfSeq
    <3>2. /\ before \in Seq(TxType) /\ Len(before) = IF 1 <= j - 1 THEN j - 1 - 1 + 1 ELSE 0
          /\ \A k \in 1 .. j - 1 - 1 + 1 : before[k] = all[1 + k - 1]
      BY <1>1, <3>1, SubSeqProperties
    <3>3. i \in 1 .. j - 1 /\ j - 1 - 1 + 1 = j - 1 /\ 1 <= j - 1 /\ 1 + i - 1 = i
      BY <1>1, <1>4
    <3>. QED
      BY <3>2, <3>3
  <2>2. Inputs[all[i].spend] \subseteq SpentBy(before)
    BY <2>1 DEF SpentBy
  <2>. QED
    BY <1>2, <2>2, InputsNonempty
<1>5. ASSUME NEW i \in DOMAIN all PROVE Inputs[all[i].spend] \subseteq Notes(s.tree)
  <2>1. PICK k \in DOMAIN s.recent_roots : s.recent_roots[k] = all[i].root
    BY <1>2 DEF ToSet
  <2>2. Notes(all[i].root) \subseteq Notes(s.tree)
    BY <2>1 DEF NotesOk
  <2>. QED
    BY <1>2, <2>2
<1>6. SpentBy(all) \subseteq Notes(s.tree)
  BY <1>5 DEF SpentBy
<1>7. ASSUME NEW i \in DOMAIN all, NEW j \in DOMAIN all, all[i].spend = all[j].spend
      PROVE  i = j
  <2>1. i \in Int /\ j \in Int
    BY <1>1
  <2>2. ~ (i < j) /\ ~ (j < i)
    BY <1>4, <1>7
  <2>. QED
    BY <2>1, <2>2
<1>. QED
  BY <1>2, <1>3, <1>6, <1>7 DEF all

\* The note of the i-th leaf of a block.
LeafNote(s, b, i) ==
  LET k == Len(Spends(b))
      p == Len(b.pegins)
  IN IF i <= 2 * k THEN Out(Spends(b)[(i + 1) \div 2].spend, IF i % 2 = 1 THEN 1 ELSE 2)
     ELSE IF i <= 2 * k + p THEN Mint(b.pegins[i - 2 * k])
     ELSE IF b.coinbase_is_reward THEN Coinbase(s.height)
     ELSE Alloc(s.height + 1)

LEMMA NewLeavesAre ==
  ASSUME NEW s \in StateType, NEW b \in BlockType, ValidBlock(s, b)
  PROVE  /\ Len(NewLeaves(s, b)) = 2 * Len(Spends(b)) + Len(b.pegins) + 1
         /\ DOMAIN NewLeaves(s, b) = 1 .. 2 * Len(Spends(b)) + Len(b.pegins) + 1
         /\ \A i \in DOMAIN NewLeaves(s, b) : NewLeaves(s, b)[i].note = LeafNote(s, b, i)
<1>. DEFINE k == Len(Spends(b))
            p == Len(b.pegins)
            outs == OutLeaves(b)
            mints == MintLeaves(b)
            coin == CoinLeaf(s, b)
<1>1. k \in Nat /\ p \in Nat /\ b.pegins \in Seq(Deposit) /\ DOMAIN b.pegins = 1 .. p
  <2>1. b.pegins \in Seq(Deposit) /\ Spends(b) \in Seq(TxType)
    BY SpendsType DEF BlockType
  <2>. QED
    BY <2>1
<1>2. outs \in Seq(LeafType) /\ Len(outs) = 2 * k
  BY <1>1, LeavesType DEF OutLeaves
<1>3. mints \in Seq(LeafType) /\ Len(mints) = p
  <2>1. DOMAIN mints = 1 .. p /\ mints \in Seq(LeafType)
    BY <1>1, LeavesType DEF MintLeaves
  <2>. QED
    BY <1>1, <2>1
<1>4. <<coin>> \in Seq(LeafType) /\ Len(<<coin>>) = 1 /\ <<coin>>[1] = coin
  BY LeavesType
<1>5. NewLeaves(s, b) = outs \o mints \o <<coin>>
  BY DEF NewLeaves
<1>6. \A i \in 1 .. 2 * k :
        outs[i].note = Out(Spends(b)[(i + 1) \div 2].spend, IF i % 2 = 1 THEN 1 ELSE 2)
  BY DEF Leaf, OutLeaves
<1>7. \A i \in 1 .. p : mints[i].note = Mint(b.pegins[i])
  BY <1>1 DEF Leaf, MintLeaves
<1>8. coin.note = IF b.coinbase_is_reward THEN Coinbase(s.height) ELSE Alloc(s.height + 1)
  BY DEF Leaf, CoinLeaf
<1>. DEFINE q == 2 * k
            both == outs \o mints
<1>9. q \in Nat
  BY <1>1
<1>10. Len(outs) = q /\ \A i \in 1 .. q :
         outs[i].note = Out(Spends(b)[(i + 1) \div 2].spend, IF i % 2 = 1 THEN 1 ELSE 2)
  BY <1>2, <1>6
<1>. HIDE DEF outs, mints, coin, p, q
<1>11. /\ both \in Seq(LeafType) /\ Len(both) = q + p
       /\ \A i \in 1 .. q + p : both[i] = IF i <= q THEN outs[i] ELSE mints[i - q]
  BY <1>2, <1>3, <1>10, ConcatProperties
<1>. HIDE DEF both
<1>12. /\ Len(NewLeaves(s, b)) = q + p + 1
       /\ \A i \in 1 .. q + p + 1 :
            NewLeaves(s, b)[i] = IF i <= q + p THEN both[i] ELSE <<coin>>[i - (q + p)]
  <2>1. /\ Len(both \o <<coin>>) = Len(both) + Len(<<coin>>)
        /\ \A i \in 1 .. Len(both) + Len(<<coin>>) :
             (both \o <<coin>>)[i] = IF i <= Len(both) THEN both[i] ELSE <<coin>>[i - Len(both)]
    BY <1>4, <1>11, ConcatProperties
  <2>2. NewLeaves(s, b) = both \o <<coin>>
    BY <1>5 DEF both
  <2>3. Len(both) + Len(<<coin>>) = q + p + 1
    BY <1>1, <1>4, <1>9, <1>11
  <2>. QED
    BY <1>11, <2>1, <2>2, <2>3
<1>13. ASSUME NEW i \in 1 .. q + p + 1
       PROVE  NewLeaves(s, b)[i].note = LeafNote(s, b, i)
  <2>0. LeafNote(s, b, i) =
          IF i <= q THEN Out(Spends(b)[(i + 1) \div 2].spend, IF i % 2 = 1 THEN 1 ELSE 2)
          ELSE IF i <= q + p THEN Mint(b.pegins[i - q])
          ELSE IF b.coinbase_is_reward THEN Coinbase(s.height)
          ELSE Alloc(s.height + 1)
    BY DEF LeafNote, q, p
  <2>1. CASE i <= q
    <3>1. i \in 1 .. q /\ i \in 1 .. q + p /\ i <= q + p
      BY <1>1, <1>9, <2>1
    <3>2. NewLeaves(s, b)[i] = outs[i]
      BY <1>11, <1>12, <2>1, <3>1
    <3>. QED
      BY <1>10, <2>0, <2>1, <3>1, <3>2
  <2>2. CASE ~ (i <= q) /\ i <= q + p
    <3>1. i - q \in 1 .. p /\ i \in 1 .. q + p
      BY <1>1, <1>9, <2>2
    <3>2. NewLeaves(s, b)[i] = mints[i - q]
      BY <1>11, <1>12, <2>2, <3>1
    <3>. QED
      BY <1>7, <2>0, <2>2, <3>1, <3>2
  <2>3. CASE ~ (i <= q + p)
    <3>1. i - (q + p) = 1 /\ ~ (i <= q)
      BY <1>1, <1>9, <2>3
    <3>2. NewLeaves(s, b)[i] = coin
      BY <1>4, <1>12, <2>3, <3>1
    <3>. QED
      BY <1>8, <2>0, <2>3, <3>1, <3>2
  <2>. QED
    BY <2>1, <2>2, <2>3
<1>14. DOMAIN NewLeaves(s, b) = 1 .. q + p + 1
  BY <1>12, NewLeavesType
<1>. QED
  BY <1>12, <1>13, <1>14 DEF q, p

\* The leaves of a block, by kind.
LEMMA LeafNoteCases ==
  ASSUME NEW s \in StateType, NEW b \in BlockType, ValidBlock(s, b),
         NEW i \in DOMAIN NewLeaves(s, b)
  PROVE  \/ /\ i <= 2 * Len(Spends(b))
            /\ (i + 1) \div 2 \in DOMAIN Spends(b)
            /\ LeafNote(s, b, i) = Out(Spends(b)[(i + 1) \div 2].spend,
                                      IF i % 2 = 1 THEN 1 ELSE 2)
         \/ /\ i - 2 * Len(Spends(b)) \in DOMAIN b.pegins
            /\ LeafNote(s, b, i) = Mint(b.pegins[i - 2 * Len(Spends(b))])
         \/ /\ i = 2 * Len(Spends(b)) + Len(b.pegins) + 1
            /\ LeafNote(s, b, i) = CoinLeaf(s, b).note
<1>. DEFINE k == Len(Spends(b))
            p == Len(b.pegins)
<1>1. /\ k \in Nat /\ p \in Nat /\ DOMAIN b.pegins = 1 .. p /\ DOMAIN Spends(b) = 1 .. k
  <2>1. b.pegins \in Seq(Deposit) /\ Spends(b) \in Seq(TxType)
    BY SpendsType DEF BlockType
  <2>. QED
    BY <2>1
<1>2. i \in 1 .. 2 * k + p + 1
  BY NewLeavesAre
<1>3. LeafNote(s, b, i) =
          IF i <= 2 * k THEN Out(Spends(b)[(i + 1) \div 2].spend, IF i % 2 = 1 THEN 1 ELSE 2)
          ELSE IF i <= 2 * k + p THEN Mint(b.pegins[i - 2 * k])
          ELSE CoinLeaf(s, b).note
  BY DEF LeafNote, CoinLeaf, Leaf
<1>. HIDE DEF k, p
<1>4. CASE i <= 2 * k
  <2>1. (i + 1) \div 2 \in 1 .. k
    BY <1>1, <1>2, <1>4
  <2>. QED
    BY <1>1, <1>3, <1>4, <2>1 DEF k
<1>5. CASE ~ (i <= 2 * k) /\ i <= 2 * k + p
  <2>1. i - 2 * k \in 1 .. p
    BY <1>1, <1>2, <1>5
  <2>. QED
    BY <1>1, <1>3, <1>5, <2>1 DEF k
<1>6. CASE ~ (i <= 2 * k + p)
  <2>1. i = 2 * k + p + 1 /\ ~ (i <= 2 * k)
    BY <1>1, <1>2, <1>6
  <2>. QED
    BY <1>3, <1>6, <2>1 DEF k, p
<1>. QED
  BY <1>4, <1>5, <1>6

\* The notes a block brings.
LEMMA NewNotes ==
  ASSUME NEW s \in StateType, NEW b \in BlockType, ValidBlock(s, b), NEW x
  PROVE  x \in Notes(NewLeaves(s, b)) <=>
           \/ \E c \in DOMAIN Spends(b), j \in 1 .. 2 : x = Out(Spends(b)[c].spend, j)
           \/ \E m \in DOMAIN b.pegins : x = Mint(b.pegins[m])
           \/ x = CoinLeaf(s, b).note
<1>. DEFINE k == Len(Spends(b))
            p == Len(b.pegins)
            L == NewLeaves(s, b)
<1>1. /\ k \in Nat /\ p \in Nat /\ DOMAIN b.pegins = 1 .. p /\ DOMAIN Spends(b) = 1 .. k
  <2>1. b.pegins \in Seq(Deposit) /\ Spends(b) \in Seq(TxType)
    BY SpendsType DEF BlockType
  <2>. QED
    BY <2>1
<1>2. /\ DOMAIN L = 1 .. 2 * k + p + 1
      /\ \A i \in DOMAIN L : L[i].note = LeafNote(s, b, i)
  BY NewLeavesAre
<1>3. x \in Notes(L) <=> \E i \in DOMAIN L : x = LeafNote(s, b, i)
  BY <1>2 DEF Notes
<1>4. \A i \in 1 .. 2 * k + p + 1 : LeafNote(s, b, i) =
          IF i <= 2 * k THEN Out(Spends(b)[(i + 1) \div 2].spend, IF i % 2 = 1 THEN 1 ELSE 2)
          ELSE IF i <= 2 * k + p THEN Mint(b.pegins[i - 2 * k])
          ELSE CoinLeaf(s, b).note
  BY DEF LeafNote, CoinLeaf, Leaf
<1>5. ASSUME NEW i \in DOMAIN L, x = LeafNote(s, b, i)
      PROVE  \/ \E c \in DOMAIN Spends(b), j \in 1 .. 2 : x = Out(Spends(b)[c].spend, j)
             \/ \E m \in DOMAIN b.pegins : x = Mint(b.pegins[m])
             \/ x = CoinLeaf(s, b).note
  <2>1. (IF i % 2 = 1 THEN 1 ELSE 2) \in 1 .. 2
    OBVIOUS
  <2>. QED
    BY <1>5, <2>1, LeafNoteCases
<1>. HIDE DEF k, p, L
<1>6. ASSUME NEW c \in DOMAIN Spends(b), NEW j \in 1 .. 2, x = Out(Spends(b)[c].spend, j)
      PROVE  \E i \in DOMAIN L : x = LeafNote(s, b, i)
  <2>. DEFINE i == 2 * c - 2 + j
  <2>1. /\ i \in 1 .. 2 * k + p + 1 /\ i <= 2 * k /\ (i + 1) \div 2 = c
        /\ (IF i % 2 = 1 THEN 1 ELSE 2) = j
    <3>1. c \in 1 .. k
      BY <1>1
    <3>2. CASE j = 1
      BY <1>1, <3>1, <3>2
    <3>3. CASE j = 2
      BY <1>1, <3>1, <3>3
    <3>. QED
      BY <3>2, <3>3
  <2>. HIDE DEF i
  <2>. QED
    BY <1>2, <1>4, <1>6, <2>1
<1>7. ASSUME NEW m \in DOMAIN b.pegins, x = Mint(b.pegins[m])
      PROVE  \E i \in DOMAIN L : x = LeafNote(s, b, i)
  <2>. DEFINE i == 2 * k + m
  <2>1. /\ i \in 1 .. 2 * k + p + 1 /\ ~ (i <= 2 * k) /\ i <= 2 * k + p
        /\ i - 2 * k = m
    BY <1>1
  <2>. HIDE DEF i
  <2>2. LeafNote(s, b, i) = Mint(b.pegins[i - 2 * k])
    BY <1>4, <2>1
  <2>. QED
    BY <1>2, <1>7, <2>1, <2>2
<1>8. ASSUME x = CoinLeaf(s, b).note
      PROVE  \E i \in DOMAIN L : x = LeafNote(s, b, i)
  <2>1. /\ 2 * k + p + 1 \in 1 .. 2 * k + p + 1 /\ ~ (2 * k + p + 1 <= 2 * k)
        /\ ~ (2 * k + p + 1 <= 2 * k + p)
    BY <1>1
  <2>2. LeafNote(s, b, 2 * k + p + 1) = CoinLeaf(s, b).note
    BY <1>4, <2>1
  <2>. QED
    BY <1>2, <1>8, <2>1, <2>2
<1>. QED
  BY <1>3, <1>5, <1>6, <1>7, <1>8 DEF L

\* No two leaves of a block are the same note, and none is in the tree.
LEMMA LeavesFresh ==
  ASSUME NEW s \in StateType, NEW b \in BlockType, ValidBlock(s, b), NotesOk(s)
  PROVE  /\ \A i, j \in DOMAIN NewLeaves(s, b) :
              LeafNote(s, b, i) = LeafNote(s, b, j) => i = j
         /\ \A i \in DOMAIN NewLeaves(s, b) : LeafNote(s, b, i) \notin Notes(s.tree)
<1>. DEFINE k == Len(Spends(b))
            p == Len(b.pegins)
            L == NewLeaves(s, b)
            odd(i) == IF i % 2 = 1 THEN 1 ELSE 2
            A(i) == /\ i <= 2 * k
                    /\ (i + 1) \div 2 \in DOMAIN Spends(b)
                    /\ LeafNote(s, b, i) = Out(Spends(b)[(i + 1) \div 2].spend, odd(i))
            B(i) == /\ i - 2 * k \in DOMAIN b.pegins
                    /\ LeafNote(s, b, i) = Mint(b.pegins[i - 2 * k])
            C(i) == /\ i = 2 * k + p + 1
                    /\ LeafNote(s, b, i) = CoinLeaf(s, b).note
<1>1. /\ b.pegins \in Seq(Deposit) /\ k \in Nat /\ p \in Nat /\ DOMAIN b.pegins = 1 .. p
      /\ s.height \in Nat
  <2>1. b.pegins \in Seq(Deposit) /\ Spends(b) \in Seq(TxType) /\ s.height \in Nat
    BY SpendsType DEF BlockType, StateType
  <2>. QED
    BY <2>1
<1>2. \A i \in DOMAIN L : i \in Nat /\ (A(i) \/ B(i) \/ C(i))
  <2>1. \A i \in DOMAIN L : i \in Nat
    BY NewLeavesType
  <2>. QED
    BY <2>1, LeafNoteCases
<1>3. \/ CoinLeaf(s, b).note = Coinbase(s.height)
      \/ CoinLeaf(s, b).note = Alloc(s.height + 1)
  BY DEF CoinLeaf, Leaf
<1>4. \A m, n \in DOMAIN b.pegins : b.pegins[m] = b.pegins[n] => m = n
  <2>1. ASSUME NEW m \in DOMAIN b.pegins, NEW n \in DOMAIN b.pegins, m < n
        PROVE  b.pegins[m] # b.pegins[n]
    <3>. DEFINE before == SubSeq(b.pegins, 1, n - 1)
    <3>1. m \in DOMAIN before /\ before[m] = b.pegins[m]
      <4>1. \A l \in 1 .. n - 1 : b.pegins[l] \in Deposit
        BY <1>1, ElementOfSeq
      <4>2. /\ before \in Seq(Deposit)
            /\ Len(before) = IF 1 <= n - 1 THEN n - 1 - 1 + 1 ELSE 0
            /\ \A l \in 1 .. n - 1 - 1 + 1 : before[l] = b.pegins[1 + l - 1]
        BY <1>1, <4>1, SubSeqProperties
      <4>3. m \in 1 .. n - 1 /\ n - 1 - 1 + 1 = n - 1 /\ 1 <= n - 1 /\ 1 + m - 1 = m
        BY <1>1, <2>1
      <4>. QED
        BY <4>2, <4>3
    <3>2. b.pegins[n] \notin ToSet(before)
      BY DEF ValidBlock, ValidPegIns
    <3>. QED
      BY <3>1, <3>2 DEF ToSet
  <2>. QED
    BY <1>1, <2>1
<1>5. \A m \in DOMAIN b.pegins : Mint(b.pegins[m]) \notin Notes(s.tree)
  <2>. SUFFICES ASSUME NEW m \in DOMAIN b.pegins PROVE Mint(b.pegins[m]) \notin Notes(s.tree)
    OBVIOUS
  <2>1. b.pegins[m] \in Deposit /\ b.pegins[m] \notin s.used_pegins
    BY <1>1, ElementOfSeq DEF ValidBlock, ValidPegIns
  <2>. QED
    BY <2>1 DEF NotesOk
<1>6. CoinLeaf(s, b).note \notin Notes(s.tree)
  <2>1. Coinbase(s.height) \notin Notes(s.tree)
    BY <1>1 DEF NotesOk
  <2>2. Alloc(s.height + 1) \notin Notes(s.tree)
    BY <1>1 DEF NotesOk
  <2>. QED
    BY <1>3, <2>1, <2>2
<1>7. \A i : odd(i) \in 1 .. 2
  OBVIOUS
<1>8. ASSUME NEW i \in DOMAIN L PROVE LeafNote(s, b, i) \notin Notes(s.tree)
  <2>1. CASE A(i)
    BY <1>7, <2>1, SpendsFresh
  <2>2. CASE B(i)
    BY <1>5, <2>2
  <2>3. CASE C(i)
    BY <1>6, <2>3
  <2>. QED
    BY <1>2, <2>1, <2>2, <2>3
<1>9. ASSUME NEW i \in DOMAIN L, NEW j \in DOMAIN L, LeafNote(s, b, i) = LeafNote(s, b, j)
      PROVE  i = j
  <2>0. i \in Nat /\ j \in Nat
    BY <1>2
  <2>1. CASE A(i) /\ A(j)
    <3>1. /\ Spends(b)[(i + 1) \div 2].spend = Spends(b)[(j + 1) \div 2].spend
          /\ odd(i) = odd(j)
      <4>1. Out(Spends(b)[(i + 1) \div 2].spend, odd(i))
              = Out(Spends(b)[(j + 1) \div 2].spend, odd(j))
        BY <1>9, <2>1
      <4>. HIDE DEF odd
      <4>. QED
        BY <4>1, NotesDiffer
    <3>2. (i + 1) \div 2 = (j + 1) \div 2
      BY <2>1, <3>1, SpendsFresh
    <3>3. i % 2 = 1 <=> j % 2 = 1
      BY <3>1
    <3>. QED
      BY <2>0, <3>2, <3>3
  <2>2. CASE B(i) /\ B(j)
    <3>1. b.pegins[i - 2 * k] = b.pegins[j - 2 * k]
      BY <1>9, <2>2, NotesDiffer
    <3>2. i - 2 * k = j - 2 * k
      BY <1>4, <2>2, <3>1
    <3>. QED
      BY <1>1, <2>0, <3>2
  <2>3. CASE C(i) /\ C(j)
    BY <2>3
  <2>4. ~ (A(i) /\ B(j)) /\ ~ (A(j) /\ B(i))
    BY <1>9, NotesDiffer
  <2>5. /\ \A u, v : Out(u, v) # CoinLeaf(s, b).note
        /\ \A d : Mint(d) # CoinLeaf(s, b).note
    BY <1>3, NotesDiffer
  <2>6. /\ ~ (A(i) /\ C(j)) /\ ~ (A(j) /\ C(i))
        /\ ~ (B(i) /\ C(j)) /\ ~ (B(j) /\ C(i))
    BY <1>9, <2>5
  <2>. QED
    BY <1>2, <2>1, <2>2, <2>3, <2>4, <2>5, <2>6
<1>. QED
  BY <1>8, <1>9

LEMMA NotesNew == NotesOk(NewState)
<1>1. /\ NewState.tree = <<>> /\ NewState.nullifiers = {} /\ NewState.used_pegins = {}
      /\ NewState.recent_roots = << <<>> >>
  BY DEF NewState
<1>2. Notes(<<>>) = {}
  BY DEF Notes
<1>3. \A i \in DOMAIN NewState.recent_roots : NewState.recent_roots[i] = <<>>
  BY <1>1
<1>. QED
  BY <1>1, <1>2, <1>3 DEF NotesOk

\* An entry of a window after a push: an old one or the new one.
LEMMA SlideEntries ==
  ASSUME NEW S, NEW w \in Seq(S), NEW x \in S, NEW n \in Nat \ {0},
         NEW i \in DOMAIN Slide(w, x, n)
  PROVE  Slide(w, x, n)[i] = x \/ \E k \in DOMAIN w : Slide(w, x, n)[i] = w[k]
<1>1. CASE Len(w) = n
  <2>1. w # <<>> /\ Slide(w, x, n) = Append(Tail(w), x)
    BY <1>1 DEF Slide
  <2>2. /\ Tail(w) \in Seq(S) /\ Len(Tail(w)) = n - 1
        /\ \A k \in 1 .. n - 1 : Tail(w)[k] = w[k + 1]
    BY <1>1, <2>1, HeadTailProperties
  <2>3. /\ Len(Append(Tail(w), x)) = n /\ Append(Tail(w), x)[n] = x
        /\ \A k \in 1 .. n - 1 : Append(Tail(w), x)[k] = Tail(w)[k]
    BY <2>2, AppendProperties
  <2>4. i \in 1 .. n
    BY <2>1, <2>2, <2>3, AppendProperties
  <2>5. CASE i = n
    BY <2>1, <2>3, <2>5
  <2>6. CASE i # n
    <3>1. i \in 1 .. n - 1 /\ i + 1 \in DOMAIN w
      BY <1>1, <2>4, <2>6
    <3>. QED
      BY <2>1, <2>2, <2>3, <3>1
  <2>. QED
    BY <2>5, <2>6
<1>2. CASE Len(w) # n
  <2>1. Slide(w, x, n) = Append(w, x)
    BY <1>2 DEF Slide
  <2>2. /\ Append(w, x) \in Seq(S) /\ Len(Append(w, x)) = Len(w) + 1
        /\ Append(w, x)[Len(w) + 1] = x
        /\ \A k \in 1 .. Len(w) : Append(w, x)[k] = w[k]
    BY AppendProperties
  <2>3. i \in 1 .. Len(w) + 1 /\ Len(w) \in Nat /\ DOMAIN w = 1 .. Len(w)
    BY <2>1, <2>2
  <2>. QED
    BY <2>1, <2>2, <2>3
<1>. QED
  BY <1>1, <1>2

\* A valid block keeps every note unique and every nullifier that of a note.
LEMMA NotesApply ==
  ASSUME NEW s \in StateType, NEW b \in BlockType, ValidBlock(s, b), NotesOk(s)
  PROVE  NotesOk(ApplyBlock(s, b))
<1>. DEFINE a == ApplyBlock(s, b)
            L == NewLeaves(s, b)
            n == Len(s.tree)
            tree == s.tree \o L
<1>1. /\ a.tree = tree
      /\ a.nullifiers = s.nullifiers \cup SpentBy(Spends(b))
      /\ a.recent_roots = Slide(s.recent_roots, tree, ROOT_WINDOW)
      /\ a.height = s.height + 1
      /\ a.used_pegins = s.used_pegins \cup ToSet(b.pegins)
  BY DEF ApplyBlock
<1>2. /\ s.tree \in Seq(LeafType) /\ L \in Seq(LeafType) /\ s.height \in Nat
      /\ b.pegins \in Seq(Deposit) /\ s.recent_roots \in Seq(Seq(LeafType))
      /\ Spends(b) \in Seq(TxType)
  BY NewLeavesType, SpendsType DEF StateType, BlockType
<1>3. /\ tree \in Seq(LeafType) /\ n \in Nat /\ DOMAIN s.tree = 1 .. n
      /\ DOMAIN L = 1 .. Len(L) /\ Len(L) \in Nat /\ DOMAIN tree = 1 .. n + Len(L)
      /\ \A i \in 1 .. n + Len(L) : tree[i] = IF i <= n THEN s.tree[i] ELSE L[i - n]
  <2>1. /\ tree \in Seq(LeafType) /\ Len(tree) = n + Len(L)
        /\ \A i \in 1 .. n + Len(L) : tree[i] = IF i <= n THEN s.tree[i] ELSE L[i - n]
    BY <1>2, ConcatProperties
  <2>2. DOMAIN tree = 1 .. Len(tree) /\ Len(L) \in Nat /\ n \in Nat
    BY <1>2, <2>1
  <2>. QED
    BY <1>2, <2>1, <2>2
<1>4. Notes(tree) = Notes(s.tree) \cup Notes(L)
  BY <1>2, NotesConcat
<1>5. \A i \in DOMAIN L : L[i].note = LeafNote(s, b, i)
  BY NewLeavesAre
<1>6. \A t, j : Out(t, j) # CoinLeaf(s, b).note
  BY NotesDiffer DEF CoinLeaf, Leaf
<1>7. \A d : Mint(d) # CoinLeaf(s, b).note
  BY NotesDiffer DEF CoinLeaf, Leaf
<1>8. \/ CoinLeaf(s, b).note = Coinbase(s.height)
      \/ CoinLeaf(s, b).note = Alloc(s.height + 1)
  BY DEF CoinLeaf, Leaf
<1>. HIDE DEF a, L, tree
<1>9a. /\ \A i \in DOMAIN tree : i <= n => i \in DOMAIN s.tree /\ tree[i] = s.tree[i]
       /\ \A i \in DOMAIN tree : ~ (i <= n) => i - n \in DOMAIN L /\ tree[i] = L[i - n]
  <2>. SUFFICES ASSUME NEW i \in DOMAIN tree
                PROVE  /\ i <= n => i \in DOMAIN s.tree /\ tree[i] = s.tree[i]
                       /\ ~ (i <= n) => i - n \in DOMAIN L /\ tree[i] = L[i - n]
    OBVIOUS
  <2>1. i \in 1 .. n + Len(L) /\ tree[i] = IF i <= n THEN s.tree[i] ELSE L[i - n]
    BY <1>3
  <2>2. ~ (i <= n) => i - n \in 1 .. Len(L)
    BY <1>3, <2>1
  <2>3. i <= n => i \in 1 .. n
    BY <1>3, <2>1
  <2>. QED
    BY <1>3, <2>1, <2>2, <2>3
<1>9. ASSUME NEW i \in DOMAIN tree, NEW j \in DOMAIN tree, tree[i].note = tree[j].note
      PROVE  i = j
  <2>0. i \in Nat /\ j \in Nat
    BY <1>3
  <2>1. CASE i <= n /\ j <= n
    <3>1. i \in DOMAIN s.tree /\ j \in DOMAIN s.tree /\ s.tree[i].note = s.tree[j].note
      BY <1>3, <1>9, <2>1
    <3>. QED
      BY <3>1 DEF NotesOk
  <2>2. CASE ~ (i <= n) /\ ~ (j <= n)
    <3>1. /\ i - n \in DOMAIN L /\ j - n \in DOMAIN L
          /\ L[i - n].note = L[j - n].note
      BY <1>9, <1>9a, <2>2
    <3>2. i - n = j - n
      BY <1>5, <3>1, LeavesFresh DEF L
    <3>. QED
      BY <1>3, <2>0, <3>2
  <2>3. ASSUME NEW x \in DOMAIN tree, NEW y \in DOMAIN tree, x <= n, ~ (y <= n),
               tree[x].note = tree[y].note
        PROVE  FALSE
    <3>1. /\ x \in DOMAIN s.tree /\ y - n \in DOMAIN L
          /\ s.tree[x].note = L[y - n].note
      BY <1>9a, <2>3
    <3>2. s.tree[x].note \in Notes(s.tree)
      BY <3>1 DEF Notes
    <3>. QED
      BY <1>5, <3>1, <3>2, LeavesFresh DEF L
  <2>. QED
    BY <1>9, <2>1, <2>2, <2>3
<1>10. a.nullifiers \subseteq Notes(tree)
  BY <1>1, <1>4, SpendsFresh DEF NotesOk
<1>11. ASSUME NEW d \in Deposit PROVE d \in a.used_pegins <=> Mint(d) \in Notes(tree)
  <2>1. d \in s.used_pegins <=> Mint(d) \in Notes(s.tree)
    BY DEF NotesOk
  <2>2. Mint(d) \in Notes(L) <=> \E m \in DOMAIN b.pegins : d = b.pegins[m]
    <3>1. Mint(d) \in Notes(L) <=>
            \/ \E c \in DOMAIN Spends(b), j \in 1 .. 2 : Mint(d) = Out(Spends(b)[c].spend, j)
            \/ \E m \in DOMAIN b.pegins : Mint(d) = Mint(b.pegins[m])
            \/ Mint(d) = CoinLeaf(s, b).note
      BY NewNotes DEF L
    <3>. QED
      BY <1>7, <3>1, NotesDiffer
  <2>. QED
    BY <1>1, <1>4, <2>1, <2>2 DEF ToSet
<1>12. ASSUME NEW t \in Spend, NEW j \in 1 .. 2, Out(t, j) \in Notes(tree)
       PROVE  Inputs[t] \subseteq a.nullifiers
  <2>1. CASE Out(t, j) \in Notes(s.tree)
    BY <1>1, <2>1 DEF NotesOk
  <2>2. CASE Out(t, j) \in Notes(L)
    <3>1. \E c \in DOMAIN Spends(b) : t = Spends(b)[c].spend
      <4>1. \/ \E c \in DOMAIN Spends(b), i \in 1 .. 2 : Out(t, j) = Out(Spends(b)[c].spend, i)
            \/ \E m \in DOMAIN b.pegins : Out(t, j) = Mint(b.pegins[m])
            \/ Out(t, j) = CoinLeaf(s, b).note
        BY <2>2, NewNotes DEF L
      <4>. QED
        BY <1>6, <4>1, NotesDiffer
    <3>2. Inputs[t] \subseteq SpentBy(Spends(b))
      BY <3>1 DEF SpentBy
    <3>. QED
      BY <1>1, <3>2
  <2>. QED
    BY <1>4, <1>12, <2>1, <2>2
<1>13. ASSUME NEW h \in Nat, Coinbase(h) \in Notes(tree) PROVE h < a.height
  <2>1. CASE Coinbase(h) \in Notes(s.tree)
    <3>1. h < s.height
      BY <2>1 DEF NotesOk
    <3>. QED
      BY <1>1, <1>2, <3>1
  <2>2. CASE Coinbase(h) \in Notes(L)
    <3>1. \/ \E c \in DOMAIN Spends(b), i \in 1 .. 2 : Coinbase(h) = Out(Spends(b)[c].spend, i)
          \/ \E m \in DOMAIN b.pegins : Coinbase(h) = Mint(b.pegins[m])
          \/ Coinbase(h) = CoinLeaf(s, b).note
      BY <2>2, NewNotes DEF L
    <3>2. h = s.height
      BY <1>8, <3>1, NotesDiffer
    <3>. QED
      BY <1>1, <1>2, <3>2
  <2>. QED
    BY <1>4, <1>13, <2>1, <2>2
<1>14. ASSUME NEW h \in Nat, Alloc(h) \in Notes(tree) PROVE h <= a.height
  <2>1. CASE Alloc(h) \in Notes(s.tree)
    <3>1. h <= s.height
      BY <2>1 DEF NotesOk
    <3>. QED
      BY <1>1, <1>2, <3>1
  <2>2. CASE Alloc(h) \in Notes(L)
    <3>1. \/ \E c \in DOMAIN Spends(b), i \in 1 .. 2 : Alloc(h) = Out(Spends(b)[c].spend, i)
          \/ \E m \in DOMAIN b.pegins : Alloc(h) = Mint(b.pegins[m])
          \/ Alloc(h) = CoinLeaf(s, b).note
      BY <2>2, NewNotes DEF L
    <3>2. h = s.height + 1
      BY <1>8, <3>1, NotesDiffer
    <3>. QED
      BY <1>1, <1>2, <3>2
  <2>. QED
    BY <1>4, <1>14, <2>1, <2>2
<1>15. ASSUME NEW i \in DOMAIN a.recent_roots
       PROVE  Notes(a.recent_roots[i]) \subseteq Notes(tree)
  <2>1. \/ a.recent_roots[i] = tree
        \/ \E k \in DOMAIN s.recent_roots : a.recent_roots[i] = s.recent_roots[k]
    <3>1. ROOT_WINDOW \in Nat \ {0}
      BY LedgerAssumption
    <3>. QED
      BY <1>1, <1>2, <1>3, <3>1, SlideEntries
  <2>. QED
    BY <1>4, <2>1 DEF NotesOk
<1>16. NotesOk(a)
  BY <1>1, <1>9, <1>10, <1>11, <1>12, <1>13, <1>14, <1>15 DEF NotesOk
<1>. QED
  BY <1>16 DEF a

===============================================================================
