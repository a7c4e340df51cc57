---------------------------- MODULE SelectionProofs ----------------------------
(***************************************************************************)
(* What a filtered list holds, and the least element of a set of naturals, *)
(* which stands in for an induction.                                       *)
(***************************************************************************)
EXTENDS Selection, FiniteSetTheorems, SequenceTheorems, WellFoundedInduction, TLAPS

\* A nonempty set of naturals has a least element.
LEMMA LeastNat ==
  ASSUME NEW T \in SUBSET Nat, T # {}
  PROVE  \E k \in T : \A j \in T : k <= j
<1>. DEFINE R == StrictSubsetOrdering(Nat)
            U == {0 .. k : k \in T}
<1>1. IsWellFoundedOn(R, FiniteSubsetsOf(Nat))
  BY FS_StrictSubsetOrderingWellFounded
<1>2. U \subseteq FiniteSubsetsOf(Nat) /\ U # {}
  <2>1. \A k \in T : 0 .. k \in SUBSET Nat /\ IsFiniteSet(0 .. k)
    BY FS_Interval
  <2>. QED
    BY <2>1 DEF FiniteSubsetsOf
<1>. HIDE DEF U, R
<1>3. PICK I \in U : \A J \in U : <<J, I>> \notin R
  BY <1>1, <1>2, WFMin
<1>4. PICK k \in T : I = 0 .. k
  BY DEF U
<1>5. ASSUME NEW j \in T, j < k PROVE FALSE
  <2>1. /\ 0 .. j \in U
        /\ 0 .. j \subseteq 0 .. k /\ k \in 0 .. k /\ k \notin 0 .. j
        /\ 0 .. j \in SUBSET Nat /\ 0 .. k \in SUBSET Nat
    BY <1>5 DEF U
  <2>2. <<0 .. j, 0 .. k>> \in R
    BY <2>1 DEF R, StrictSubsetOrdering
  <2>. QED
    BY <1>3, <1>4, <2>1, <2>2
<1>. QED
  BY <1>5

\* A set that holds 0 and, below n, the successor of each of its members.
LEMMA UpTo ==
  ASSUME NEW n \in Nat, NEW G, 0 \in G, \A i \in 0 .. n - 1 : i \in G => i + 1 \in G
  PROVE  \A i \in 0 .. n : i \in G
<1>. DEFINE T == {i \in 0 .. n : i \notin G}
<1>. SUFFICES ASSUME T # {} PROVE FALSE
  OBVIOUS
<1>0. T \in SUBSET Nat
  OBVIOUS
<1>1. PICK k \in T : \A j \in T : k <= j
  BY <1>0, LeastNat
<1>2. k \in 0 .. n /\ k # 0 /\ k - 1 \in 0 .. n - 1 /\ k - 1 + 1 = k /\ k - 1 \in 0 .. n
  BY <1>1
<1>3. k - 1 \in G
  BY <1>1, <1>2
<1>. QED
  BY <1>1, <1>2, <1>3

--------------------------------------------------------------------------------
(* Filtered lists *)

\* The equation Picks is defined by.
IsPicks(f, s, K, n) ==
  f = [i \in 0 .. n |->
         IF i = 0 THEN <<>>
         ELSE IF i \in K THEN Append(f[i - 1], s[i])
         ELSE f[i - 1]]

\* The equation at one point.
LEMMA PicksAt ==
  ASSUME NEW f, NEW s, NEW K, NEW n, IsPicks(f, s, K, n), NEW i \in 0 .. n
  PROVE  f[i] = IF i = 0 THEN <<>>
                ELSE IF i \in K THEN Append(f[i - 1], s[i])
                ELSE f[i - 1]
<1>. DEFINE e(j) == IF j = 0 THEN <<>>
                    ELSE IF j \in K THEN Append(f[j - 1], s[j])
                    ELSE f[j - 1]
            h == [j \in 0 .. n |-> e(j)]
<1>1. f = h
  BY DEF IsPicks
<1>2. h[i] = e(i)
  OBVIOUS
<1>. HIDE DEF h
<1>. QED
  BY <1>1, <1>2

\* A function that satisfies the equation exists for every length.
LEMMA PicksExist ==
  ASSUME NEW s, NEW K, NEW n \in Nat
  PROVE  \E f : IsPicks(f, s, K, n)
<1>. DEFINE T == {m \in Nat : ~ \E f : IsPicks(f, s, K, m)}
<1>. SUFFICES ASSUME T # {} PROVE FALSE
  OBVIOUS
<1>1. PICK m \in T : \A j \in T : m <= j
  BY LeastNat
<1>2. m # 0
  <2>1. IsPicks([i \in 0 .. 0 |-> <<>>], s, K, 0)
    BY DEF IsPicks
  <2>. QED
    BY <2>1
<1>3. m - 1 \in Nat /\ m - 1 \notin T
  BY <1>1, <1>2
<1>4. PICK f : IsPicks(f, s, K, m - 1)
  BY <1>3
<1>. DEFINE last == IF m \in K THEN Append(f[m - 1], s[m]) ELSE f[m - 1]
            h == [i \in 0 .. m |-> IF i < m THEN f[i] ELSE last]
<1>5. \A i \in 0 .. m - 1 : h[i] = f[i]
  BY <1>1
<1>6. ASSUME NEW i \in 0 .. m
      PROVE  h[i] = IF i = 0 THEN <<>>
                    ELSE IF i \in K THEN Append(h[i - 1], s[i])
                    ELSE h[i - 1]
  <2>1. CASE i = 0
    BY <1>2, <1>4, <1>5, <2>1 DEF IsPicks
  <2>2. CASE i \in 1 .. m - 1
    <3>1. h[i] = f[i] /\ h[i - 1] = f[i - 1] /\ i \in 0 .. m - 1
      BY <1>5, <2>2
    <3>2. f[i] = IF i \in K THEN Append(f[i - 1], s[i]) ELSE f[i - 1]
      BY <1>4, <2>2, <3>1, PicksAt
    <3>. QED
      BY <2>2, <3>1, <3>2
  <2>3. CASE i = m
    <3>1. h[i] = last /\ h[i - 1] = f[i - 1]
      BY <1>2, <1>5, <2>3
    <3>. QED
      BY <1>2, <2>3, <3>1
  <2>. QED
    BY <1>6, <2>1, <2>2, <2>3
<1>7. IsPicks(h, s, K, m)
  BY <1>6 DEF IsPicks
<1>. QED
  BY <1>1, <1>7

\* Picks satisfies its equation.
LEMMA PicksDef ==
  ASSUME NEW X, NEW s \in Seq(X), NEW K
  PROVE  IsPicks(Picks(s, K), s, K, Len(s))
<1>1. Len(s) \in Nat
  OBVIOUS
<1>2. PICK f : IsPicks(f, s, K, Len(s))
  BY <1>1, PicksExist
<1>. QED
  BY <1>2 DEF Picks, IsPicks

\* A filtered list holds the entries at the positions kept and nothing else.
LEMMA PickedHolds ==
  ASSUME NEW X, NEW s \in Seq(X), NEW K
  PROVE  /\ Picked(s, K) \in Seq(X)
         /\ \A x : (\E i \in DOMAIN Picked(s, K) : Picked(s, K)[i] = x)
                 <=> \E i \in DOMAIN s : i \in K /\ s[i] = x
<1>. DEFINE f == Picks(s, K)
            Good(n) == /\ f[n] \in Seq(X)
                       /\ \A x : (\E i \in DOMAIN f[n] : f[n][i] = x)
                               <=> \E i \in 1 .. n : i \in K /\ s[i] = x
            T == {n \in 0 .. Len(s) : ~ Good(n)}
<1>1. Len(s) \in Nat /\ DOMAIN s = 1 .. Len(s)
  OBVIOUS
<1>2. \A n \in 0 .. Len(s) : f[n] = IF n = 0 THEN <<>>
                                  ELSE IF n \in K THEN Append(f[n - 1], s[n])
                                  ELSE f[n - 1]
  <2>1. IsPicks(f, s, K, Len(s))
    BY PicksDef
  <2>. HIDE DEF f
  <2>. QED
    BY <2>1, PicksAt
<1>. HIDE DEF f
<1>3. ASSUME NEW n \in 1 .. Len(s)
      PROVE  f[n] = IF n \in K THEN Append(f[n - 1], s[n]) ELSE f[n - 1]
  BY <1>1, <1>2
<1>. HIDE DEF Good, T
<1>4. T = {}
  <2>. SUFFICES ASSUME T # {} PROVE FALSE
    OBVIOUS
  <2>0. T \in SUBSET Nat
    BY <1>1 DEF T
  <2>1. PICK n \in T : \A j \in T : n <= j
    BY <2>0, LeastNat
  <2>2. n # 0
    <3>1. f[0] = <<>>
      BY <1>1, <1>2
    <3>2. Good(0)
      BY <3>1 DEF Good
    <3>. QED
      BY <2>1, <3>2 DEF T
  <2>3. n \in 1 .. Len(s) /\ n - 1 \in 0 .. Len(s)
    BY <1>1, <2>1, <2>2 DEF T
  <2>4. Good(n - 1)
    <3>1. n - 1 \notin T
      BY <2>1, <2>3
    <3>. QED
      BY <2>3, <3>1 DEF T
  <2>5. 1 .. n = (1 .. n - 1) \cup {n}
    BY <2>3
  <2>6. CASE n \notin K
    <3>1. f[n] = f[n - 1]
      BY <1>3, <2>3, <2>6
    <3>2. Good(n)
      BY <2>4, <2>5, <2>6, <3>1 DEF Good
    <3>. QED
      BY <2>1, <3>2 DEF T
  <2>7. CASE n \in K
    <3>. DEFINE t == f[n - 1]
    <3>1. f[n] = Append(t, s[n]) /\ t \in Seq(X) /\ s[n] \in X
      <4>1. f[n] = Append(t, s[n])
        BY <1>3, <2>3, <2>7
      <4>2. t \in Seq(X)
        BY <2>4 DEF Good
      <4>3. s[n] \in X
        BY <2>3, ElementOfSeq
      <4>. QED
        BY <4>1, <4>2, <4>3
    <3>2. \A x : (\E i \in DOMAIN t : t[i] = x) <=> \E i \in 1 .. n - 1 : i \in K /\ s[i] = x
      BY <2>4 DEF Good
    <3>. HIDE DEF t
    <3>3. /\ f[n] \in Seq(X) /\ DOMAIN f[n] = (DOMAIN t) \cup {Len(t) + 1}
          /\ f[n][Len(t) + 1] = s[n] /\ \A i \in DOMAIN t : f[n][i] = t[i]
      <4>1. Len(t) \in Nat /\ DOMAIN t = 1 .. Len(t)
        BY <3>1
      <4>2. /\ Append(t, s[n]) \in Seq(X) /\ Len(Append(t, s[n])) = Len(t) + 1
            /\ Append(t, s[n])[Len(t) + 1] = s[n]
            /\ \A i \in 1 .. Len(t) : Append(t, s[n])[i] = t[i]
        BY <3>1
      <4>3. DOMAIN Append(t, s[n]) = 1 .. Len(t) + 1
        BY <4>2
      <4>. QED
        BY <3>1, <4>1, <4>2, <4>3
    <3>4. ASSUME NEW x
          PROVE  (\E i \in DOMAIN f[n] : f[n][i] = x)
                   <=> \E i \in 1 .. n : i \in K /\ s[i] = x
      <4>1. (\E i \in DOMAIN f[n] : f[n][i] = x) <=> s[n] = x \/ \E i \in DOMAIN t : t[i] = x
        BY <3>3
      <4>. QED
        BY <2>5, <2>7, <3>2, <4>1
    <3>5. Good(n)
      BY <3>3, <3>4 DEF Good
    <3>. QED
      BY <2>1, <3>5 DEF T
  <2>. QED
    BY <2>6, <2>7
<1>5. Good(Len(s))
  BY <1>1, <1>4 DEF T
<1>. QED
  BY <1>1, <1>5 DEF Picked, f, Good

\* A filtered list takes each of its entries from a position of its own.
LEMMA PickedApart ==
  ASSUME NEW X, NEW s \in Seq(X), NEW K
  PROVE  \E g \in [DOMAIN Picked(s, K) -> DOMAIN s] :
           /\ \A i \in DOMAIN Picked(s, K) : g[i] \in K /\ Picked(s, K)[i] = s[g[i]]
           /\ \A i, j \in DOMAIN Picked(s, K) : g[i] = g[j] => i = j
<1>. DEFINE f == Picks(s, K)
            From(g, n) == /\ g \in [DOMAIN f[n] -> 1 .. n]
                          /\ \A i \in DOMAIN f[n] : g[i] \in K /\ f[n][i] = s[g[i]]
                          /\ \A i, j \in DOMAIN f[n] : g[i] = g[j] => i = j
            Good(n) == f[n] \in Seq(X) /\ \E g : From(g, n)
            T == {n \in 0 .. Len(s) : ~ Good(n)}
<1>1. Len(s) \in Nat /\ DOMAIN s = 1 .. Len(s)
  OBVIOUS
<1>2. \A n \in 0 .. Len(s) : f[n] = IF n = 0 THEN <<>>
                                  ELSE IF n \in K THEN Append(f[n - 1], s[n])
                                  ELSE f[n - 1]
  <2>1. IsPicks(f, s, K, Len(s))
    BY PicksDef
  <2>. HIDE DEF f
  <2>. QED
    BY <2>1, PicksAt
<1>. HIDE DEF f
<1>3. ASSUME NEW n \in 1 .. Len(s)
      PROVE  f[n] = IF n \in K THEN Append(f[n - 1], s[n]) ELSE f[n - 1]
  BY <1>1, <1>2
<1>. HIDE DEF From, T
<1>4. T = {}
  <2>. SUFFICES ASSUME T # {} PROVE FALSE
    OBVIOUS
  <2>0. T \in SUBSET Nat
    BY <1>1 DEF T
  <2>1. PICK n \in T : \A j \in T : n <= j
    BY <2>0, LeastNat
  <2>2. n # 0
    <3>1. f[0] = <<>> /\ DOMAIN <<>> = {}
      BY <1>1, <1>2
    <3>2. [i \in {} |-> 0] \in [{} -> 1 .. 0]
      OBVIOUS
    <3>3. From([i \in {} |-> 0], 0)
      BY <3>1, <3>2 DEF From
    <3>4. <<>> \in Seq(X)
      OBVIOUS
    <3>5. Good(0)
      BY <3>1, <3>3, <3>4
    <3>. HIDE DEF Good
    <3>. QED
      BY <2>1, <3>5 DEF T
  <2>3. n \in 1 .. Len(s) /\ n - 1 \in 0 .. Len(s)
    BY <1>1, <2>1, <2>2 DEF T
  <2>. DEFINE t == f[n - 1]
  <2>4. t \in Seq(X) /\ \E g : From(g, n - 1)
    <3>1. n - 1 \notin T
      BY <2>1, <2>3
    <3>. QED
      BY <2>3, <3>1 DEF T
  <2>5. PICK g : From(g, n - 1)
    BY <2>4
  <2>6. /\ g \in [DOMAIN t -> 1 .. n - 1]
        /\ \A i \in DOMAIN t : g[i] \in K /\ t[i] = s[g[i]]
        /\ \A i, j \in DOMAIN t : g[i] = g[j] => i = j
    BY <2>5 DEF From
  <2>7. 1 .. n - 1 \subseteq 1 .. n /\ n \in 1 .. n /\ n \notin 1 .. n - 1
    BY <2>3
  <2>8. CASE n \notin K
    <3>1. f[n] = t
      BY <1>3, <2>3, <2>8
    <3>2. From(g, n)
      BY <2>6, <2>7, <3>1 DEF From
    <3>. QED
      BY <2>1, <2>4, <3>1, <3>2 DEF T
  <2>9. CASE n \in K
    <3>1. f[n] = Append(t, s[n]) /\ s[n] \in X
      BY <1>3, <2>3, <2>9, ElementOfSeq
    <3>. DEFINE m == Len(t)
                h == [i \in 1 .. m + 1 |-> IF i = m + 1 THEN n ELSE g[i]]
    <3>. HIDE DEF t
    <3>2. m \in Nat /\ DOMAIN t = 1 .. m
      BY <2>4
    <3>3. /\ f[n] \in Seq(X) /\ Len(f[n]) = m + 1 /\ f[n][m + 1] = s[n]
          /\ \A i \in 1 .. m : f[n][i] = t[i]
      BY <2>4, <3>1, AppendProperties
    <3>4. DOMAIN f[n] = 1 .. m + 1
      BY <3>2, <3>3
    <3>5. h[m + 1] = n /\ \A i \in 1 .. m : h[i] = g[i]
      BY <3>2
    <3>6. \A i \in 1 .. m + 1 : i = m + 1 \/ i \in 1 .. m
      BY <3>2
    <3>7. h \in [1 .. m + 1 -> 1 .. n]
      <4>1. \A i \in 1 .. m + 1 : (IF i = m + 1 THEN n ELSE g[i]) \in 1 .. n
        BY <2>6, <2>7, <3>2, <3>6
      <4>. QED
        BY <4>1
    <3>. HIDE DEF h, m
    <3>8. \A i \in 1 .. m + 1 : h[i] \in K /\ f[n][i] = s[h[i]]
      BY <2>6, <2>9, <3>2, <3>3, <3>5, <3>6
    <3>9. \A i, j \in 1 .. m + 1 : h[i] = h[j] => i = j
      <4>1. \A i \in 1 .. m : g[i] \in 1 .. n - 1 /\ g[i] # n
        BY <2>6, <2>7, <3>2
      <4>2. \A i, j \in 1 .. m : g[i] = g[j] => i = j
        BY <2>6, <3>2
      <4>. QED
        BY <3>5, <3>6, <4>1, <4>2
    <3>10. From(h, n)
      BY <3>4, <3>7, <3>8, <3>9 DEF From
    <3>. QED
      BY <2>1, <3>3, <3>10 DEF T
  <2>. QED
    BY <2>8, <2>9
<1>5. \E g : From(g, Len(s))
  BY <1>1, <1>4 DEF T
<1>. QED
  BY <1>1, <1>5 DEF Picked, f, From

===============================================================================
