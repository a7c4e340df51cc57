------------------------------ MODULE PegInProofs ------------------------------
(***************************************************************************)
(* The peg for any number of locks, burns and reorganisations: nodes agree *)
(* on a proof, what is minted was absorbed, and the vault holds what it    *)
(* should.                                                                 *)
(***************************************************************************)
EXTENDS PegIn, SelectionProofs

--------------------------------------------------------------------------------
(* Sums over finite sets *)

\* A set of sets that holds every subset of S whose proper subsets it holds, holds S.
LEMMA SubsetsUp ==
  ASSUME NEW S, IsFiniteSet(S), NEW G,
         \A s \in SUBSET S : (\A t \in SUBSET s : t # s => t \in G) => s \in G
  PROVE  S \in G
<1>. SUFFICES ASSUME S \notin G PROVE FALSE
  OBVIOUS
<1>. DEFINE B == {s \in SUBSET S : s \notin G}
            N == {Cardinality(s) : s \in B}
<1>1. \A s \in SUBSET S : IsFiniteSet(s) /\ Cardinality(s) \in Nat
  BY FS_Subset, FS_CardinalityType
<1>2. N \in SUBSET Nat /\ N # {}
  BY <1>1
<1>3. PICK k \in N : \A j \in N : k <= j
  BY <1>2, LeastNat
<1>4. PICK s \in B : k = Cardinality(s)
  BY <1>3
<1>5. ASSUME NEW t \in SUBSET s, t # s PROVE t \in G
  <2>1. Cardinality(t) <= Cardinality(s) /\ Cardinality(t) # Cardinality(s)
    BY <1>1, <1>4, <1>5, FS_Subset
  <2>2. Cardinality(t) \notin N
    BY <1>1, <1>3, <1>4, <2>1
  <2>. QED
    BY <1>4, <2>2
<1>. QED
  BY <1>4, <1>5

\* The equation the library's sum is defined by.
SumsTo(f, S, sum) ==
  sum = [s \in SUBSET S |-> IF s = {} THEN 0
                            ELSE LET x == CHOOSE x \in s : TRUE IN f[x] + sum[s \ {x}]]

\* The member the library takes first.
FirstOf(s) == CHOOSE x \in s : TRUE

\* The equation at one subset.
LEMMA SumsAt ==
  ASSUME NEW f, NEW S, NEW g, SumsTo(f, S, g), NEW s \in SUBSET S
  PROVE  /\ s = {} => g[s] = 0
         /\ s # {} => FirstOf(s) \in s /\ g[s] = f[FirstOf(s)] + g[s \ {FirstOf(s)}]
<1>. DEFINE e(t) == IF t = {} THEN 0
                    ELSE LET x == CHOOSE x \in t : TRUE IN f[x] + g[t \ {x}]
            h == [t \in SUBSET S |-> e(t)]
<1>1. g = h
  BY DEF SumsTo
<1>2. h[s] = e(s)
  OBVIOUS
<1>. HIDE DEF h
<1>3. g[s] = e(s)
  BY <1>1, <1>2
<1>. QED
  BY <1>3 DEF FirstOf

LEMMA SumAtNone ==
  ASSUME NEW f, NEW S, NEW g, SumsTo(f, S, g), NEW s \in SUBSET S, s = {}
  PROVE  g[s] = 0
<1>1. s = {} => g[s] = 0
  BY SumsAt, Zenon
<1>. QED
  BY <1>1

\* A function that satisfies it exists on the subsets of every finite set.
LEMMA SumsExist ==
  ASSUME NEW f, NEW S, IsFiniteSet(S)
  PROVE  \E g : SumsTo(f, S, g)
<1>. DEFINE e(g, s) == IF s = {} THEN 0
                       ELSE LET x == CHOOSE x \in s : TRUE IN f[x] + g[s \ {x}]
            upTo(g, m) == \A s \in SUBSET S : Cardinality(s) <= m => g[s] = e(g, s)
            Failing == {m \in Nat : ~ \E g : upTo(g, m)}
<1>1. \A s \in SUBSET S : /\ IsFiniteSet(s) /\ Cardinality(s) \in Nat
                          /\ Cardinality(s) <= Cardinality(S)
  BY FS_Subset, FS_CardinalityType
<1>2. \A s \in SUBSET S : s # {} => LET x == CHOOSE x \in s : TRUE IN
         x \in s /\ s \ {x} \in SUBSET S /\ Cardinality(s \ {x}) = Cardinality(s) - 1
  BY <1>1, FS_RemoveElement
<1>3. Failing = {}
  <2>. SUFFICES ASSUME Failing # {} PROVE FALSE
    OBVIOUS
  <2>0. Failing \in SUBSET Nat
    OBVIOUS
  <2>a. \A m \in Nat : m \in Failing <=> \A g : ~ upTo(g, m)
    <3>. HIDE DEF upTo
    <3>. QED
      OBVIOUS
  <2>. HIDE DEF Failing
  <2>1. PICK m \in Failing : \A j \in Failing : m <= j
    BY <2>0, LeastNat
  <2>2. m # 0
    <3>. DEFINE z == [s \in SUBSET S |-> 0]
    <3>1. upTo(z, 0)
      BY <1>1, FS_EmptySet
    <3>. HIDE DEF z
    <3>2. 0 \notin Failing
      BY <2>a, <3>1
    <3>. QED
      BY <2>1, <3>2
  <2>3. m - 1 \in Nat /\ m - 1 \notin Failing
    BY <2>0, <2>1, <2>2
  <2>4. PICK g : upTo(g, m - 1)
    BY <2>a, <2>3
  <2>. DEFINE h == [s \in SUBSET S |-> IF Cardinality(s) <= m - 1 THEN g[s] ELSE e(g, s)]
  <2>5. \A s \in SUBSET S : h[s] = IF Cardinality(s) <= m - 1 THEN g[s] ELSE e(g, s)
    OBVIOUS
  <2>. HIDE DEF h
  <2>6. \A s \in SUBSET S : Cardinality(s) <= m => h[s] = e(g, s)
    BY <2>4, <2>5
  <2>7. ASSUME NEW s \in SUBSET S, Cardinality(s) <= m PROVE e(g, s) = e(h, s)
    <3>1. CASE s = {}
      BY <3>1
    <3>2. CASE s # {}
      <4>. DEFINE x == CHOOSE x \in s : TRUE
      <4>1. s \ {x} \in SUBSET S /\ Cardinality(s \ {x}) <= m - 1
        BY <1>1, <1>2, <2>0, <2>1, <2>7, <3>2
      <4>2. h[s \ {x}] = g[s \ {x}]
        BY <2>5, <4>1
      <4>. QED
        BY <3>2, <4>2
    <3>. QED
      BY <3>1, <3>2
  <2>8. upTo(h, m)
    BY <2>6, <2>7
  <2>. QED
    BY <2>0, <2>a, <2>1, <2>8
<1>4. Cardinality(S) \in Nat
  BY <1>1
<1>5. PICK g : upTo(g, Cardinality(S))
  <2>. DEFINE N == Cardinality(S)
  <2>1. N \in Nat /\ N \notin Failing
    BY <1>3, <1>4
  <2>2. \A m \in Nat : m \in Failing <=> \A g : ~ upTo(g, m)
    <3>. HIDE DEF upTo
    <3>. QED
      OBVIOUS
  <2>. HIDE DEF N, Failing, upTo
  <2>3. \E g : upTo(g, N)
    BY <2>1, <2>2
  <2>. QED
    BY <2>3 DEF N
<1>. DEFINE h == [s \in SUBSET S |-> g[s]]
<1>6. ASSUME NEW s \in SUBSET S PROVE h[s] = e(h, s)
  <2>1. h[s] = e(g, s)
    BY <1>1, <1>5
  <2>2. s # {} => s \ {CHOOSE x \in s : TRUE} \in SUBSET S
    OBVIOUS
  <2>. QED
    BY <2>1, <2>2
<1>7. DOMAIN h = SUBSET S /\ h = [s \in SUBSET S |-> h[s]]
  OBVIOUS
<1>. HIDE DEF h
<1>8. h = [s \in SUBSET S |-> e(h, s)]
  BY <1>6, <1>7
<1>. QED
  BY <1>8 DEF SumsTo

\* Two sums agree on a set on which their summands do.
LEMMA SumsAgree ==
  ASSUME NEW f, NEW S, NEW g, SumsTo(f, S, g), NEW e, NEW R, NEW h, SumsTo(e, R, h),
         NEW A \in SUBSET (S \cap R), IsFiniteSet(A), \A x \in A : f[x] = e[x]
  PROVE  g[A] = h[A]
<1>. DEFINE G == {s \in SUBSET A : g[s] = h[s]}
<1>1. ASSUME NEW s \in SUBSET A, \A t \in SUBSET s : t # s => t \in G
      PROVE  g[s] = h[s]
  <2>0. s \in SUBSET S /\ s \in SUBSET R
    OBVIOUS
  <2>1. CASE s = {}
    <3>1. g[s] = 0 /\ h[s] = 0
      BY <2>0, <2>1, SumAtNone
    <3>. QED
      BY <3>1
  <2>2. CASE s # {}
    <3>. DEFINE x == FirstOf(s)
    <3>1. x \in s /\ g[s] = f[x] + g[s \ {x}]
      BY <2>0, <2>2, SumsAt
    <3>2. x \in s /\ h[s] = e[x] + h[s \ {x}]
      BY <2>0, <2>2, SumsAt
    <3>. HIDE DEF x
    <3>3. g[s \ {x}] = h[s \ {x}]
      BY <1>1, <3>1
    <3>. QED
      BY <3>1, <3>2, <3>3
  <2>. QED
    BY <2>1, <2>2
<1>2. A \in G
  <2>1. \A s \in SUBSET A : (\A t \in SUBSET s : t # s => t \in G) => s \in G
    BY <1>1
  <2>. HIDE DEF G
  <2>. QED
    BY <2>1, SubsetsUp
<1>. QED
  BY <1>2

\* What the library's sum unfolds to.
LEMMA SumUnfolds ==
  ASSUME NEW f, NEW S, IsFiniteSet(S)
  PROVE  \E g : SumsTo(f, S, g) /\ SumFunctionOnSet(f, S) = g[S]
<1>. DEFINE g == CHOOSE g : SumsTo(f, S, g)
<1>1. SumFunctionOnSet(f, S) = g[S]
  BY DEF SumFunctionOnSet, FoldFunctionOnSet, MapThenFoldSet, SumsTo
<1>2. SumsTo(f, S, g)
  BY SumsExist
<1>. QED
  BY <1>1, <1>2

LEMMA SumSame ==
  ASSUME NEW f, NEW e, NEW S, IsFiniteSet(S), \A x \in S : f[x] = e[x]
  PROVE  SumFunctionOnSet(f, S) = SumFunctionOnSet(e, S)
<1>1. PICK g : SumsTo(f, S, g) /\ SumFunctionOnSet(f, S) = g[S]
  BY SumUnfolds
<1>2. PICK h : SumsTo(e, S, h) /\ SumFunctionOnSet(e, S) = h[S]
  BY SumUnfolds
<1>. QED
  BY <1>1, <1>2, SumsAgree

LEMMA SumEmpty ==
  ASSUME NEW f
  PROVE  SumFunctionOnSet(f, {}) = 0
<1>1. IsFiniteSet({}) /\ {} \in SUBSET {}
  BY FS_EmptySet
<1>2. PICK g : SumsTo(f, {}, g) /\ SumFunctionOnSet(f, {}) = g[{}]
  BY <1>1, SumUnfolds
<1>. QED
  BY <1>1, <1>2, SumsAt

\* The summand the library takes first, and the sum of the others.
LEMMA SumFirst ==
  ASSUME NEW f, NEW S, IsFiniteSet(S), S # {}
  PROVE  /\ FirstOf(S) \in S
         /\ SumFunctionOnSet(f, S)
              = f[FirstOf(S)] + SumFunctionOnSet(f, S \ {FirstOf(S)})
<1>. DEFINE x == FirstOf(S)
<1>1. PICK g : SumsTo(f, S, g) /\ SumFunctionOnSet(f, S) = g[S]
  BY SumUnfolds
<1>2. x \in S /\ g[S] = f[x] + g[S \ {x}]
  BY <1>1, SumsAt
<1>. HIDE DEF x
<1>3. IsFiniteSet(S \ {x})
  BY FS_RemoveElement
<1>4. PICK h : SumsTo(f, S \ {x}, h) /\ SumFunctionOnSet(f, S \ {x}) = h[S \ {x}]
  BY <1>3, SumUnfolds
<1>5. g[S \ {x}] = h[S \ {x}]
  <2>1. S \ {x} \in SUBSET (S \cap (S \ {x}))
    OBVIOUS
  <2>. QED
    BY <1>1, <1>3, <1>4, <2>1, SumsAgree
<1>. QED
  BY <1>1, <1>2, <1>4, <1>5 DEF x

LEMMA SumType ==
  ASSUME NEW f, NEW S, IsFiniteSet(S), \A x \in S : f[x] \in Int
  PROVE  SumFunctionOnSet(f, S) \in Int
<1>. DEFINE G == {s \in SUBSET S : SumFunctionOnSet(f, s) \in Int}
<1>1. ASSUME NEW s \in SUBSET S, \A t \in SUBSET s : t # s => t \in G
      PROVE  SumFunctionOnSet(f, s) \in Int
  <2>1. CASE s = {}
    BY <2>1, SumEmpty
  <2>2. CASE s # {}
    <3>1. IsFiniteSet(s)
      BY FS_Subset
    <3>2. FirstOf(s) \in s
          /\ SumFunctionOnSet(f, s) = f[FirstOf(s)] + SumFunctionOnSet(f, s \ {FirstOf(s)})
      BY <2>2, <3>1, SumFirst
    <3>3. SumFunctionOnSet(f, s \ {FirstOf(s)}) \in Int
      BY <1>1, <3>2
    <3>. QED
      BY <3>2, <3>3
  <2>. QED
    BY <2>1, <2>2
<1>2. \A s \in SUBSET S : (\A t \in SUBSET s : t # s => t \in G) => s \in G
  BY <1>1
<1>3. G \subseteq {s \in SUBSET S : SumFunctionOnSet(f, s) \in Int}
  OBVIOUS
<1>. HIDE DEF G
<1>. QED
  BY <1>2, <1>3, SubsetsUp

\* Any summand may be taken first.
LEMMA SumTake ==
  ASSUME NEW f, NEW S, IsFiniteSet(S), \A x \in S : f[x] \in Int, NEW y \in S
  PROVE  SumFunctionOnSet(f, S) = f[y] + SumFunctionOnSet(f, S \ {y})
<1>. DEFINE Takes(s) == \A z \in s :
              SumFunctionOnSet(f, s) = f[z] + SumFunctionOnSet(f, s \ {z})
            G == {s \in SUBSET S : Takes(s)}
<1>1. \A s \in SUBSET S : IsFiniteSet(s) /\ SumFunctionOnSet(f, s) \in Int
  BY FS_Subset, SumType
<1>2. ASSUME NEW s \in SUBSET S, \A t \in SUBSET s : t # s => t \in G,
             NEW z \in s
      PROVE  SumFunctionOnSet(f, s) = f[z] + SumFunctionOnSet(f, s \ {z})
  <2>. DEFINE x == FirstOf(s)
  <2>1. x \in s /\ SumFunctionOnSet(f, s) = f[x] + SumFunctionOnSet(f, s \ {x})
    BY <1>1, SumFirst
  <2>. HIDE DEF x
  <2>2. CASE x = z
    BY <2>1, <2>2
  <2>3. CASE x # z
    <3>1. s \ {x} \in G /\ z \in s \ {x} /\ s \ {z} \in G /\ x \in s \ {z}
      BY <1>2, <2>1, <2>3
    <3>2. SumFunctionOnSet(f, s \ {x}) = f[z] + SumFunctionOnSet(f, (s \ {x}) \ {z})
      BY <3>1
    <3>3. SumFunctionOnSet(f, s \ {z}) = f[x] + SumFunctionOnSet(f, (s \ {z}) \ {x})
      BY <3>1
    <3>4. SumFunctionOnSet(f, (s \ {x}) \ {z}) = SumFunctionOnSet(f, (s \ {z}) \ {x})
      <4>1. (s \ {x}) \ {z} = (s \ {z}) \ {x}
        OBVIOUS
      <4>. QED
        BY <4>1, Zenon
    <3>5. /\ f[x] \in Int /\ f[z] \in Int
          /\ SumFunctionOnSet(f, (s \ {x}) \ {z}) \in Int
      BY <1>1, <2>1
    <3>. QED
      BY <2>1, <3>2, <3>3, <3>4, <3>5
  <2>. QED
    BY <2>2, <2>3
<1>3. \A s \in SUBSET S : (\A t \in SUBSET s : t # s => t \in G) => s \in G
  BY <1>2
<1>4. G \subseteq {s \in SUBSET S : Takes(s)}
  OBVIOUS
<1>. HIDE DEF G
<1>5. S \in G
  BY <1>3, SubsetsUp
<1>. QED
  BY <1>4, <1>5

LEMMA SumOne ==
  ASSUME NEW f, NEW x, f[x] \in Int
  PROVE  SumFunctionOnSet(f, {x}) = f[x]
<1>1. IsFiniteSet({x})
  BY FS_Singleton
<1>2. SumFunctionOnSet(f, {x}) = f[x] + SumFunctionOnSet(f, {x} \ {x})
  BY <1>1, SumTake
<1>3. {x} \ {x} = {}
  OBVIOUS
<1>. QED
  BY <1>2, <1>3, SumEmpty

LEMMA SumUnion ==
  ASSUME NEW f, NEW S, IsFiniteSet(S), NEW T, IsFiniteSet(T), S \cap T = {},
         \A x \in S \cup T : f[x] \in Int
  PROVE  SumFunctionOnSet(f, S \cup T) = SumFunctionOnSet(f, S) + SumFunctionOnSet(f, T)
<1>. DEFINE G == {s \in SUBSET T :
                    SumFunctionOnSet(f, S \cup s)
                      = SumFunctionOnSet(f, S) + SumFunctionOnSet(f, s)}
<1>1. \A s \in SUBSET T : IsFiniteSet(s) /\ IsFiniteSet(S \cup s)
                         /\ SumFunctionOnSet(f, s) \in Int /\ SumFunctionOnSet(f, S) \in Int
  BY FS_Subset, FS_Union, SumType
<1>2. ASSUME NEW s \in SUBSET T, \A t \in SUBSET s : t # s => t \in G
      PROVE  SumFunctionOnSet(f, S \cup s) = SumFunctionOnSet(f, S) + SumFunctionOnSet(f, s)
  <2>1. CASE s = {}
    <3>1. S \cup s = S
      BY <2>1
    <3>2. SumFunctionOnSet(f, S \cup s) = SumFunctionOnSet(f, S)
      BY <3>1, Zenon
    <3>3. SumFunctionOnSet(f, s) = 0
      BY <2>1, SumEmpty, Zenon
    <3>4. \A k \in Int : k = k + 0
      OBVIOUS
    <3>5. SumFunctionOnSet(f, S) = SumFunctionOnSet(f, S) + 0
      BY <1>1, <3>4, Zenon
    <3>. QED
      BY <3>2, <3>3, <3>5, Zenon
  <2>2. CASE s # {}
    <3>1. PICK x \in s : TRUE
      BY <2>2
    <3>2. SumFunctionOnSet(f, s) = f[x] + SumFunctionOnSet(f, s \ {x})
      <4>1. IsFiniteSet(s) /\ \A y \in s : f[y] \in Int
        BY <1>1
      <4>. QED
        BY <4>1, SumTake
    <3>3. SumFunctionOnSet(f, S \cup s) = f[x] + SumFunctionOnSet(f, (S \cup s) \ {x})
      <4>1. IsFiniteSet(S \cup s) /\ x \in S \cup s /\ \A y \in S \cup s : f[y] \in Int
        BY <1>1
      <4>. QED
        BY <4>1, SumTake
    <3>4. SumFunctionOnSet(f, (S \cup s) \ {x}) = SumFunctionOnSet(f, S \cup (s \ {x}))
      <4>1. (S \cup s) \ {x} = S \cup (s \ {x})
        OBVIOUS
      <4>. QED
        BY <4>1, Zenon
    <3>5. SumFunctionOnSet(f, S \cup (s \ {x}))
            = SumFunctionOnSet(f, S) + SumFunctionOnSet(f, s \ {x})
      <4>1. s \ {x} \in G
        BY <1>2
      <4>. QED
        BY <4>1, Zenon
    <3>6. f[x] \in Int /\ SumFunctionOnSet(f, s \ {x}) \in Int /\ SumFunctionOnSet(f, S) \in Int
      BY <1>1
    <3>. QED
      BY <3>2, <3>3, <3>4, <3>5, <3>6
  <2>. QED
    BY <2>1, <2>2
<1>3. \A s \in SUBSET T : (\A t \in SUBSET s : t # s => t \in G) => s \in G
  BY <1>2
<1>4. \A s \in G : SumFunctionOnSet(f, S \cup s)
                    = SumFunctionOnSet(f, S) + SumFunctionOnSet(f, s)
  OBVIOUS
<1>. HIDE DEF G
<1>5. T \in G
  BY <1>3, SubsetsUp
<1>. QED
  BY <1>4, <1>5

\* The same summands under other names.
LEMMA SumRenamed ==
  ASSUME NEW f, NEW S, IsFiniteSet(S), NEW e, NEW b,
         \A x \in S : f[x] = e[b[x]] /\ f[x] \in Int,
         \A x, y \in S : b[x] = b[y] => x = y
  PROVE  /\ IsFiniteSet({b[x] : x \in S})
         /\ SumFunctionOnSet(f, S) = SumFunctionOnSet(e, {b[x] : x \in S})
<1>. DEFINE named(s) == {b[x] : x \in s}
            G == {s \in SUBSET S :
                    /\ IsFiniteSet(named(s))
                    /\ SumFunctionOnSet(f, s) = SumFunctionOnSet(e, named(s))}
<1>1. ASSUME NEW s \in SUBSET S, \A t \in SUBSET s : t # s => t \in G
      PROVE  /\ IsFiniteSet(named(s))
             /\ SumFunctionOnSet(f, s) = SumFunctionOnSet(e, named(s))
  <2>1. CASE s = {}
    <3>1. named(s) = {}
      BY <2>1
    <3>. QED
      BY <2>1, <3>1, SumEmpty, FS_EmptySet
  <2>2. CASE s # {}
    <3>1. PICK x \in s : TRUE
      BY <2>2
    <3>2. s \ {x} \in G
      BY <1>1
    <3>3. named(s) = named(s \ {x}) \cup {b[x]} /\ b[x] \notin named(s \ {x})
      OBVIOUS
    <3>4. named(s) \ {b[x]} = named(s \ {x}) /\ b[x] \in named(s)
      BY <3>3
    <3>5. \A z \in named(s) : e[z] \in Int
      OBVIOUS
    <3>. HIDE DEF named
    <3>6. IsFiniteSet(named(s)) /\ IsFiniteSet(s)
      BY <3>2, <3>3, FS_AddElement, FS_Subset
    <3>7. SumFunctionOnSet(f, s) = f[x] + SumFunctionOnSet(f, s \ {x})
      BY <3>6, SumTake
    <3>8. SumFunctionOnSet(e, named(s)) = e[b[x]] + SumFunctionOnSet(e, named(s) \ {b[x]})
      BY <3>4, <3>5, <3>6, SumTake
    <3>. QED
      BY <3>2, <3>4, <3>6, <3>7, <3>8
  <2>. QED
    BY <2>1, <2>2
<1>2. \A s \in SUBSET S : (\A t \in SUBSET s : t # s => t \in G) => s \in G
  BY <1>1
<1>3. \A s \in G : /\ IsFiniteSet(named(s))
                   /\ SumFunctionOnSet(f, s) = SumFunctionOnSet(e, named(s))
  OBVIOUS
<1>. HIDE DEF G
<1>4. S \in G
  BY <1>2, SubsetsUp
<1>. QED
  BY <1>3, <1>4

--------------------------------------------------------------------------------
(* Sequences, whatever they hold *)

IsSeq(c) == c \in Seq(ToSet(c))

LEMMA SeqSelf ==
  ASSUME NEW S, NEW c \in Seq(S)
  PROVE  IsSeq(c)
<1>1. Len(c) \in Nat /\ c \in [1 .. Len(c) -> S] /\ DOMAIN c = 1 .. Len(c)
  BY LenProperties
<1>2. \A i \in 1 .. Len(c) : c[i] \in ToSet(c)
  BY <1>1 DEF ToSet
<1>3. c \in [1 .. Len(c) -> ToSet(c)]
  BY <1>1, <1>2
<1>. QED
  BY <1>1, <1>3, SeqDef DEF IsSeq

LEMMA SeqParts ==
  ASSUME NEW c, IsSeq(c)
  PROVE  Len(c) \in Nat /\ DOMAIN c = 1 .. Len(c)
BY LenProperties DEF IsSeq

LEMMA SeqSame ==
  ASSUME NEW c, IsSeq(c), NEW e, IsSeq(e), Len(c) = Len(e),
         \A i \in 1 .. Len(c) : c[i] = e[i]
  PROVE  c = e
<1>. DEFINE S == ToSet(c) \union ToSet(e)
<1>1. c \in Seq(S) /\ e \in Seq(S)
  BY SeqMonotonic DEF IsSeq
<1>. HIDE DEF S
<1>. QED
  BY <1>1, SeqEqual

LEMMA SeqGrown ==
  ASSUME NEW c, IsSeq(c), NEW b
  PROVE  /\ IsSeq(Append(c, b)) /\ Len(Append(c, b)) = Len(c) + 1
         /\ Append(c, b)[Len(c) + 1] = b
         /\ \A i \in 1 .. Len(c) : Append(c, b)[i] = c[i]
<1>. DEFINE S == ToSet(c) \union {b}
<1>1. c \in Seq(S) /\ b \in S
  BY SeqMonotonic DEF IsSeq
<1>. HIDE DEF S
<1>2. Append(c, b) \in Seq(S)
  BY <1>1
<1>3. IsSeq(Append(c, b))
  BY <1>2, SeqSelf, Zenon
<1>4. /\ Len(Append(c, b)) = Len(c) + 1 /\ Append(c, b)[Len(c) + 1] = b
      /\ \A i \in 1 .. Len(c) : Append(c, b)[i] = c[i]
  BY <1>1, AppendProperties
<1>. QED
  BY <1>3, <1>4

LEMMA SeqCut ==
  ASSUME NEW c, IsSeq(c), NEW n \in Int, n <= Len(c)
  PROVE  /\ IsSeq(SubSeq(c, 1, n))
         /\ Len(SubSeq(c, 1, n)) = IF n >= 0 THEN n ELSE 0
         /\ \A i \in 1 .. n : SubSeq(c, 1, n)[i] = c[i]
<1>1. Len(c) \in Nat /\ \A i \in 1 .. n : c[i] \in ToSet(c)
  BY SeqParts DEF ToSet
<1>2. /\ SubSeq(c, 1, n) \in Seq(ToSet(c))
      /\ Len(SubSeq(c, 1, n)) = IF 1 <= n THEN n - 1 + 1 ELSE 0
      /\ \A i \in 1 .. n - 1 + 1 : SubSeq(c, 1, n)[i] = c[1 + i - 1]
  BY <1>1, SubSeqProperties
<1>3. IsSeq(SubSeq(c, 1, n))
  BY <1>2, SeqSelf, Zenon
<1>. QED
  BY <1>1, <1>2, <1>3

LEMMA SeqJoined ==
  ASSUME NEW c, IsSeq(c), NEW e, IsSeq(e), NEW g, g = c \o e
  PROVE  /\ IsSeq(g) /\ Len(g) = Len(c) + Len(e)
         /\ \A i \in 1 .. Len(c) : g[i] = c[i]
         /\ \A i \in 1 .. Len(e) : g[Len(c) + i] = e[i]
<1>. DEFINE S == ToSet(c) \union ToSet(e)
<1>1. c \in Seq(S) /\ e \in Seq(S)
  BY SeqMonotonic DEF IsSeq
<1>2. Len(c) \in Nat /\ Len(e) \in Nat
  BY SeqParts
<1>. HIDE DEF S
<1>3. /\ g \in Seq(S) /\ Len(g) = Len(c) + Len(e)
      /\ \A i \in 1 .. Len(c) + Len(e) : g[i] = IF i <= Len(c) THEN c[i] ELSE e[i - Len(c)]
  BY <1>1, ConcatProperties
<1>4. IsSeq(g)
  BY <1>3, SeqSelf, Zenon
<1>. QED
  BY <1>2, <1>3, <1>4

LEMMA SeqMade ==
  ASSUME NEW n \in Nat, NEW f, f = [i \in 1 .. n |-> f[i]]
  PROVE  IsSeq(f) /\ Len(f) = n
<1>1. f \in [1 .. n -> ToSet(f)]
  BY DEF ToSet
<1>2. f \in Seq(ToSet(f))
  BY <1>1, SeqDef
<1>3. Len(f) \in Nat /\ DOMAIN f = 1 .. Len(f) /\ DOMAIN f = 1 .. n
  BY <1>2, LenProperties
<1>4. Len(f) = n
  <2>. DEFINE m == Len(f)
  <2>1. m \in Nat /\ 1 .. m = 1 .. n
    BY <1>3
  <2>. HIDE DEF m
  <2>2. m = n
    BY <2>1
  <2>. QED
    BY <2>2 DEF m
<1>. QED
  BY <1>2, <1>4 DEF IsSeq

--------------------------------------------------------------------------------
(* Boxes and chains *)

\* The scripts under which one amount of USE lies and nothing else.
Holders == {"depositor", "FeePot", "DepositReceipt", "claimant"}

Held(o) == o.tokens[1].amount

\* What the outputs of the Ergo chain look like.
Shaped(o) ==
  /\ {"script", "tokens"} \subseteq DOMAIN o
  /\ o.script \in Holders => o.tokens = <<Use(Held(o))>> /\ Held(o) \in Int
  /\ o.script = "DepositReceipt" => "R4" \in DOMAIN o /\ o.R4 \in Dests /\ Held(o) > 0
  /\ o.script = "UnlockIntent" => /\ {"R4", "R5"} \subseteq DOMAIN o
                                  /\ o.R4 \in DOMAIN Burned /\ o.R5 = Burned[o.R4]

IsBlock(b, h) ==
  /\ b.id = <<h, b.id[2]>> /\ b.id[2] \in Nat
  /\ \A i \in DOMAIN b.tx.outputs : Shaped(b.tx.outputs[i])

IsChain(c) == IsSeq(c) /\ \A h \in 1 .. Len(c) : IsBlock(c[h], h)

LEMMA UseOfOne ==
  ASSUME NEW o, NEW n \in Int, o.tokens = <<Use(n)>>
  PROVE  UseOf(o) = n
<1>. DEFINE at == {k \in DOMAIN o.tokens : o.tokens[k].id = "USE"}
            f == [k \in at |-> o.tokens[k].amount]
<1>1. at = {1} /\ o.tokens[1].amount = n
  BY DEF Use
<1>2. DOMAIN f = {1} /\ f[1] = n
  BY <1>1
<1>3. UseOf(o) = SumFunctionOnSet(f, DOMAIN f)
  BY DEF UseOf, SumFunction
<1>. HIDE DEF f
<1>4. UseOf(o) = SumFunctionOnSet(f, {1})
  BY <1>2, <1>3, Zenon
<1>. QED
  BY <1>2, <1>4, SumOne

LEMMA UseOfShaped ==
  ASSUME NEW o, Shaped(o), o.script \in Holders
  PROVE  UseOf(o) = Held(o) /\ Held(o) \in Int
BY UseOfOne DEF Shaped

LEMMA BoxIdParts ==
  ASSUME NEW b, NEW h, IsBlock(b, h), NEW i
  PROVE  BoxId(b, i)[1] = h /\ BoxId(b, i)[3] = i /\ BoxId(b, i)[2] = b.id[2]
BY DEF IsBlock, BoxId

\* A box of a chain keeps what its output says.
LEMMA BoxKeeps ==
  ASSUME NEW b, NEW i, Shaped(b.tx.outputs[i])
  PROVE  /\ Box(b, i).script = b.tx.outputs[i].script
         /\ Box(b, i).tokens = b.tx.outputs[i].tokens
         /\ \A r \in DOMAIN b.tx.outputs[i] \ {"id", "creation"} :
               Box(b, i)[r] = b.tx.outputs[i][r]
BY DEF Box, Shaped

Made(c, id) == \E h \in 1 .. Len(c) : \E i \in DOMAIN c[h].tx.outputs : id = BoxId(c[h], i)
Spent(c, id) == \E h \in 1 .. Len(c) : id \in ToSet(c[h].tx.inputs)

LEMMA UtxoIs ==
  ASSUME NEW c, IsChain(c)
  PROVE  /\ \A id : id \in DOMAIN Utxo(c) <=> Made(c, id) /\ ~ Spent(c, id)
         /\ \A id \in DOMAIN Utxo(c) : Utxo(c)[id] = Box(c[id[1]], id[3])
<1>. DEFINE made  == UNION {{<<h, i>> : i \in DOMAIN c[h].tx.outputs} : h \in DOMAIN c}
            spent == UNION {ToSet(c[h].tx.inputs) : h \in DOMAIN c}
            free  == {p \in made : BoxId(c[p[1]], p[2]) \notin spent}
            ids   == {BoxId(c[p[1]], p[2]) : p \in free}
<1>1. DOMAIN c = 1 .. Len(c)
  BY SeqParts DEF IsChain
<1>2. Utxo(c) = [id \in ids |-> Box(c[id[1]], id[3])]
  BY DEF Utxo
<1>3. \A id : id \in spent <=> Spent(c, id)
  BY <1>1 DEF Spent
<1>. HIDE DEF spent
<1>4. \A id : id \in ids <=> \E p \in made : id = BoxId(c[p[1]], p[2]) /\ id \notin spent
  OBVIOUS
<1>5. \A id : id \in ids <=> Made(c, id) /\ id \notin spent
  <2>1. ASSUME NEW id, id \in ids PROVE Made(c, id) /\ id \notin spent
    BY <1>1, <1>4, <2>1 DEF Made
  <2>2. ASSUME NEW id, Made(c, id), id \notin spent PROVE id \in ids
    <3>0. PICK h \in 1 .. Len(c) : \E i \in DOMAIN c[h].tx.outputs : id = BoxId(c[h], i)
      BY <2>2 DEF Made
    <3>1. PICK i \in DOMAIN c[h].tx.outputs : id = BoxId(c[h], i)
      BY <3>0
    <3>2. <<h, i>> \in made /\ <<h, i>>[1] = h /\ <<h, i>>[2] = i
      BY <1>1
    <3>. QED
      BY <1>4, <2>2, <3>1, <3>2
  <2>. QED
    BY <2>1, <2>2
<1>. HIDE DEF ids
<1>6. DOMAIN Utxo(c) = ids /\ \A id \in ids : Utxo(c)[id] = Box(c[id[1]], id[3])
  BY <1>2
<1>. QED
  BY <1>3, <1>5, <1>6

\* An unspent box and the output it is.
LEMMA UtxoAt ==
  ASSUME NEW c, IsChain(c), NEW id \in DOMAIN Utxo(c)
  PROVE  \E h \in 1 .. Len(c) : \E i \in DOMAIN c[h].tx.outputs :
           /\ id = BoxId(c[h], i) /\ id[1] = h /\ id[3] = i
           /\ Shaped(c[h].tx.outputs[i])
           /\ Utxo(c)[id] = Box(c[h], i)
           /\ Utxo(c)[id].script = c[h].tx.outputs[i].script
           /\ Utxo(c)[id].tokens = c[h].tx.outputs[i].tokens
<1>0. PICK h \in 1 .. Len(c) : \E i \in DOMAIN c[h].tx.outputs : id = BoxId(c[h], i)
  BY UtxoIs DEF Made
<1>1. PICK i \in DOMAIN c[h].tx.outputs : id = BoxId(c[h], i)
  BY <1>0
<1>2. IsBlock(c[h], h) /\ Shaped(c[h].tx.outputs[i])
  BY DEF IsChain, IsBlock
<1>3. id[1] = h /\ id[3] = i
  BY <1>1, <1>2, BoxIdParts
<1>4. Utxo(c)[id] = Box(c[h], i)
  BY <1>3, UtxoIs
<1>. QED
  BY <1>1, <1>2, <1>3, <1>4, BoxKeeps

\* What the boxes of a chain look like, unspent ones among them.
BoxShaped(b) ==
  /\ b.script \in Holders => /\ b.tokens = <<Use(Held(b))>> /\ Held(b) \in Int
                             /\ UseOf(b) = Held(b)
  /\ b.script = "DepositReceipt" => b.R4 \in Dests /\ Held(b) > 0
  /\ b.script = "UnlockIntent" => b.R4 \in DOMAIN Burned /\ b.R5 = Burned[b.R4]

UtxoShaped(u) == \A id \in DOMAIN u : BoxShaped(u[id])

LEMMA BoxIsShaped ==
  ASSUME NEW b, NEW i, Shaped(b.tx.outputs[i])
  PROVE  BoxShaped(Box(b, i))
<1>. DEFINE o == b.tx.outputs[i]
            e == Box(b, i)
<1>1. /\ e.script = o.script /\ e.tokens = o.tokens
      /\ "R4" \in DOMAIN o => e.R4 = o.R4
      /\ "R5" \in DOMAIN o => e.R5 = o.R5
  BY BoxKeeps
<1>2. Shaped(o)
  OBVIOUS
<1>. HIDE DEF o, e
<1>3. Held(e) = Held(o)
  BY <1>1 DEF Held
<1>4. e.script \in Holders => /\ e.tokens = <<Use(Held(e))>> /\ Held(e) \in Int
                              /\ UseOf(e) = Held(e)
  BY <1>1, <1>2, <1>3, UseOfOne DEF Shaped
<1>5. BoxShaped(e)
  BY <1>1, <1>2, <1>3, <1>4 DEF Shaped, BoxShaped
<1>. QED
  BY <1>5 DEF e

LEMMA UtxoIsShaped ==
  ASSUME NEW c, IsChain(c)
  PROVE  UtxoShaped(Utxo(c))
BY UtxoAt, BoxIsShaped DEF UtxoShaped

--------------------------------------------------------------------------------
(* What each kind of transaction spends and makes *)

LEMMA HoldsOne ==
  ASSUME NEW o, o.tokens = <<Use(Held(o))>>, Holds(o)
  PROVE  Held(o) > 0
BY DEF Holds, Held, Use

LEMMA LockMade ==
  ASSUME NEW u, NEW height, NEW tx \in Locks(u, height)
  PROVE  \E w \in WithScript(u, "depositor"), shape \in LockShapes,
            dest \in Dests, t \in Timeouts :
           tx = Signed(Spend(<<w>>, LockOuts(shape, u[w].tokens[1].amount, dest, height + t)))
BY DEF Locks

\* A lock spends one wallet box and makes receipts and fee pots.
LEMMA LockIs ==
  ASSUME NEW u, UtxoShaped(u), NEW height, NEW tx \in Locks(u, height),
         \A i \in DOMAIN tx.outputs : Holds(tx.outputs[i])
  PROVE  /\ \E w \in WithScript(u, "depositor") : tx.inputs = <<w>>
         /\ IsSeq(tx.outputs) /\ 1 \in DOMAIN tx.outputs
         /\ \A i \in DOMAIN tx.outputs : /\ Shaped(tx.outputs[i])
                                         /\ tx.outputs[i].script \in {"DepositReceipt", "FeePot"}
<1>. DEFINE r(n, dest, t) == Receipt(n, dest, height + t)
<1>1. PICK w \in WithScript(u, "depositor"), shape \in LockShapes,
           dest \in Dests, t \in Timeouts :
        tx = Signed(Spend(<<w>>, LockOuts(shape, u[w].tokens[1].amount, dest, height + t)))
  BY LockMade
<1>. DEFINE n == u[w].tokens[1].amount
<1>2. n \in Int
  BY DEF UtxoShaped, BoxShaped, WithScript, Holders, Held
<1>3. tx.inputs = <<w>> /\ tx.outputs = LockOuts(shape, n, dest, height + t)
  BY <1>1 DEF Signed, Spend, Tx
<1>. HIDE DEF n
<1>a. \/ tx.outputs = <<r(n, dest, t)>>
      \/ tx.outputs = <<r(n - 1, dest, t), FeePotBox(1)>>
      \/ tx.outputs = <<r(1, dest, t), r(n - 2, dest, t), FeePotBox(1)>>
  <2>1. shape \in {"plain", "fee", "split"}
    BY PegInAssumption
  <2>. HIDE DEF r
  <2>. QED
    BY <1>3, <2>1 DEF LockOuts, r
<1>4. \A m \in Int : /\ "script" \in DOMAIN r(m, dest, t) /\ "tokens" \in DOMAIN r(m, dest, t)
                     /\ "R4" \in DOMAIN r(m, dest, t) /\ r(m, dest, t).R4 \in Dests
                     /\ r(m, dest, t).script = "DepositReceipt"
                     /\ r(m, dest, t).tokens = <<Use(Held(r(m, dest, t)))>>
                     /\ Held(r(m, dest, t)) \in Int
  BY DEF Receipt, Held, Use
<1>5. Shaped(FeePotBox(1)) /\ FeePotBox(1).script = "FeePot"
  BY DEF FeePotBox, Shaped, Held, Use, Holders
<1>6. \A m \in Int : Holds(r(m, dest, t)) => Shaped(r(m, dest, t))
  BY <1>4, HoldsOne DEF Shaped
<1>7. n - 1 \in Int /\ n - 2 \in Int /\ 1 \in Int
  BY <1>2
<1>. HIDE DEF r
<1>8. \A i \in DOMAIN tx.outputs : \/ tx.outputs[i] = FeePotBox(1)
                                   \/ \E m \in Int : tx.outputs[i] = r(m, dest, t)
  BY <1>2, <1>a, <1>7
<1>9. IsSeq(tx.outputs) /\ 1 \in DOMAIN tx.outputs
  BY <1>a DEF IsSeq, ToSet
<1>10. ASSUME NEW i \in DOMAIN tx.outputs
       PROVE  /\ Shaped(tx.outputs[i])
              /\ tx.outputs[i].script \in {"DepositReceipt", "FeePot"}
  <2>1. CASE tx.outputs[i] = FeePotBox(1)
    BY <1>5, <2>1
  <2>2. ASSUME NEW m \in Int, tx.outputs[i] = r(m, dest, t)
        PROVE  /\ Shaped(tx.outputs[i])
               /\ tx.outputs[i].script \in {"DepositReceipt", "FeePot"}
    BY <1>4, <1>6, <2>2
  <2>. QED
    BY <1>8, <2>1, <2>2
<1>. QED
  BY <1>3, <1>9, <1>10

\* A merge spends the vault and some receipts and fee pots, and makes a vault first.
LEMMA MergeIs ==
  ASSUME NEW u, NEW tx \in Merges(u)
  PROVE  \E s \in SUBSET Absorbable(u) : \E n :
           /\ s # {} /\ tx.signers = {}
           /\ tx.inputs = <<Only(u, "PegVault")>> \o SetToSeq(s)
           /\ tx.outputs = <<Vault(n)>> \/ tx.outputs = <<Vault(n), Wallet(1)>>
<1>. DEFINE v == Only(u, "PegVault")
            sum(s) == u[v].tokens[2].amount + SumFunction([id \in s |-> UseOf(u[id])])
            S == (SUBSET Absorbable(u)) \ {{}}
            whole == {Spend(<<v>> \o SetToSeq(s), <<Vault(sum(s))>>) : s \in S}
            part == {Spend(<<v>> \o SetToSeq(s), <<Vault(sum(s) - 1), Wallet(1)>>) : s \in S}
<1>1. tx \in whole \union part
  BY Zenon DEF Merges
<1>2. \A s \in S : s \in SUBSET Absorbable(u) /\ s # {}
  OBVIOUS
<1>. HIDE DEF v, sum, S
<1>3. CASE tx \in whole
  <2>1. PICK s \in S : tx = Spend(<<v>> \o SetToSeq(s), <<Vault(sum(s))>>)
    BY <1>3, Zenon
  <2>2. /\ tx.inputs = <<v>> \o SetToSeq(s) /\ tx.signers = {}
        /\ tx.outputs = <<Vault(sum(s))>>
    BY <2>1 DEF Spend, Tx
  <2>. QED
    BY <1>2, <2>2, Zenon DEF v
<1>4. CASE tx \in part
  <2>1. PICK s \in S : tx = Spend(<<v>> \o SetToSeq(s), <<Vault(sum(s) - 1), Wallet(1)>>)
    BY <1>4, Zenon
  <2>2. /\ tx.inputs = <<v>> \o SetToSeq(s) /\ tx.signers = {}
        /\ tx.outputs = <<Vault(sum(s) - 1), Wallet(1)>>
    BY <2>1 DEF Spend, Tx
  <2>. QED
    BY <1>2, <2>2, Zenon DEF v
<1>. QED
  BY <1>1, <1>3, <1>4, Zenon

\* A refund spends a receipt and makes a wallet box.
LEMMA RefundIs ==
  ASSUME NEW u, NEW tx \in Refunds(u)
  PROVE  \E r \in WithScript(u, "DepositReceipt") :
           tx.inputs = <<r>> /\ tx.outputs = <<Wallet(UseOf(u[r]))>>
<1>1. PICK r \in WithScript(u, "DepositReceipt") :
        tx = Signed(Spend(<<r>>, <<Wallet(UseOf(u[r]))>>))
  BY Zenon DEF Refunds
<1>. QED
  BY <1>1 DEF Signed, Spend, Tx

\* A post spends the state box and makes one.
LEMMA PostIs ==
  ASSUME NEW u, NEW height, NEW tx \in Posts(u, height)
  PROVE  \E n : \E burns :
           /\ tx.inputs = <<Only(u, "SideChainState")>>
           /\ tx.outputs = <<StateBox(n, burns, height)>>
<1>. DEFINE st == Only(u, "SideChainState")
            box(b) == StateBox(u[st].R4 + 1, u[st].R6 @@ (b :> Burned[b]), height)
<1>1. Posts(u, height) = {Spend(<<st>>, <<box(b)>>) : b \in DOMAIN Burned \ DOMAIN u[st].R6}
  BY DEF Posts
<1>. HIDE DEF st, box
<1>2. PICK b \in DOMAIN Burned \ DOMAIN u[st].R6 : tx = Spend(<<st>>, <<box(b)>>)
  BY <1>1, Zenon
<1>. QED
  BY <1>2 DEF Spend, Tx, st, box

\* An intent spends nothing and names a burn.
LEMMA IntentIs ==
  ASSUME NEW u, NEW tx \in Intents(u)
  PROVE  \E b \in DOMAIN Burned : tx.inputs = <<>> /\ tx.outputs = <<Intent(b)>>
<1>1. PICK b \in DOMAIN Burned : tx = Spend(<<>>, <<Intent(b)>>)
  BY Zenon DEF Intents
<1>. QED
  BY <1>1 DEF Spend, Tx

Claimed(n) == [script |-> "claimant", tokens |-> <<Use(n)>>]

\* A payout spends the vault, an intent and the redeemed set, and makes a vault, the
\* redeemed set with the intent's burn, and the claimant's box.
LEMMA PayoutIs ==
  ASSUME NEW u, NEW tx \in Payouts(u)
  PROVE  \E i \in WithScript(u, "UnlockIntent") :
         \E n \in {Burned[b] - VaultFee(Burned[b]) : b \in DOMAIN Burned} :
           LET v == Only(u, "PegVault")
               d == Only(u, "DoubleRedeem")
           IN  /\ tx.inputs = <<v, i, d>>
               /\ tx.outputs = <<Vault(u[v].tokens[2].amount - n),
                                 Redeemed(u[d].R4 \union {u[i].R4}, u[i].R4), Claimed(n)>>
<1>. DEFINE v == Only(u, "PegVault")
            d == Only(u, "DoubleRedeem")
            st == Only(u, "SideChainState")
            outs(i, n) == <<Vault(u[v].tokens[2].amount - n),
                            Redeemed(u[d].R4 \union {u[i].R4}, u[i].R4), Claimed(n)>>
            N == {Burned[b] - VaultFee(Burned[b]) : b \in DOMAIN Burned}
<1>1. Payouts(u) = {Tx(<<v, i, d>>, <<st>>, outs(i, n)) : i \in WithScript(u, "UnlockIntent"),
                                                          n \in N}
  BY DEF Payouts, Claimed
<1>. HIDE DEF v, d, st, outs, N
<1>2. PICK i \in WithScript(u, "UnlockIntent"), n \in N : tx = Tx(<<v, i, d>>, <<st>>, outs(i, n))
  BY <1>1
<1>3. tx.inputs = <<v, i, d>> /\ tx.outputs = outs(i, n)
  BY <1>2 DEF Tx
<1>. QED
  BY <1>3 DEF v, d, outs, N

\* Whatever is mined, the outputs look like outputs.
LEMMA TxIsShaped ==
  ASSUME NEW u, UtxoShaped(u), NEW height, NEW tx \in Txs(u, height)
  PROVE  \A i \in DOMAIN tx.outputs : Shaped(tx.outputs[i])
<1>1. /\ \A i \in DOMAIN tx.outputs : Holds(tx.outputs[i])
      /\ \/ tx \in Locks(u, height)
         \/ tx \in Merges(u)
         \/ tx \in Refunds(u)
         \/ tx \in Posts(u, height)
         \/ tx \in Intents(u)
         \/ tx \in Payouts(u)
  BY Zenon DEF Txs
<1>2. \A n \in Int : Shaped(Wallet(n)) /\ Shaped(Claimed(n))
  BY DEF Shaped, Wallet, Claimed, Holders, Held, Use
<1>3. /\ \A n : Shaped(Vault(n))
      /\ \A n, b, t : Shaped(StateBox(n, b, t))
      /\ \A x, b : Shaped(Redeemed(x, b))
      /\ \A b \in DOMAIN Burned : Shaped(Intent(b))
  BY DEF Shaped, Vault, StateBox, Redeemed, Intent, Holders
<1>4. CASE tx \in Locks(u, height)
  BY <1>1, <1>4, LockIs
<1>5. CASE tx \in Merges(u)
  <2>1. PICK n : tx.outputs = <<Vault(n)>> \/ tx.outputs = <<Vault(n), Wallet(1)>>
    BY <1>5, MergeIs
  <2>. QED
    BY <1>2, <1>3, <2>1
<1>6. CASE tx \in Refunds(u)
  <2>1. PICK r \in WithScript(u, "DepositReceipt") : tx.outputs = <<Wallet(UseOf(u[r]))>>
    BY <1>6, RefundIs
  <2>2. UseOf(u[r]) \in Int
    BY DEF UtxoShaped, BoxShaped, WithScript, Holders
  <2>. QED
    BY <1>2, <2>1, <2>2
<1>7. CASE tx \in Posts(u, height)
  <2>1. PICK n, burns : tx.outputs = <<StateBox(n, burns, height)>>
    BY <1>7, PostIs
  <2>. QED
    BY <1>3, <2>1
<1>8. CASE tx \in Intents(u)
  <2>1. PICK b \in DOMAIN Burned : tx.outputs = <<Intent(b)>>
    BY <1>8, IntentIs
  <2>. QED
    BY <1>3, <2>1
<1>9. CASE tx \in Payouts(u)
  <2>. DEFINE v == Only(u, "PegVault")
              d == Only(u, "DoubleRedeem")
  <2>1. PICK i \in WithScript(u, "UnlockIntent"),
             n \in {Burned[b] - VaultFee(Burned[b]) : b \in DOMAIN Burned} :
          tx.outputs = <<Vault(u[v].tokens[2].amount - n),
                         Redeemed(u[d].R4 \union {u[i].R4}, u[i].R4), Claimed(n)>>
    BY <1>9, PayoutIs
  <2>2. n \in Int
    <3>1. PICK b \in DOMAIN Burned : n = Burned[b] - VaultFee(Burned[b])
      OBVIOUS
    <3>2. Burned[b] \in Int /\ FEE_FLOOR \in Int /\ FEE_BPS \in Int
      BY PegInAssumption, PegContractsAssumption
    <3>3. VaultFee(Burned[b]) \in Int
      BY <3>2 DEF VaultFee
    <3>. QED
      BY <3>1, <3>2, <3>3
  <2>. QED
    BY <1>2, <1>3, <2>1, <2>2
<1>. QED
  BY <1>1, <1>4, <1>5, <1>6, <1>7, <1>8, <1>9

--------------------------------------------------------------------------------
(* The chains: the best, the replaced and the followed one *)

Agree(n) == \A h \in 1 .. n : h \in 1 .. Len(followed) => followed[h] = ergo[h]

\* A block that has the id of the best chain's block is that block.
SameById(c) == \A h \in 1 .. Len(c) : h <= Len(ergo) /\ c[h].id = ergo[h].id => c[h] = ergo[h]

\* Fork numbers only grow, so that a block of a new branch is no old block; and a
\* node off the best chain is a reorganisation behind, and within the lag.
Chains ==
  /\ IsChain(ergo) /\ IsChain(stale) /\ IsChain(followed)
  /\ Len(followed) \in 1 .. Len(ergo) /\ Len(stale) < Len(ergo)
  /\ Fork \in Nat /\ ergo[Len(ergo)].id[2] = Fork
  /\ \A h \in 1 .. Len(ergo) : ergo[h].id[2] <= Fork
  /\ \A h \in 1 .. Len(followed) : followed[h].id[2] <= Fork
  /\ SameById(stale) /\ SameById(followed)
  /\ Agree(Len(followed) - MaxReorg)
  /\ Agree(Len(followed)) \/ Len(followed) + FollowerLag >= Len(ergo)

LEMMA GenesisOutputs ==
  LET outs == GenesisBlock.tx.outputs
  IN  /\ GenesisBlock.id = <<1, 0>> /\ GenesisBlock.tx.inputs = <<>>
      /\ IsSeq(outs) /\ {1, 2, 3} \subseteq DOMAIN outs
      /\ outs[1] = Vault(V0) /\ outs[2] = Redeemed({}, "none") /\ outs[3] = StateBox(0, <<>>, 0)
      /\ \A i \in DOMAIN outs : i \notin {1, 2, 3} => \E n \in Int : outs[i] = Wallet(n)
<1>. DEFINE W == [i \in DOMAIN Wallets |-> Wallet(Wallets[i])]
            F == <<Vault(V0), Redeemed({}, "none"), StateBox(0, <<>>, 0)>>
            G == GenesisBlock.tx.outputs
<1>1. GenesisBlock.id = <<1, 0>> /\ GenesisBlock.tx.inputs = <<>> /\ G = F \o W
  BY DEF GenesisBlock, Tx
<1>2. /\ IsSeq(F) /\ Len(F) = 3
      /\ F[1] = Vault(V0) /\ F[2] = Redeemed({}, "none") /\ F[3] = StateBox(0, <<>>, 0)
  BY DEF IsSeq, ToSet
<1>3. Len(Wallets) \in Nat /\ DOMAIN Wallets = 1 .. Len(Wallets)
      /\ \A i \in DOMAIN Wallets : Wallets[i] \in Int
  BY PegInAssumption
<1>4. /\ IsSeq(W) /\ Len(W) = Len(Wallets)
      /\ \A i \in 1 .. Len(Wallets) : W[i] = Wallet(Wallets[i])
  <2>1. W = [i \in 1 .. Len(Wallets) |-> W[i]]
    BY <1>3
  <2>2. \A i \in 1 .. Len(Wallets) : W[i] = Wallet(Wallets[i])
    BY <1>3
  <2>. HIDE DEF W
  <2>. QED
    BY <1>3, <2>1, <2>2, SeqMade
<1>. HIDE DEF F, W, G
<1>5. IsSeq(F) /\ IsSeq(W) /\ G = F \o W
  BY <1>1, <1>2, <1>4
<1>6. IsSeq(G)
  BY <1>5, SeqJoined, Zenon
<1>7. Len(G) = Len(F) + Len(W)
  BY <1>5, SeqJoined, Zenon
<1>8. \A i \in 1 .. Len(F) : G[i] = F[i]
  BY <1>5, SeqJoined
<1>9. \A i \in 1 .. Len(W) : G[Len(F) + i] = W[i]
  BY <1>5, SeqJoined
<1>10. DOMAIN G = 1 .. 3 + Len(Wallets)
  BY <1>2, <1>4, <1>6, <1>7, SeqParts
<1>11. G[1] = F[1] /\ G[2] = F[2] /\ G[3] = F[3]
  BY <1>2, <1>8
<1>12. ASSUME NEW i \in DOMAIN G, i \notin {1, 2, 3} PROVE \E n \in Int : G[i] = Wallet(n)
  <2>1. i - 3 \in 1 .. Len(Wallets) /\ i = 3 + (i - 3)
    BY <1>3, <1>10, <1>12
  <2>2. G[i] = Wallet(Wallets[i - 3]) /\ Wallets[i - 3] \in Int
    BY <1>2, <1>3, <1>4, <1>9, <2>1
  <2>. QED
    BY <2>2
<1>13. {1, 2, 3} \subseteq DOMAIN G
  BY <1>3, <1>10
<1>. QED
  BY <1>1, <1>2, <1>6, <1>11, <1>12, <1>13 DEF G

LEMMA GenesisIsBlock == IsBlock(GenesisBlock, 1)
<1>. DEFINE G == GenesisBlock.tx.outputs
<1>1. /\ GenesisBlock.id = <<1, 0>>
      /\ G[1] = Vault(V0) /\ G[2] = Redeemed({}, "none") /\ G[3] = StateBox(0, <<>>, 0)
      /\ \A i \in DOMAIN G : i \notin {1, 2, 3} => \E n \in Int : G[i] = Wallet(n)
  BY GenesisOutputs
<1>2. \A n \in Int : Shaped(Wallet(n))
  BY DEF Shaped, Wallet, Holders, Held, Use
<1>3. /\ Shaped(Vault(V0)) /\ Shaped(Redeemed({}, "none")) /\ Shaped(StateBox(0, <<>>, 0))
  BY DEF Shaped, Vault, StateBox, Redeemed, Holders
<1>. HIDE DEF G
<1>4. \A i \in DOMAIN G : Shaped(G[i])
  BY <1>1, <1>2, <1>3
<1>. QED
  BY <1>1, <1>4 DEF IsBlock, G

LEMMA GenesisIsChain == IsChain(<<GenesisBlock>>) /\ Len(<<GenesisBlock>>) = 1
<1>1. /\ IsSeq(<<GenesisBlock>>) /\ Len(<<GenesisBlock>>) = 1
      /\ <<GenesisBlock>>[1] = GenesisBlock
  BY DEF IsSeq, ToSet
<1>. QED
  BY <1>1, GenesisIsBlock DEF IsChain

\* A transaction that a chain may hold next.
Minable(c) == {NoTx} \union Txs(Utxo(c), Len(c) + 1)

LEMMA MinedIsBlock ==
  ASSUME NEW c, IsChain(c), NEW tx \in Minable(c), NEW h, NEW f \in Nat
  PROVE  IsBlock([id |-> <<h, f>>, tx |-> tx], h)
<1>1. \A i \in DOMAIN tx.outputs : Shaped(tx.outputs[i])
  <2>1. CASE tx = NoTx
    BY <2>1 DEF NoTx, Tx
  <2>2. CASE tx \in Txs(Utxo(c), Len(c) + 1)
    BY <2>2, TxIsShaped, UtxoIsShaped
  <2>. QED
    BY <2>1, <2>2 DEF Minable
<1>. QED
  BY <1>1 DEF IsBlock

LEMMA NoTxMinable == ASSUME NEW c PROVE NoTx \in Minable(c)
BY DEF Minable

LEMMA ChainGrown ==
  ASSUME NEW c, IsChain(c), NEW b, IsBlock(b, Len(c) + 1)
  PROVE  IsChain(Append(c, b))
<1>1. Len(c) \in Nat /\ IsSeq(c)
  BY SeqParts DEF IsChain
<1>. DEFINE e == Append(c, b)
<1>2. /\ IsSeq(e) /\ Len(e) = Len(c) + 1 /\ e[Len(c) + 1] = b
      /\ \A i \in 1 .. Len(c) : e[i] = c[i]
  BY <1>1, SeqGrown
<1>. HIDE DEF e
<1>3. \A h \in 1 .. Len(e) : IsBlock(e[h], h)
  BY <1>1, <1>2 DEF IsChain
<1>. QED
  BY <1>2, <1>3 DEF IsChain, e

LEMMA ChainCut ==
  ASSUME NEW c, IsChain(c), NEW n \in Int, n <= Len(c)
  PROVE  /\ IsChain(SubSeq(c, 1, n)) /\ Len(SubSeq(c, 1, n)) = IF n >= 0 THEN n ELSE 0
         /\ \A i \in 1 .. n : SubSeq(c, 1, n)[i] = c[i]
<1>1. Len(c) \in Nat /\ IsSeq(c)
  BY SeqParts DEF IsChain
<1>. DEFINE e == SubSeq(c, 1, n)
<1>2. /\ IsSeq(e) /\ Len(e) = IF n >= 0 THEN n ELSE 0
      /\ \A i \in 1 .. n : e[i] = c[i]
  BY <1>1, SeqCut
<1>. HIDE DEF e
<1>3. \A h \in 1 .. Len(e) : IsBlock(e[h], h)
  BY <1>1, <1>2 DEF IsChain
<1>. QED
  BY <1>2, <1>3 DEF IsChain, e

LEMMA ChainsInit == Init => Chains
<1>. SUFFICES ASSUME Init PROVE Chains
  OBVIOUS
<1>1. /\ ergo = <<GenesisBlock>> /\ followed = <<GenesisBlock>> /\ stale = <<>>
      /\ IsChain(ergo) /\ Len(ergo) = 1 /\ ergo[1] = GenesisBlock
  BY GenesisIsChain DEF Init
<1>2. IsChain(stale) /\ Len(stale) = 0
  BY <1>1 DEF IsChain, IsSeq, ToSet
<1>3. Fork = 0 /\ ergo[1].id[2] = 0
  BY <1>1 DEF Fork, GenesisBlock
<1>4. SameById(stale) /\ SameById(followed) /\ Agree(Len(followed) - MaxReorg)
      /\ Agree(Len(followed))
  BY <1>1, <1>2 DEF SameById, Agree
<1>. QED
  BY <1>1, <1>2, <1>3, <1>4 DEF Chains

LEMMA ChainsTypes ==
  ASSUME Chains
  PROVE  /\ Len(ergo) \in Nat \ {0} /\ Len(stale) \in Nat /\ Len(followed) \in Nat \ {0}
         /\ \A h \in 1 .. Len(ergo) : ergo[h].id[2] \in Nat
         /\ \A h \in 1 .. Len(followed) : followed[h].id[2] \in Nat
         /\ MaxReorg \in Nat /\ FollowerLag \in Nat /\ N_MINT \in Nat
<1>1. IsSeq(ergo) /\ IsSeq(stale) /\ IsSeq(followed)
  BY DEF Chains, IsChain
<1>2. Len(ergo) \in Nat /\ Len(stale) \in Nat /\ Len(followed) \in Nat
  BY <1>1, SeqParts
<1>3. /\ \A h \in 1 .. Len(ergo) : ergo[h].id[2] \in Nat
      /\ \A h \in 1 .. Len(followed) : followed[h].id[2] \in Nat
  <2>1. /\ \A h \in 1 .. Len(ergo) : IsBlock(ergo[h], h)
        /\ \A h \in 1 .. Len(followed) : IsBlock(followed[h], h)
    BY DEF Chains, IsChain
  <2>. QED
    BY <2>1 DEF IsBlock
<1>4. MaxReorg \in Nat /\ FollowerLag \in Nat /\ N_MINT \in Nat
  BY PegInAssumption, PegContractsAssumption
<1>5. Len(followed) \in 1 .. Len(ergo)
  BY DEF Chains
<1>. QED
  BY <1>2, <1>3, <1>4, <1>5

\* What both kinds of new branch have in common: the old blocks up to n, then newer
\* blocks of the current fork number.
LEMMA ChainsMoved ==
  ASSUME Chains, NEW n \in 0 .. Len(ergo), Len(ergo) < Len(ergo)', n >= Len(ergo) - MaxReorg,
         IsChain(ergo)', (Fork \in Nat)', Fork <= Fork',
         \A h \in 1 .. n : ergo'[h] = ergo[h],
         \A h \in 1 .. Len(ergo)' : h > n => ergo'[h].id[2] = Fork',
         n = Len(ergo) \/ Fork < Fork',
         WithinLag(ergo'), followed' = followed,
         stale' = stale \/ stale' = ergo, stale' = stale => n = Len(ergo)
  PROVE  Chains'
<1>1. /\ Len(ergo) \in Nat /\ Len(ergo)' \in Nat /\ Len(followed) \in Nat /\ Len(stale) \in Nat
      /\ Fork \in Nat /\ Fork' \in Nat /\ MaxReorg \in Nat /\ FollowerLag \in Nat
      /\ Len(followed) \in 1 .. Len(ergo) /\ Len(stale) < Len(ergo)
      /\ \A h \in 1 .. Len(ergo) : ergo[h].id[2] \in Nat /\ ergo[h].id[2] <= Fork
      /\ \A h \in 1 .. Len(followed) : followed[h].id[2] \in Nat /\ followed[h].id[2] <= Fork
      /\ n \in Nat /\ n <= Len(ergo)
  <2>1. /\ Len(ergo) \in Nat /\ Len(followed) \in Nat /\ Len(stale) \in Nat
        /\ MaxReorg \in Nat /\ FollowerLag \in Nat
        /\ \A h \in 1 .. Len(ergo) : ergo[h].id[2] \in Nat
        /\ \A h \in 1 .. Len(followed) : followed[h].id[2] \in Nat
    BY ChainsTypes
  <2>2. Len(ergo)' \in Nat
    BY SeqParts DEF IsChain
  <2>3. /\ Fork \in Nat /\ Len(followed) \in 1 .. Len(ergo) /\ Len(stale) < Len(ergo)
        /\ \A h \in 1 .. Len(ergo) : ergo[h].id[2] <= Fork
        /\ \A h \in 1 .. Len(followed) : followed[h].id[2] <= Fork
    BY DEF Chains
  <2>4. n \in Nat /\ n <= Len(ergo)
    BY <2>1
  <2>5. \A h \in 1 .. Len(ergo) : ergo[h].id[2] \in Nat /\ ergo[h].id[2] <= Fork
    BY <2>1, <2>3
  <2>6. \A h \in 1 .. Len(followed) : followed[h].id[2] \in Nat /\ followed[h].id[2] <= Fork
    BY <2>1, <2>3
  <2>7. Fork' \in Nat
    OBVIOUS
  <2>. QED
    BY <2>1, <2>2, <2>3, <2>4, <2>5, <2>6, <2>7, Zenon
<1>2. IsChain(stale)' /\ IsChain(followed)' /\ (Len(followed) \in 1 .. Len(ergo))'
      /\ (Len(stale) < Len(ergo))'
  BY <1>1 DEF Chains
<1>3. /\ ergo'[Len(ergo)'].id[2] = Fork'
      /\ \A h \in 1 .. Len(ergo)' : ergo'[h].id[2] <= Fork'
  <2>1. \A h \in 1 .. Len(ergo)' : h > n => ergo'[h].id[2] = Fork'
    OBVIOUS
  <2>2. ASSUME NEW h \in 1 .. n PROVE ergo'[h].id[2] <= Fork'
    <3>1. ergo'[h] = ergo[h] /\ h \in 1 .. Len(ergo)
      BY <1>1
    <3>2. ergo[h].id[2] \in Nat /\ ergo[h].id[2] <= Fork
      BY <1>1, <3>1
    <3>. QED
      BY <1>1, <3>1, <3>2
  <2>3. Len(ergo)' \in 1 .. Len(ergo)' /\ Len(ergo)' > n
    BY <1>1
  <2>4. \A h \in 1 .. Len(ergo)' : h \in 1 .. n \/ h > n
    BY <1>1
  <2>. QED
    BY <1>1, <2>1, <2>2, <2>3, <2>4
<1>4. \A h \in 1 .. Len(followed)' : followed'[h].id[2] <= Fork'
  BY <1>1
<1>5. ASSUME NEW h \in 1 .. Len(followed), h <= Len(ergo)', followed[h].id = ergo'[h].id
      PROVE  followed[h] = ergo'[h]
  <2>1. CASE h <= n
    BY <1>1, <1>5, <2>1 DEF Chains, SameById
  <2>2. CASE h > n
    BY <1>1, <1>5, <2>2
  <2>. QED
    BY <1>1, <2>1, <2>2
<1>6. SameById(followed)'
  BY <1>5 DEF SameById
<1>7. SameById(stale)'
  <2>1. CASE stale' = stale
    <3>1. n = Len(ergo) /\ SameById(stale)
      BY <2>1 DEF Chains
    <3>. SUFFICES ASSUME NEW h \in 1 .. Len(stale), h <= Len(ergo)', stale[h].id = ergo'[h].id
                  PROVE  stale[h] = ergo'[h]
      BY <2>1 DEF SameById
    <3>2. h \in 1 .. n /\ h <= Len(ergo)
      BY <1>1, <3>1
    <3>. QED
      BY <3>1, <3>2 DEF SameById
  <2>2. CASE stale' = ergo
    <3>. SUFFICES ASSUME NEW h \in 1 .. Len(ergo), h <= Len(ergo)', ergo[h].id = ergo'[h].id
                  PROVE  ergo[h] = ergo'[h]
      BY <2>2 DEF SameById
    <3>1. CASE h <= n
      BY <1>1, <3>1
    <3>2. CASE h > n
      BY <1>1, <3>2
    <3>. QED
      BY <1>1, <3>1, <3>2
  <2>. QED
    BY <2>1, <2>2
<1>8. Agree(Len(followed) - MaxReorg)'
  <2>1. ASSUME NEW h \in 1 .. Len(followed) - MaxReorg PROVE followed[h] = ergo'[h]
    <3>1. h \in 1 .. Len(followed) /\ h \in 1 .. n
      BY <1>1
    <3>. QED
      BY <3>1 DEF Chains, Agree
  <2>. QED
    BY <2>1 DEF Agree
<1>9. Agree(Len(followed))' \/ (Len(followed) + FollowerLag >= Len(ergo))'
  <2>1. CASE followed = SubSeq(ergo', 1, Len(followed))
    <3>1. \A h \in 1 .. Len(followed) : followed[h] = ergo'[h]
      <4>1. IsSeq(ergo')
        BY DEF IsChain
      <4>2. \A h \in 1 .. Len(followed) : SubSeq(ergo', 1, Len(followed))[h] = ergo'[h]
        BY <1>1, <4>1, SeqCut
      <4>. QED
        BY <2>1, <4>2
    <3>. QED
      BY <3>1 DEF Agree
  <2>. QED
    BY <2>1 DEF WithinLag, OnBestChain
<1>. QED
  BY <1>1, <1>2, <1>3, <1>4, <1>6, <1>7, <1>8, <1>9 DEF Chains

\* A mined block.
LEMMA MineIs ==
  ASSUME MineErgo
  PROVE  \E tx \in Minable(ergo) :
           /\ ergo' = Append(ergo, [id |-> <<Len(ergo) + 1, Fork>>, tx |-> tx])
           /\ WithinLag(ergo')
           /\ stale' = stale /\ followed' = followed
<1>1. {NoTx} \union (IF TxCount(ergo) < MaxTxs THEN Txs(Utxo(ergo), Len(ergo) + 1) ELSE {})
        \subseteq Minable(ergo)
  BY DEF Minable
<1>. QED
  BY <1>1 DEF MineErgo

\* The blocks of a new branch: one that may carry a transaction, and empty ones.
NewBlock(h, tx) == [id |-> <<h, Fork + 1>>, tx |-> tx]

LEMMA ReorgIs ==
  ASSUME Chains, ReorgErgo
  PROVE  \E d \in 1 .. MaxReorg : \E tx \in Minable(SubSeq(ergo, 1, Len(ergo) - d)) :
           /\ Len(ergo) > d /\ IsSeq(ergo') /\ Len(ergo') = Len(ergo) + 1
           /\ \A h \in 1 .. Len(ergo) - d : ergo'[h] = ergo[h]
           /\ \A h \in Len(ergo) - d + 1 .. Len(ergo) + 1 :
                 ergo'[h] = NewBlock(h, IF h = Len(ergo) - d + 1 THEN tx ELSE NoTx)
           /\ stale' = ergo /\ followed' = followed /\ WithinLag(ergo')
<1>1. PICK d \in 1 .. MaxReorg :
        LET kept == SubSeq(ergo, 1, Len(ergo) - d)
            fork == Last(ergo).id[2] + 1
        IN  /\ Len(ergo) > d
            /\ \E tx \in {NoTx} \union (IF TxCount(kept) < MaxTxs
                                        THEN Txs(Utxo(kept), Len(kept) + 1) ELSE {}) :
                  ergo' = kept \o [i \in 1 .. d + 1 |->
                                     [id |-> <<Len(kept) + i, fork>>,
                                      tx |-> IF i = 1 THEN tx ELSE NoTx]]
            /\ stale' = ergo /\ followed' = followed /\ WithinLag(ergo')
  BY DEF ReorgErgo
<1>. DEFINE kept == SubSeq(ergo, 1, Len(ergo) - d)
            fork == Last(ergo).id[2] + 1
<1>2. PICK tx \in {NoTx} \union (IF TxCount(kept) < MaxTxs
                                 THEN Txs(Utxo(kept), Len(kept) + 1) ELSE {}) :
        ergo' = kept \o [i \in 1 .. d + 1 |->
                           [id |-> <<Len(kept) + i, fork>>, tx |-> IF i = 1 THEN tx ELSE NoTx]]
  BY <1>1
<1>3. tx \in Minable(kept)
  BY DEF Minable
<1>4. Len(ergo) \in Nat /\ MaxReorg \in Nat /\ IsSeq(ergo) /\ fork = Fork + 1 /\ Len(ergo) > d
  BY <1>1, ChainsTypes DEF Chains, IsChain, Last
<1>5. /\ IsSeq(kept) /\ Len(kept) = Len(ergo) - d
      /\ \A i \in 1 .. Len(ergo) - d : kept[i] = ergo[i]
  <2>1. Len(ergo) - d \in Int /\ Len(ergo) - d <= Len(ergo) /\ Len(ergo) - d >= 0
    BY <1>4
  <2>. QED
    BY <1>4, <2>1, SeqCut
<1>. DEFINE new == [i \in 1 .. d + 1 |-> NewBlock(Len(kept) + i, IF i = 1 THEN tx ELSE NoTx)]
            e == kept \o new
<1>6. ergo' = kept \o new
  BY <1>2, <1>4 DEF NewBlock
<1>7. \A i \in 1 .. d + 1 : new[i] = NewBlock(Len(kept) + i, IF i = 1 THEN tx ELSE NoTx)
  OBVIOUS
<1>8. IsSeq(new) /\ Len(new) = d + 1
  <2>1. d + 1 \in Nat /\ new = [i \in 1 .. d + 1 |-> new[i]]
    BY <1>4
  <2>. HIDE DEF new
  <2>. QED
    BY <2>1, SeqMade
<1>. HIDE DEF kept, fork, new
<1>9. /\ Len(ergo') = Len(kept) + Len(new)
      /\ \A i \in 1 .. Len(kept) : ergo'[i] = kept[i]
      /\ \A i \in 1 .. Len(new) : ergo'[Len(kept) + i] = new[i]
      /\ IsSeq(ergo')
  <2>0. IsSeq(kept) /\ IsSeq(new)
    BY <1>5, <1>8
  <2>1. IsSeq(ergo')
    BY <1>6, <2>0, SeqJoined, Zenon
  <2>2. Len(ergo') = Len(kept) + Len(new)
    BY <1>6, <2>0, SeqJoined
  <2>3. \A i \in 1 .. Len(kept) : ergo'[i] = kept[i]
    BY <1>6, <2>0, SeqJoined
  <2>4. \A i \in 1 .. Len(new) : ergo'[Len(kept) + i] = new[i]
    BY <1>6, <2>0, SeqJoined
  <2>. QED
    BY <2>1, <2>2, <2>3, <2>4
<1>10. \A h \in 1 .. Len(ergo) - d : ergo'[h] = ergo[h]
  BY <1>5, <1>9
<1>11. ASSUME NEW h \in Len(ergo) - d + 1 .. Len(ergo) + 1
       PROVE  ergo'[h] = NewBlock(h, IF h = Len(ergo) - d + 1 THEN tx ELSE NoTx)
  <2>. DEFINE i == h - (Len(ergo) - d)
  <2>1. i \in 1 .. d + 1 /\ h = Len(kept) + i /\ (i = 1 <=> h = Len(ergo) - d + 1)
    BY <1>4, <1>5
  <2>. HIDE DEF i
  <2>2. ergo'[h] = new[i]
    BY <1>8, <1>9, <2>1
  <2>. QED
    BY <1>7, <2>1, <2>2
<1>12. Len(ergo') = Len(ergo) + 1
  BY <1>4, <1>5, <1>8, <1>9
<1>. QED
  BY <1>1, <1>3, <1>4, <1>9, <1>10, <1>11, <1>12 DEF kept

LEMMA ChainsMine ==
  ASSUME Chains, MineErgo
  PROVE  /\ Chains' /\ Len(ergo') = Len(ergo) + 1
         /\ \A h \in 1 .. Len(ergo) : ergo'[h] = ergo[h]
<1>1. PICK tx \in Minable(ergo) :
        /\ ergo' = Append(ergo, [id |-> <<Len(ergo) + 1, Fork>>, tx |-> tx])
        /\ WithinLag(ergo') /\ stale' = stale /\ followed' = followed
  BY MineIs
<1>. DEFINE b == [id |-> <<Len(ergo) + 1, Fork>>, tx |-> tx]
<1>2. IsChain(ergo) /\ Fork \in Nat /\ IsSeq(ergo) /\ Len(ergo) \in Nat /\ MaxReorg \in Nat
  BY ChainsTypes DEF Chains, IsChain
<1>3. IsBlock(b, Len(ergo) + 1) /\ b.id[2] = Fork
  BY <1>2, MinedIsBlock
<1>4. ergo' = Append(ergo, b)
  BY <1>1
<1>. HIDE DEF b
<1>5. IsChain(ergo)'
  BY <1>2, <1>3, <1>4, ChainGrown
<1>6. /\ Len(ergo') = Len(ergo) + 1 /\ ergo'[Len(ergo) + 1] = b
      /\ \A h \in 1 .. Len(ergo) : ergo'[h] = ergo[h]
  BY <1>2, <1>4, SeqGrown
<1>7. Fork' = Fork
  BY <1>1 DEF Fork
<1>8. \A h \in 1 .. Len(ergo)' : h > Len(ergo) => ergo'[h].id[2] = Fork'
  BY <1>2, <1>3, <1>6, <1>7
<1>. DEFINE n == Len(ergo)
<1>9. n \in 0 .. Len(ergo) /\ n >= Len(ergo) - MaxReorg /\ Len(ergo) < Len(ergo)'
      /\ (Fork \in Nat)' /\ Fork <= Fork'
  BY <1>2, <1>6, <1>7
<1>10. Chains'
  BY <1>1, <1>5, <1>6, <1>8, <1>9, ChainsMoved
<1>. QED
  BY <1>6, <1>10

LEMMA ChainsReorg ==
  ASSUME Chains, ReorgErgo
  PROVE  /\ Chains' /\ Len(ergo') = Len(ergo) + 1
         /\ \A h \in 1 .. Len(ergo) - MaxReorg : ergo'[h] = ergo[h]
<1>0. PICK d \in 1 .. MaxReorg : \E tx \in Minable(SubSeq(ergo, 1, Len(ergo) - d)) :
        /\ Len(ergo) > d /\ IsSeq(ergo') /\ Len(ergo') = Len(ergo) + 1
        /\ \A h \in 1 .. Len(ergo) - d : ergo'[h] = ergo[h]
        /\ \A h \in Len(ergo) - d + 1 .. Len(ergo) + 1 :
              ergo'[h] = NewBlock(h, IF h = Len(ergo) - d + 1 THEN tx ELSE NoTx)
        /\ stale' = ergo /\ followed' = followed /\ WithinLag(ergo')
  BY ReorgIs
<1>. DEFINE n == Len(ergo) - d
<1>1. PICK tx \in Minable(SubSeq(ergo, 1, n)) :
        /\ Len(ergo) > d /\ IsSeq(ergo') /\ Len(ergo') = Len(ergo) + 1
        /\ \A h \in 1 .. n : ergo'[h] = ergo[h]
        /\ \A h \in n + 1 .. Len(ergo) + 1 :
              ergo'[h] = NewBlock(h, IF h = n + 1 THEN tx ELSE NoTx)
        /\ stale' = ergo /\ followed' = followed /\ WithinLag(ergo')
  BY <1>0
<1>2. /\ IsChain(ergo) /\ Fork \in Nat /\ Len(ergo) \in Nat /\ MaxReorg \in Nat
      /\ Len(ergo) > 0 /\ ergo[Len(ergo)].id[2] = Fork
  BY ChainsTypes DEF Chains
<1>3. n \in Int /\ n <= Len(ergo) /\ n \in 0 .. Len(ergo) /\ n >= Len(ergo) - MaxReorg
      /\ n < Len(ergo)
  BY <1>1, <1>2
<1>. HIDE DEF n
<1>4. IsChain(SubSeq(ergo, 1, n))
  BY <1>2, <1>3, ChainCut
<1>5. ASSUME NEW h \in n + 1 .. Len(ergo) + 1
      PROVE  IsBlock(ergo'[h], h) /\ ergo'[h].id[2] = Fork + 1
  <2>1. PICK t \in {tx, NoTx} : ergo'[h] = NewBlock(h, t)
    BY <1>1
  <2>2. t \in Minable(SubSeq(ergo, 1, n))
    BY <2>1, NoTxMinable
  <2>. QED
    BY <1>2, <1>4, <2>1, <2>2, MinedIsBlock DEF NewBlock
<1>6. \A h \in 1 .. Len(ergo)' : IsBlock(ergo'[h], h)
  <2>1. ASSUME NEW h \in 1 .. n PROVE IsBlock(ergo'[h], h)
    BY <1>1, <1>2, <1>3 DEF IsChain
  <2>2. Len(ergo)' = Len(ergo) + 1
    BY <1>1
  <2>3. \A h \in 1 .. Len(ergo) + 1 : h \in 1 .. n \/ h \in n + 1 .. Len(ergo) + 1
    BY <1>2, <1>3
  <2>. QED
    BY <1>5, <2>1, <2>2, <2>3
<1>7. IsChain(ergo)'
  BY <1>1, <1>6 DEF IsChain
<1>8. Fork' = Fork + 1
  <2>1. ergo # <<>>
    BY <1>2
  <2>. QED
    BY <1>1, <1>2, <2>1 DEF Fork, Last
<1>9. \A h \in 1 .. Len(ergo)' : h > n => ergo'[h].id[2] = Fork'
  BY <1>1, <1>2, <1>3, <1>5, <1>8
<1>10. Len(ergo) < Len(ergo)' /\ (Fork \in Nat)' /\ Fork <= Fork' /\ Fork < Fork'
  BY <1>1, <1>2, <1>8
<1>11. stale' # stale
  BY <1>1, <1>2 DEF Chains
<1>12. Chains'
  BY <1>1, <1>3, <1>7, <1>9, <1>10, <1>11, ChainsMoved
<1>13. \A h \in 1 .. Len(ergo) - MaxReorg : ergo'[h] = ergo[h]
  BY <1>1, <1>2, <1>3
<1>. QED
  BY <1>1, <1>12, <1>13

LEMMA ChainsFollow ==
  ASSUME Chains, Follow
  PROVE  Chains'
<1>. DEFINE n == Len(followed) + 1
<1>1. Len(ergo) \in Nat /\ Len(followed) \in Nat /\ Len(followed) < Len(ergo)
      /\ followed' = SubSeq(ergo, 1, n) /\ ergo' = ergo /\ stale' = stale
      /\ MaxReorg \in Nat /\ IsChain(ergo)
  BY ChainsTypes DEF Follow, ergoVars, Chains
<1>2. n \in 1 .. Len(ergo)
  BY <1>1
<1>3. /\ IsChain(followed') /\ Len(followed') = n
      /\ \A h \in 1 .. n : followed'[h] = ergo[h]
  BY <1>1, <1>2, ChainCut
<1>. HIDE DEF n
<1>4. Fork' = Fork
  BY <1>1 DEF Fork
<1>5. /\ SameById(followed)' /\ Agree(Len(followed))' /\ Agree(Len(followed) - MaxReorg)'
      /\ SameById(stale)'
  BY <1>1, <1>2, <1>3 DEF SameById, Agree, Chains
<1>6. \A h \in 1 .. Len(followed)' : followed'[h].id[2] <= Fork'
  BY <1>1, <1>2, <1>3, <1>4 DEF Chains
<1>7. /\ IsChain(ergo)' /\ IsChain(stale)' /\ IsChain(followed)'
      /\ (Len(followed) \in 1 .. Len(ergo))' /\ (Len(stale) < Len(ergo))'
      /\ (Fork \in Nat)' /\ (ergo[Len(ergo)].id[2] = Fork)'
      /\ \A h \in 1 .. Len(ergo)' : ergo'[h].id[2] <= Fork'
  BY <1>1, <1>2, <1>3, <1>4 DEF Chains
<1>. QED
  BY <1>5, <1>6, <1>7 DEF Chains

\* The steps of the sidechain node's own state.
MintStep ==
  \/ \E chain \in {ergo, stale} \ {<<>>} : \E shown \in Shown(chain) :
        SetPegConfig(chain, shown \intersect DOMAIN chain)
  \/ \E chain \in {ergo, stale, followed} :
       \/ \E p \in Claims(chain) : ApplyBlock(<<p>>)
       \/ \E p, q \in {c \in Claims(chain) : VerifyPegmint(c, anchor, peg_used)} :
             ApplyBlock(<<p, q>>)
  \/ RollbackBlock

LEMMA MintStepKeeps ==
  ASSUME MintStep
  PROVE  UNCHANGED <<ergo, stale, followed>>
BY DEF MintStep, SetPegConfig, ApplyBlock, RollbackBlock, ergoVars, mintVars

LEMMA ChainsNext == Chains /\ [Next]_vars => Chains'
<1>. SUFFICES ASSUME Chains, [Next]_vars PROVE Chains'
  OBVIOUS
<1>1. ASSUME UNCHANGED <<ergo, stale, followed>> PROVE Chains'
  BY <1>1 DEF Chains, IsChain, SameById, Agree, Fork
<1>2. CASE MintStep
  BY <1>1, <1>2, MintStepKeeps
<1>3. CASE UNCHANGED vars
  BY <1>1, <1>3 DEF vars, ergoVars
<1>4. Next => MineErgo \/ ReorgErgo \/ Follow \/ MintStep
  BY DEF Next, MintStep
<1>. QED
  BY <1>2, <1>3, <1>4, ChainsMine, ChainsReorg, ChainsFollow

LEMMA ChainsAlways == Spec => []Chains
BY ChainsInit, ChainsNext, PTL DEF Spec

\* Confirmations outlast the deepest reorganisation and a follower's lag: what
\* pegmint.rs calls buried.
DeepEnough == MaxReorg + FollowerLag <= N_MINT

\* What is settled, every node that has it has alike.
LEMMA SettledAlike ==
  ASSUME Chains, DeepEnough
  PROVE  \A h \in 1 .. Len(followed) : h <= HRef(ergo) => followed[h] = ergo[h]
<1>. SUFFICES ASSUME NEW h \in 1 .. Len(followed), h <= HRef(ergo) PROVE followed[h] = ergo[h]
  OBVIOUS
<1>1. /\ Len(ergo) \in Nat /\ Len(followed) \in Nat /\ N_MINT \in Nat
      /\ MaxReorg \in Nat /\ FollowerLag \in Nat /\ h <= Len(ergo) - N_MINT
  BY ChainsTypes DEF HRef
<1>2. CASE Agree(Len(followed))
  BY <1>2 DEF Agree
<1>3. CASE Len(followed) + FollowerLag >= Len(ergo)
  <2>1. h \in 1 .. Len(followed) - MaxReorg
    BY <1>1, <1>3 DEF DeepEnough
  <2>. QED
    BY <2>1 DEF Chains, Agree
<1>. QED
  BY <1>2, <1>3 DEF Chains

LEMMA ViewIs ==
  ASSUME NEW f, IsSeq(f), NEW chain, Len(chain) \in Nat, CaughtUp(f, chain)
  PROVE  /\ ViewAt(f, chain) = SubSeq(f, 1, HRef(chain))
         /\ HRef(chain) \in Int /\ HRef(chain) <= Len(f)
<1>1. Len(f) \in Nat /\ HRef(chain) \in Int /\ HRef(chain) <= Len(f)
  BY SeqParts, PegContractsAssumption DEF HRef, CaughtUp
<1>2. Min({HRef(chain), Len(f)}) = HRef(chain)
  <2>. DEFINE r == HRef(chain)
              T == {r, Len(f)}
  <2>. HIDE DEF r
  <2>1. \A x \in T : (\A y \in T : x =< y) <=> x = r
    BY <1>1 DEF r
  <2>2. r \in T /\ \A y \in T : r =< y
    BY <1>1 DEF r
  <2>. HIDE DEF T
  <2>3. Min(T) = r
    BY <2>1, <2>2 DEF Min
  <2>. QED
    BY <2>3 DEF T, r
<1>. QED
  BY <1>1, <1>2 DEF ViewAt

LEMMA ViewsAlike ==
  ASSUME Chains, DeepEnough, CaughtUp(followed, ergo)
  PROVE  ViewAt(followed, ergo) = ViewAt(ergo, ergo)
<1>1. Len(ergo) \in Nat /\ Len(followed) \in Nat /\ N_MINT \in Nat
      /\ IsSeq(followed) /\ IsSeq(ergo) /\ Len(followed) <= Len(ergo)
  BY ChainsTypes DEF Chains, IsChain
<1>2. CaughtUp(ergo, ergo)
  BY <1>1 DEF CaughtUp, HRef
<1>. DEFINE r == HRef(ergo)
<1>3. /\ ViewAt(followed, ergo) = SubSeq(followed, 1, r)
      /\ ViewAt(ergo, ergo) = SubSeq(ergo, 1, r)
      /\ r \in Int /\ r <= Len(followed) /\ r <= Len(ergo)
  BY <1>1, <1>2, ViewIs
<1>4. \A h \in 1 .. r : followed[h] = ergo[h]
  BY <1>1, <1>3, SettledAlike
<1>. HIDE DEF r
<1>. DEFINE a == SubSeq(followed, 1, r)
            b == SubSeq(ergo, 1, r)
<1>5. /\ IsSeq(a) /\ Len(a) = IF r >= 0 THEN r ELSE 0
      /\ \A i \in 1 .. r : a[i] = followed[i]
  BY <1>1, <1>3, SeqCut
<1>6. /\ IsSeq(b) /\ Len(b) = IF r >= 0 THEN r ELSE 0
      /\ \A i \in 1 .. r : b[i] = ergo[i]
  BY <1>1, <1>3, SeqCut
<1>. HIDE DEF a, b
<1>7. a = b
  BY <1>3, <1>4, <1>5, <1>6, SeqSame
<1>. QED
  BY <1>3, <1>7 DEF a, b

\* Once a node does not defer a proof of the best chain, its verdict is the one of a
\* node that follows all of Ergo, whatever the proof shows: the verdict depends on the
\* settled part alone (pegmint.rs, comparative_policy).
LEMMA VerdictAgreesStep ==
  ASSUME Chains, DeepEnough
  PROVE  VerdictAgrees
<1>. SUFFICES ASSUME NEW shown \in Shown(ergo), NEW p \in HonestClaims(ergo)
              PROVE  LET s == shown \intersect DOMAIN ergo
                     IN  VerifyPegmintFull(ergo, s, p, followed, {})
                           \in {"defer", VerifyPegmintFull(ergo, s, p, ergo, {})}
  BY DEF VerdictAgrees
<1>. DEFINE s == shown \intersect DOMAIN ergo
<1>. HIDE DEF s
<1>1. CaughtUp(ergo, ergo)
  BY ChainsTypes DEF CaughtUp, HRef
<1>2. CASE ~ AnchoredDepth(ergo)
  BY <1>2 DEF VerifyPegmintFull, VerifyErgoChainComparative, s
<1>3. CASE AnchoredDepth(ergo) /\ ~ CaughtUp(followed, ergo)
  BY <1>3 DEF VerifyPegmintFull, VerifyErgoChainComparative, ComparativePolicy, s
<1>4. CASE AnchoredDepth(ergo) /\ CaughtUp(followed, ergo)
  <2>1. ViewAt(followed, ergo) = ViewAt(ergo, ergo)
    BY <1>4, ViewsAlike
  <2>2. ComparativePolicy(followed, ergo, s) = ComparativePolicy(ergo, ergo, s)
    BY <1>1, <1>4, <2>1 DEF ComparativePolicy
  <2>3. VerifyPegmintFull(ergo, s, p, followed, {}) = VerifyPegmintFull(ergo, s, p, ergo, {})
    BY <2>1, <2>2, Zenon DEF VerifyPegmintFull, VerifyErgoChainComparative
  <2>. QED
    BY <2>3 DEF s
<1>. QED
  BY <1>2, <1>3, <1>4

THEOREM VerdictAgreesCorrect ==
  ASSUME DeepEnough
  PROVE  Spec => []VerdictAgrees
<1>1. Chains => VerdictAgrees
  BY VerdictAgreesStep
<1>. QED
  BY <1>1, ChainsAlways, PTL

--------------------------------------------------------------------------------
(* The peg-mints *)

\* A leaf stands on Ergo, out of reach of a reorganisation: its receipt is an output
\* there and the input of a transaction that makes a vault.
BackedAt(m, l, o, k, inp) ==
  /\ l \in 1 .. Len(ergo) - MaxReorg /\ k \in 1 .. Len(ergo) - MaxReorg
  /\ o \in DOMAIN ergo[l].tx.outputs /\ inp \in DOMAIN ergo[k].tx.inputs
  /\ m.box_id = BoxId(ergo[l], o) /\ ergo[k].tx.inputs[inp] = m.box_id
  /\ Carries(ergo[k].tx.outputs[1], 1, "VaultNFT")
  /\ ergo[l].tx.outputs[o].script = "DepositReceipt"
  /\ m.note_value = Held(ergo[l].tx.outputs[o])

Backed(m) == \E l, o, k, inp : BackedAt(m, l, o, k, inp)

IdsIn(leaves, a, b) == {leaves[i].box_id : i \in a .. b}

\* The leaf count when undo record k was pushed, and when the next one was.
LeavesTo(k) == IF k = Len(undo) THEN Len(minted) ELSE undo[k + 1].prev_leaf_count

Undoable ==
  /\ IsSeq(undo)
  /\ \A k \in 1 .. Len(undo) :
       /\ undo[k].prev_leaf_count \in 0 .. Len(minted)
       /\ \A j \in k .. Len(undo) : undo[k].prev_leaf_count <= undo[j].prev_leaf_count
       /\ undo[k].added_box_ids = IdsIn(minted, undo[k].prev_leaf_count + 1, LeavesTo(k))

Anchored ==
  /\ IsSeq(anchor)
  /\ \A h \in 1 .. Len(anchor) : h <= Len(ergo) - MaxReorg /\ anchor[h] = ergo[h]

Minting ==
  /\ Anchored
  /\ IsSeq(minted)
  /\ \A i \in 1 .. Len(minted) : Backed(minted[i])
  /\ \A i, j \in 1 .. Len(minted) : minted[i].box_id = minted[j].box_id => i = j
  /\ peg_used = IdsIn(minted, 1, Len(minted))
  /\ Undoable

LEMMA MintingInit == Init => Minting
<1>. SUFFICES ASSUME Init PROVE Minting
  OBVIOUS
<1>1. anchor = <<>> /\ minted = <<>> /\ undo = <<>> /\ peg_used = {}
  BY DEF Init
<1>2. IsSeq(anchor) /\ IsSeq(minted) /\ IsSeq(undo)
      /\ Len(anchor) = 0 /\ Len(minted) = 0 /\ Len(undo) = 0
  BY <1>1 DEF IsSeq, ToSet
<1>3. IdsIn(minted, 1, Len(minted)) = {}
  BY <1>2 DEF IdsIn
<1>. QED
  BY <1>1, <1>2, <1>3 DEF Minting, Anchored, Undoable

\* Ergo grows, and keeps what is deeper than any reorganisation.
LEMMA ErgoKeeps ==
  ASSUME Chains, [Next]_vars
  PROVE  /\ Len(ergo) \in Nat /\ Len(ergo)' \in Nat /\ MaxReorg \in Nat
         /\ Len(ergo) <= Len(ergo)'
         /\ \A h \in 1 .. Len(ergo) - MaxReorg : ergo'[h] = ergo[h]
<1>0. Len(ergo) \in Nat /\ MaxReorg \in Nat
  BY ChainsTypes
<1>1. CASE ergo' = ergo
  BY <1>0, <1>1
<1>2. CASE MineErgo
  BY <1>0, <1>2, ChainsMine
<1>3. CASE ReorgErgo
  BY <1>0, <1>3, ChainsReorg
<1>4. [Next]_vars => MineErgo \/ ReorgErgo \/ Follow \/ MintStep \/ UNCHANGED vars
  BY DEF Next, MintStep
<1>5. Follow \/ UNCHANGED vars => ergo' = ergo
  BY DEF Follow, vars, ergoVars
<1>. QED
  BY <1>1, <1>2, <1>3, <1>4, <1>5, MintStepKeeps

LEMMA BackedKept ==
  ASSUME Chains, [Next]_vars, NEW m, Backed(m)
  PROVE  Backed(m)'
<1>1. PICK l, o, k, inp : BackedAt(m, l, o, k, inp)
  BY DEF Backed
<1>2. /\ Len(ergo) \in Nat /\ Len(ergo)' \in Nat /\ MaxReorg \in Nat
      /\ Len(ergo) <= Len(ergo)'
      /\ \A h \in 1 .. Len(ergo) - MaxReorg : ergo'[h] = ergo[h]
  BY ErgoKeeps
<1>3. ergo'[l] = ergo[l] /\ ergo'[k] = ergo[k]
      /\ l \in 1 .. Len(ergo)' - MaxReorg /\ k \in 1 .. Len(ergo)' - MaxReorg
  BY <1>1, <1>2 DEF BackedAt
<1>4. BackedAt(m, l, o, k, inp)'
  BY <1>1, <1>3 DEF BackedAt
<1>. QED
  BY <1>4 DEF Backed

\* A step that leaves the sidechain node's mint state alone.
LEMMA MintingKept ==
  ASSUME Chains, Minting, [Next]_vars, UNCHANGED <<anchor, mintVars>>
  PROVE  Minting'
<1>1. minted' = minted /\ peg_used' = peg_used /\ undo' = undo /\ anchor' = anchor
  BY DEF mintVars
<1>2. \A i \in 1 .. Len(minted)' : Backed(minted[i])'
  BY <1>1, BackedKept DEF Minting
<1>3. Anchored'
  <2>1. /\ Len(ergo) \in Nat /\ Len(ergo)' \in Nat /\ MaxReorg \in Nat
        /\ Len(ergo) <= Len(ergo)'
        /\ \A h \in 1 .. Len(ergo) - MaxReorg : ergo'[h] = ergo[h]
    BY ErgoKeeps
  <2>2. IsSeq(anchor) /\ Len(anchor) \in Nat
    BY SeqParts DEF Minting, Anchored
  <2>. QED
    BY <1>1, <2>1, <2>2 DEF Minting, Anchored
<1>4. Undoable'
  BY <1>1 DEF Minting, Undoable, LeavesTo
<1>. QED
  BY <1>1, <1>2, <1>3, <1>4 DEF Minting

LEMMA MintingAnchor ==
  ASSUME Chains, DeepEnough, Minting, NEW chain \in {ergo, stale}, NEW shown,
         SetPegConfig(chain, shown), [Next]_vars
  PROVE  Minting'
<1>1. /\ VerifyErgoChainComparative(chain, shown, followed) = "accept"
      /\ anchor' = ViewAt(followed, chain)
      /\ ergo' = ergo /\ minted' = minted /\ peg_used' = peg_used /\ undo' = undo
  BY DEF SetPegConfig, ergoVars, mintVars
<1>2. /\ Len(ergo) \in Nat /\ Len(followed) \in Nat /\ Len(chain) \in Nat /\ Len(chain) <= Len(ergo)
      /\ N_MINT \in Nat /\ MaxReorg \in Nat /\ FollowerLag \in Nat /\ IsSeq(followed)
  <2>1. /\ Len(ergo) \in Nat /\ Len(followed) \in Nat /\ Len(stale) \in Nat
        /\ N_MINT \in Nat /\ MaxReorg \in Nat /\ FollowerLag \in Nat
    BY ChainsTypes
  <2>2. Len(stale) < Len(ergo) /\ IsSeq(followed)
    BY DEF Chains, IsChain
  <2>3. CASE chain = ergo
    BY <2>1, <2>2, <2>3
  <2>4. CASE chain = stale
    BY <2>1, <2>2, <2>4
  <2>. QED
    BY <2>3, <2>4
<1>3. CaughtUp(followed, chain)
  BY <1>1 DEF VerifyErgoChainComparative, ComparativePolicy
<1>. DEFINE r == HRef(chain)
<1>4. anchor' = SubSeq(followed, 1, r) /\ r \in Int /\ r <= Len(followed)
  BY <1>1, <1>2, <1>3, ViewIs
<1>5. r <= HRef(ergo) /\ HRef(ergo) <= Len(ergo) - MaxReorg
  BY <1>2 DEF HRef, DeepEnough
<1>. HIDE DEF r
<1>6. /\ IsSeq(anchor') /\ Len(anchor') = IF r >= 0 THEN r ELSE 0
      /\ \A h \in 1 .. r : anchor'[h] = followed[h]
  BY <1>2, <1>4, SeqCut
<1>7. ASSUME NEW h \in 1 .. Len(anchor')
      PROVE  h <= Len(ergo) - MaxReorg /\ anchor'[h] = ergo[h]
  <2>1. h \in 1 .. r /\ h \in 1 .. Len(followed) /\ h <= HRef(ergo)
    <3>1. HRef(ergo) \in Int
      BY <1>2 DEF HRef
    <3>. QED
      BY <1>2, <1>4, <1>5, <1>6, <3>1
  <2>2. followed[h] = ergo[h]
    BY <2>1, SettledAlike
  <2>. QED
    BY <1>2, <1>5, <1>6, <2>1, <2>2 DEF HRef
<1>8. Anchored'
  BY <1>1, <1>6, <1>7 DEF Anchored
<1>9. \A i \in 1 .. Len(minted)' : Backed(minted[i])'
  BY <1>1, BackedKept DEF Minting
<1>10. Undoable'
  BY <1>1 DEF Minting, Undoable, LeavesTo
<1>. QED
  BY <1>1, <1>8, <1>9, <1>10 DEF Minting

\* The block that the anchor has at its height is Ergo's.
LEMMA SettledIsErgo ==
  ASSUME Chains, Anchored, NEW chain \in {ergo, stale, followed}, NEW h \in 1 .. Len(chain),
         Settled(anchor, chain[h])
  PROVE  h \in 1 .. Len(ergo) - MaxReorg /\ chain[h] = ergo[h]
<1>1. IsBlock(chain[h], h) /\ h \in Nat \ {0}
  BY ChainsTypes DEF Chains, IsChain
<1>2. chain[h].id[1] = h
  BY <1>1 DEF IsBlock
<1>3. h \in 1 .. Len(anchor) /\ anchor[h].id = chain[h].id
  <2>1. Len(anchor) \in Nat
    BY SeqParts DEF Anchored
  <2>2. RootHeight \in Nat
    BY PegInAssumption
  <2>. QED
    BY <1>1, <1>2, <2>1, <2>2 DEF Settled
<1>4. h <= Len(ergo) - MaxReorg /\ anchor[h] = ergo[h]
  BY <1>3 DEF Anchored
<1>5. Len(ergo) \in Nat /\ MaxReorg \in Nat
  BY ChainsTypes
<1>6. h <= Len(ergo) /\ chain[h].id = ergo[h].id
  BY <1>1, <1>3, <1>4, <1>5
<1>7. chain[h] = ergo[h]
  BY <1>6 DEF Chains, SameById
<1>. QED
  BY <1>1, <1>4, <1>5, <1>7

\* A verified mint is backed, and its receipt is new.
LEMMA VerifiedIsBacked ==
  ASSUME Chains, Anchored, NEW chain \in {ergo, stale, followed}, NEW p \in Claims(chain),
         NEW used, VerifyPegmint(p, anchor, used)
  PROVE  Backed(Effect(p)) /\ Effect(p).box_id \notin used
<1>1. PICK l \in DOMAIN chain, k \in DOMAIN chain :
        p \in {[lock |-> chain[l], out |-> o, cons |-> chain[k], inp |-> i] :
                 o \in DOMAIN chain[l].tx.outputs, i \in DOMAIN chain[k].tx.inputs}
  BY DEF Claims
<1>2. PICK o \in DOMAIN chain[l].tx.outputs, i \in DOMAIN chain[k].tx.inputs :
        p = [lock |-> chain[l], out |-> o, cons |-> chain[k], inp |-> i]
  BY <1>1
<1>3. p.lock = chain[l] /\ p.out = o /\ p.cons = chain[k] /\ p.inp = i
  BY <1>2
<1>4. Settled(anchor, chain[l]) /\ Settled(anchor, chain[k]) /\ ReceiptSteps(p, used)
  BY <1>3 DEF VerifyPegmint, CheckInclusion
<1>5. l \in 1 .. Len(chain) /\ k \in 1 .. Len(chain)
  BY SeqParts DEF Chains, IsChain
<1>6. /\ l \in 1 .. Len(ergo) - MaxReorg /\ chain[l] = ergo[l]
      /\ k \in 1 .. Len(ergo) - MaxReorg /\ chain[k] = ergo[k]
  BY <1>4, <1>5, SettledIsErgo
<1>7. /\ ergo[k].tx.inputs[i] = BoxId(ergo[l], o)
      /\ Carries(ergo[k].tx.outputs[1], 1, "VaultNFT")
      /\ ergo[l].tx.outputs[o].script = "DepositReceipt"
      /\ BoxId(ergo[l], o) \notin used
  BY <1>3, <1>4, <1>6 DEF ReceiptSteps
<1>8. /\ Effect(p).box_id = BoxId(ergo[l], o)
      /\ Effect(p).note_value = Held(ergo[l].tx.outputs[o])
  BY <1>3, <1>6 DEF Effect, Held
<1>9. BackedAt(Effect(p), l, o, k, i)
  BY <1>2, <1>6, <1>7, <1>8 DEF BackedAt
<1>. QED
  BY <1>7, <1>8, <1>9 DEF Backed

LEMMA MintingApply ==
  ASSUME Chains, Minting, NEW chain \in {ergo, stale, followed}, NEW proofs, IsSeq(proofs),
         \A i \in DOMAIN proofs : proofs[i] \in Claims(chain),
         ApplyBlock(proofs), [Next]_vars
  PROVE  Minting'
<1>. DEFINE eff == [i \in DOMAIN proofs |-> Effect(proofs[i])]
            ids == {eff[i].box_id : i \in DOMAIN eff}
            rec == [added_box_ids |-> ids, prev_pot |-> pot, prev_leaf_count |-> Len(minted)]
            N == Len(minted)
            P == Len(proofs)
<1>1. /\ Verified(proofs, peg_used)
      /\ minted' = minted \o eff /\ peg_used' = peg_used \union ids
      /\ undo' = Append(undo, rec)
      /\ ergo' = ergo /\ anchor' = anchor
  BY DEF ApplyBlock, ergoVars
<1>2. /\ IsSeq(minted) /\ IsSeq(undo) /\ N \in Nat /\ P \in Nat /\ DOMAIN proofs = 1 .. P
      /\ Len(undo) \in Nat /\ Anchored
  BY SeqParts DEF Minting, Undoable
<1>3. DOMAIN eff = 1 .. P /\ \A i \in 1 .. P : eff[i] = Effect(proofs[i])
  BY <1>2
<1>4. IsSeq(eff) /\ Len(eff) = P
  <2>1. eff = [i \in 1 .. P |-> eff[i]]
    BY <1>2
  <2>. HIDE DEF eff
  <2>. QED
    BY <1>2, <2>1, SeqMade
<1>5. ids = {eff[i].box_id : i \in 1 .. P}
  BY <1>3
<1>. HIDE DEF eff, ids, N, P
<1>6. /\ IsSeq(minted') /\ Len(minted') = N + P
      /\ \A i \in 1 .. N : minted'[i] = minted[i]
      /\ \A i \in 1 .. P : minted'[N + i] = eff[i]
  <2>1. IsSeq(minted) /\ IsSeq(eff) /\ minted' = minted \o eff
    BY <1>1, <1>2, <1>4
  <2>2. IsSeq(minted')
    BY <2>1, SeqJoined, Zenon
  <2>3. Len(minted') = Len(minted) + Len(eff)
    BY <2>1, SeqJoined
  <2>4. \A i \in 1 .. Len(minted) : minted'[i] = minted[i]
    BY <2>1, SeqJoined
  <2>5. \A i \in 1 .. Len(eff) : minted'[Len(minted) + i] = eff[i]
    BY <2>1, SeqJoined
  <2>. QED
    BY <1>4, <2>2, <2>3, <2>4, <2>5 DEF N
<1>7. ASSUME NEW i \in 1 .. P
      PROVE  /\ Backed(eff[i]) /\ eff[i].box_id \notin peg_used
             /\ \A j \in 1 .. i - 1 : eff[j].box_id # eff[i].box_id
  <2>. DEFINE used == peg_used \union {Effect(proofs[j]).box_id : j \in 1 .. i - 1}
  <2>1. VerifyPegmint(proofs[i], anchor, used) /\ proofs[i] \in Claims(chain)
    BY <1>1, <1>2 DEF Verified
  <2>2. \A id : id \in used <=> \/ id \in peg_used
                                \/ \E j \in 1 .. i - 1 : id = Effect(proofs[j]).box_id
    OBVIOUS
  <2>. HIDE DEF used
  <2>3. Backed(Effect(proofs[i])) /\ Effect(proofs[i]).box_id \notin used
    BY <1>2, <2>1, VerifiedIsBacked
  <2>4. \A j \in 1 .. i - 1 : j \in 1 .. P
    BY <1>2
  <2>. QED
    BY <1>3, <2>2, <2>3, <2>4
<1>8. \A i \in 1 .. N + P : i \in 1 .. N \/ (i - N \in 1 .. P /\ i = N + (i - N))
  BY <1>2
<1>9. ASSUME NEW i \in 1 .. N + P PROVE Backed(minted'[i])
  <2>1. CASE i \in 1 .. N
    BY <1>6, <2>1 DEF Minting, N
  <2>2. CASE i \notin 1 .. N
    <3>1. i - N \in 1 .. P /\ minted'[i] = eff[i - N]
      BY <1>6, <1>8, <2>2
    <3>. QED
      BY <1>7, <3>1
  <2>. QED
    BY <2>1, <2>2
<1>10. \A i \in 1 .. Len(minted)' : Backed(minted[i])'
  <2>. SUFFICES ASSUME NEW i \in 1 .. N + P PROVE Backed(minted[i])'
    BY <1>6
  <2>1. PICK l, o, k, inp : BackedAt(minted'[i], l, o, k, inp)
    BY <1>9 DEF Backed
  <2>2. BackedAt(minted[i], l, o, k, inp)'
    BY <1>1, <2>1 DEF BackedAt
  <2>. QED
    BY <2>2 DEF Backed
<1>11. \A i \in 1 .. N : minted[i].box_id \in peg_used
  BY DEF Minting, IdsIn, N
<1>12. ASSUME NEW i \in 1 .. N + P, NEW j \in 1 .. N + P, i < j,
              minted'[i].box_id = minted'[j].box_id
       PROVE  FALSE
  <2>1. CASE j \in 1 .. N
    <3>1. i \in 1 .. N
      BY <1>2, <1>12, <2>1
    <3>. QED
      BY <1>2, <1>6, <1>12, <2>1, <3>1 DEF Minting, N
  <2>2. CASE j \notin 1 .. N
    <3>1. j - N \in 1 .. P /\ minted'[j] = eff[j - N]
      BY <1>6, <1>8, <2>2
    <3>2. CASE i \in 1 .. N
      BY <1>6, <1>7, <1>11, <1>12, <3>1, <3>2
    <3>3. CASE i \notin 1 .. N
      <4>1. i - N \in 1 .. (j - N) - 1 /\ minted'[i] = eff[i - N]
        BY <1>2, <1>6, <1>8, <1>12, <3>1, <3>3
      <4>. QED
        BY <1>7, <1>12, <3>1, <4>1
    <3>. QED
      BY <3>2, <3>3
  <2>. QED
    BY <2>1, <2>2
<1>13. \A i, j \in 1 .. Len(minted)' : minted'[i].box_id = minted'[j].box_id => i = j
  BY <1>2, <1>6, <1>12
<1>14. peg_used' = IdsIn(minted', 1, N + P)
  <2>1. \A id : id \in peg_used <=> \E i \in 1 .. N : id = minted[i].box_id
    BY DEF Minting, IdsIn, N
  <2>2. \A id : id \in ids <=> \E i \in 1 .. P : id = eff[i].box_id
    BY <1>5
  <2>3. \A id : id \in IdsIn(minted', 1, N + P) <=> \E i \in 1 .. N + P : id = minted'[i].box_id
    BY DEF IdsIn
  <2>4. ASSUME NEW id, id \in peg_used' PROVE id \in IdsIn(minted', 1, N + P)
    <3>1. CASE id \in peg_used
      <4>1. PICK i \in 1 .. N : id = minted[i].box_id
        BY <2>1, <3>1
      <4>. QED
        BY <1>2, <1>6, <2>3, <4>1
    <3>2. CASE id \in ids
      <4>1. PICK i \in 1 .. P : id = eff[i].box_id
        BY <2>2, <3>2
      <4>2. N + i \in 1 .. N + P
        BY <1>2
      <4>. QED
        BY <1>6, <2>3, <4>1, <4>2
    <3>. QED
      BY <1>1, <2>4, <3>1, <3>2
  <2>5. ASSUME NEW id, id \in IdsIn(minted', 1, N + P) PROVE id \in peg_used'
    <3>1. PICK i \in 1 .. N + P : id = minted'[i].box_id
      BY <2>3, <2>5
    <3>2. CASE i \in 1 .. N
      BY <1>1, <1>6, <2>1, <3>1, <3>2
    <3>3. CASE i \notin 1 .. N
      <4>1. i - N \in 1 .. P /\ minted'[i] = eff[i - N]
        BY <1>6, <1>8, <3>3
      <4>. QED
        BY <1>1, <2>2, <3>1, <4>1
    <3>. QED
      BY <3>2, <3>3
  <2>. QED
    BY <2>4, <2>5
<1>15. Undoable'
  <2>. DEFINE K == Len(undo)
  <2>1. /\ IsSeq(undo') /\ Len(undo') = K + 1 /\ undo'[K + 1] = rec
        /\ \A k \in 1 .. K : undo'[k] = undo[k]
    BY <1>1, <1>2, SeqGrown
  <2>2. rec.prev_leaf_count = N /\ rec.added_box_ids = ids
    BY DEF N
  <2>. HIDE DEF rec
  <2>3. K \in Nat
    BY <1>2
  <2>4. \A k \in 1 .. K : LeavesTo(k)' = LeavesTo(k) /\ LeavesTo(k) \in 0 .. N
    <3>. SUFFICES ASSUME NEW k \in 1 .. K PROVE LeavesTo(k)' = LeavesTo(k) /\ LeavesTo(k) \in 0 .. N
      OBVIOUS
    <3>1. CASE k = K
      BY <1>2, <2>1, <2>2, <2>3, <3>1 DEF LeavesTo, N
    <3>2. CASE k # K
      <4>1. k + 1 \in 1 .. K /\ k # K + 1 /\ k # Len(undo')
        BY <2>1, <2>3, <3>2
      <4>2. undo[k + 1].prev_leaf_count \in 0 .. N
        BY <4>1 DEF Minting, Undoable, N
      <4>. QED
        BY <1>2, <2>1, <3>2, <4>1, <4>2 DEF LeavesTo
    <3>. QED
      BY <3>1, <3>2
  <2>5. \A k : k = K + 1 => LeavesTo(k)' = N + P
    BY <1>6, <2>1 DEF LeavesTo
  <2>6. ASSUME NEW k \in 1 .. K, NEW n \in Int, n <= N
        PROVE  IdsIn(minted', undo[k].prev_leaf_count + 1, n)
                 = IdsIn(minted, undo[k].prev_leaf_count + 1, n)
    <3>1. undo[k].prev_leaf_count \in Nat
      BY DEF Minting, Undoable
    <3>2. \A i \in undo[k].prev_leaf_count + 1 .. n : i \in 1 .. N
      BY <1>2, <2>6, <3>1
    <3>. QED
      BY <1>6, <3>2 DEF IdsIn
  <2>7. IdsIn(minted', N + 1, N + P) = ids
    <3>1. \A id : id \in ids <=> \E i \in 1 .. P : id = eff[i].box_id
      BY <1>5
    <3>2. \A id : id \in IdsIn(minted', N + 1, N + P)
                   <=> \E i \in N + 1 .. N + P : id = minted'[i].box_id
      BY DEF IdsIn
    <3>3. \A i \in 1 .. P : N + i \in N + 1 .. N + P
      BY <1>2
    <3>4. \A i \in N + 1 .. N + P : i - N \in 1 .. P /\ i = N + (i - N)
      BY <1>2
    <3>5. ASSUME NEW id, id \in ids PROVE id \in IdsIn(minted', N + 1, N + P)
      BY <1>6, <3>1, <3>2, <3>3, <3>5
    <3>6. ASSUME NEW id, id \in IdsIn(minted', N + 1, N + P) PROVE id \in ids
      BY <1>6, <3>1, <3>2, <3>4, <3>6
    <3>. QED
      BY <3>5, <3>6
  <2>8. ASSUME NEW k \in 1 .. K + 1
        PROVE  /\ undo'[k].prev_leaf_count \in 0 .. Len(minted')
               /\ \A j \in k .. K + 1 : undo'[k].prev_leaf_count <= undo'[j].prev_leaf_count
               /\ undo'[k].added_box_ids
                    = IdsIn(minted', undo'[k].prev_leaf_count + 1, LeavesTo(k)')
    <3>1. CASE k = K + 1
      <4>. HIDE DEF K
      <4>1. undo'[k] = rec /\ LeavesTo(k)' = N + P
        BY <2>1, <2>5, <3>1
      <4>2. \A j \in k .. K + 1 : j = k
        BY <2>3, <3>1
      <4>3. N \in 0 .. Len(minted')
        BY <1>2, <1>6
      <4>. QED
        BY <1>2, <2>2, <2>7, <4>1, <4>2, <4>3
    <3>2. CASE k # K + 1
      <4>1. k \in 1 .. K
        BY <2>3, <3>2
      <4>2. /\ undo[k].prev_leaf_count \in 0 .. N
            /\ \A j \in k .. K : undo[k].prev_leaf_count <= undo[j].prev_leaf_count
            /\ undo[k].added_box_ids = IdsIn(minted, undo[k].prev_leaf_count + 1, LeavesTo(k))
        BY <4>1 DEF Minting, Undoable, N
      <4>3. LeavesTo(k)' = LeavesTo(k) /\ LeavesTo(k) \in Int /\ LeavesTo(k) <= N
        BY <2>4, <4>1
      <4>4. undo'[k] = undo[k]
        BY <2>1, <4>1
      <4>5. undo'[k].added_box_ids
              = IdsIn(minted', undo'[k].prev_leaf_count + 1, LeavesTo(k)')
        BY <2>6, <4>1, <4>2, <4>3, <4>4
      <4>6. ASSUME NEW j \in k .. K + 1
            PROVE  undo'[k].prev_leaf_count <= undo'[j].prev_leaf_count
        <5>1. CASE j = K + 1
          BY <1>2, <2>1, <2>2, <4>2, <4>4, <5>1
        <5>2. CASE j # K + 1
          <6>1. j \in k .. K /\ j \in 1 .. K
            BY <2>3, <4>1, <5>2
          <6>. QED
            BY <2>1, <4>2, <4>4, <6>1
        <5>. QED
          BY <5>1, <5>2
      <4>. QED
        BY <1>2, <1>6, <4>2, <4>4, <4>5, <4>6
    <3>. QED
      BY <3>1, <3>2
  <2>. QED
    BY <2>1, <2>8 DEF Undoable
<1>16. Anchored'
  BY <1>1, <1>2 DEF Anchored
<1>. QED
  BY <1>6, <1>10, <1>13, <1>14, <1>15, <1>16 DEF Minting

LEMMA MintingRollback ==
  ASSUME Chains, Minting, RollbackBlock, [Next]_vars
  PROVE  Minting'
<1>. DEFINE N == Len(minted)
            K == Len(undo)
            c == undo[K].prev_leaf_count
<1>1. /\ IsSeq(minted) /\ IsSeq(undo) /\ N \in Nat /\ K \in Nat
      /\ Anchored /\ Undoable
  BY SeqParts DEF Minting, Undoable
<1>2. K # 0
  <2>1. undo # <<>> /\ undo \in Seq(ToSet(undo))
    BY <1>1 DEF RollbackBlock, IsSeq
  <2>. QED
    BY <2>1, EmptySeq
<1>3. /\ ergo' = ergo /\ anchor' = anchor
      /\ peg_used' = peg_used \ undo[K].added_box_ids
      /\ minted' = SubSeq(minted, 1, c)
      /\ undo' = SubSeq(undo, 1, K - 1)
  BY DEF RollbackBlock, ergoVars, Front, Last
<1>4. /\ K \in 1 .. K /\ c \in 0 .. N
      /\ undo[K].added_box_ids = IdsIn(minted, c + 1, N)
      /\ \A k \in 1 .. K : undo[k].prev_leaf_count \in 0 .. c
  <2>1. K \in 1 .. K /\ LeavesTo(K) = N
    BY <1>1, <1>2 DEF LeavesTo
  <2>2. /\ c \in 0 .. N /\ undo[K].added_box_ids = IdsIn(minted, c + 1, N)
    BY <1>1, <2>1 DEF Undoable
  <2>3. ASSUME NEW k \in 1 .. K PROVE undo[k].prev_leaf_count \in 0 .. c
    <3>1. K \in k .. K
      BY <2>1
    <3>2. undo[k].prev_leaf_count \in 0 .. N /\ undo[k].prev_leaf_count <= c
      BY <1>1, <3>1 DEF Undoable
    <3>. QED
      BY <1>1, <2>2, <3>2
  <2>. QED
    BY <2>1, <2>2, <2>3
<1>. HIDE DEF N, K, c
<1>5. /\ IsSeq(minted') /\ Len(minted') = c /\ \A i \in 1 .. c : minted'[i] = minted[i]
  BY <1>1, <1>3, <1>4, SeqCut DEF N
<1>6. /\ IsSeq(undo') /\ Len(undo') = K - 1 /\ \A k \in 1 .. K - 1 : undo'[k] = undo[k]
  <2>1. K - 1 \in Int /\ K - 1 <= K /\ K - 1 >= 0
    BY <1>1, <1>2
  <2>. DEFINE m == K - 1
  <2>2. m \in Int /\ m <= Len(undo) /\ m >= 0
    BY <2>1 DEF K
  <2>3. IsSeq(undo) /\ undo' = SubSeq(undo, 1, m)
    BY <1>1, <1>3
  <2>. HIDE DEF m
  <2>4. IsSeq(undo') /\ Len(undo') = m /\ \A k \in 1 .. m : undo'[k] = undo[k]
    BY <2>2, <2>3, SeqCut
  <2>. QED
    BY <2>4 DEF m
<1>7. \A i \in 1 .. c : i \in 1 .. N
  BY <1>1, <1>4
<1>8. \A i \in 1 .. Len(minted)' : Backed(minted[i])'
  <2>. SUFFICES ASSUME NEW i \in 1 .. c PROVE Backed(minted[i])'
    BY <1>5
  <2>1. Backed(minted[i]) /\ minted'[i] = minted[i]
    BY <1>5, <1>7 DEF Minting, N
  <2>2. PICK l, o, k, inp : BackedAt(minted[i], l, o, k, inp)
    BY <2>1 DEF Backed
  <2>3. BackedAt(minted[i], l, o, k, inp)'
    BY <1>3, <2>1, <2>2 DEF BackedAt
  <2>. QED
    BY <2>3 DEF Backed
<1>9. \A i, j \in 1 .. N : minted[i].box_id = minted[j].box_id => i = j
  BY DEF Minting, N
<1>10. \A i, j \in 1 .. Len(minted)' : minted'[i].box_id = minted'[j].box_id => i = j
  BY <1>5, <1>7, <1>9
<1>11. peg_used' = IdsIn(minted', 1, c)
  <2>1. peg_used = IdsIn(minted, 1, N)
    BY DEF Minting, N
  <2>2. ASSUME NEW id, id \in peg_used' PROVE id \in IdsIn(minted', 1, c)
    <3>1. PICK i \in 1 .. N : id = minted[i].box_id
      BY <1>3, <2>1, <2>2 DEF IdsIn
    <3>2. i \notin c + 1 .. N
      BY <1>3, <1>4, <2>2, <3>1 DEF IdsIn
    <3>3. i \in 1 .. c
      BY <1>1, <1>4, <3>2
    <3>. QED
      BY <1>5, <3>1, <3>3 DEF IdsIn
  <2>3. ASSUME NEW id, id \in IdsIn(minted', 1, c) PROVE id \in peg_used'
    <3>1. PICK i \in 1 .. c : id = minted[i].box_id
      BY <1>5, <2>3 DEF IdsIn
    <3>2. id \in peg_used
      BY <1>7, <2>1, <3>1 DEF IdsIn
    <3>3. id \notin IdsIn(minted, c + 1, N)
      <4>1. ASSUME NEW j \in c + 1 .. N, id = minted[j].box_id PROVE FALSE
        <5>1. j \in 1 .. N /\ i \in 1 .. N /\ i # j
          BY <1>1, <1>4
        <5>. QED
          BY <1>9, <3>1, <4>1, <5>1
      <4>. QED
        BY <4>1 DEF IdsIn
    <3>. QED
      BY <1>3, <1>4, <3>2, <3>3
  <2>. QED
    BY <2>2, <2>3
<1>12. Undoable'
  <2>1. ASSUME NEW k \in 1 .. K - 1
        PROVE  LeavesTo(k)' = LeavesTo(k) /\ LeavesTo(k) \in Int /\ LeavesTo(k) <= c
    <3>1. k + 1 \in 1 .. K /\ k # K
      BY <1>1, <1>2
    <3>2. LeavesTo(k) = undo[k + 1].prev_leaf_count /\ LeavesTo(k) \in 0 .. c
      BY <1>4, <3>1 DEF LeavesTo, K
    <3>3. CASE k = K - 1
      BY <1>1, <1>4, <1>5, <1>6, <3>2, <3>3 DEF LeavesTo, c
    <3>4. CASE k # K - 1
      <4>1. k + 1 \in 1 .. K - 1
        BY <1>1, <3>4
      <4>. QED
        BY <1>4, <1>6, <3>2, <3>4, <4>1 DEF LeavesTo
    <3>. QED
      BY <3>3, <3>4
  <2>2. ASSUME NEW k \in 1 .. K, NEW n \in Int, n <= c
        PROVE  IdsIn(minted', undo[k].prev_leaf_count + 1, n)
                 = IdsIn(minted, undo[k].prev_leaf_count + 1, n)
    <3>1. undo[k].prev_leaf_count \in Nat
      BY <1>4
    <3>2. \A i \in undo[k].prev_leaf_count + 1 .. n : i \in 1 .. c
      BY <1>4, <2>2, <3>1
    <3>. QED
      BY <1>5, <3>2 DEF IdsIn
  <2>3. ASSUME NEW k \in 1 .. K - 1
        PROVE  /\ undo'[k].prev_leaf_count \in 0 .. Len(minted')
               /\ \A j \in k .. K - 1 : undo'[k].prev_leaf_count <= undo'[j].prev_leaf_count
               /\ undo'[k].added_box_ids
                    = IdsIn(minted', undo'[k].prev_leaf_count + 1, LeavesTo(k)')
    <3>1. k \in 1 .. K
      BY <1>1
    <3>2. /\ \A j \in k .. K : undo[k].prev_leaf_count <= undo[j].prev_leaf_count
          /\ undo[k].added_box_ids = IdsIn(minted, undo[k].prev_leaf_count + 1, LeavesTo(k))
      BY <1>1, <3>1 DEF Undoable, K
    <3>3. undo'[k] = undo[k]
      BY <1>6
    <3>4. \A j \in k .. K - 1 : j \in k .. K /\ undo'[j] = undo[j]
      BY <1>1, <1>6
    <3>5. undo'[k].added_box_ids
            = IdsIn(minted', undo'[k].prev_leaf_count + 1, LeavesTo(k)')
      BY <2>1, <2>2, <3>1, <3>2, <3>3
    <3>. QED
      BY <1>4, <1>5, <3>1, <3>2, <3>3, <3>4, <3>5
  <2>. QED
    BY <1>6, <2>3 DEF Undoable
<1>13. Anchored'
  BY <1>1, <1>3 DEF Anchored
<1>. QED
  BY <1>5, <1>8, <1>10, <1>11, <1>12, <1>13 DEF Minting

LEMMA MintingNext ==
  ASSUME DeepEnough
  PROVE  Chains /\ Minting /\ [Next]_vars => Minting'
<1>. SUFFICES ASSUME Chains, Minting, [Next]_vars PROVE Minting'
  OBVIOUS
<1>1. CASE UNCHANGED <<anchor, mintVars>>
  BY <1>1, MintingKept
<1>2. CASE \E chain \in {ergo, stale} \ {<<>>} : \E shown \in Shown(chain) :
             SetPegConfig(chain, shown \intersect DOMAIN chain)
  <2>1. PICK chain \in {ergo, stale} : \E shown : SetPegConfig(chain, shown)
    BY <1>2
  <2>2. PICK shown : SetPegConfig(chain, shown)
    BY <2>1
  <2>. QED
    BY <2>2, MintingAnchor
<1>3. CASE \E chain \in {ergo, stale, followed} : \E p \in Claims(chain) : ApplyBlock(<<p>>)
  <2>1. PICK chain \in {ergo, stale, followed} : \E p \in Claims(chain) : ApplyBlock(<<p>>)
    BY <1>3
  <2>2. PICK p \in Claims(chain) : ApplyBlock(<<p>>)
    BY <2>1
  <2>3. IsSeq(<<p>>) /\ \A i \in DOMAIN <<p>> : <<p>>[i] \in Claims(chain)
    BY DEF IsSeq, ToSet
  <2>. QED
    BY <2>2, <2>3, MintingApply
<1>4. CASE \E chain \in {ergo, stale, followed} :
             \E p, q \in {c \in Claims(chain) : VerifyPegmint(c, anchor, peg_used)} :
               ApplyBlock(<<p, q>>)
  <2>1. PICK chain \in {ergo, stale, followed} :
             \E p, q \in {c \in Claims(chain) : VerifyPegmint(c, anchor, peg_used)} :
               ApplyBlock(<<p, q>>)
    BY <1>4
  <2>2. PICK p \in Claims(chain), q \in Claims(chain) : ApplyBlock(<<p, q>>)
    BY <2>1
  <2>3. IsSeq(<<p, q>>) /\ \A i \in DOMAIN <<p, q>> : <<p, q>>[i] \in Claims(chain)
    BY DEF IsSeq, ToSet
  <2>. QED
    BY <2>2, <2>3, MintingApply
<1>5. CASE RollbackBlock
  BY <1>5, MintingRollback
<1>6. MineErgo \/ ReorgErgo \/ Follow \/ UNCHANGED vars => UNCHANGED <<anchor, mintVars>>
  BY DEF MineErgo, ReorgErgo, Follow, vars
<1>7. Next \/ UNCHANGED vars
  OBVIOUS
<1>. QED
  BY <1>1, <1>2, <1>3, <1>4, <1>5, <1>6, <1>7 DEF Next

LEMMA MintingAlways ==
  ASSUME DeepEnough
  PROVE  Spec => [](Chains /\ Minting)
<1>1. Init => Chains /\ Minting
  BY ChainsInit, MintingInit
<1>2. Chains /\ Minting /\ [Next]_vars => (Chains /\ Minting)'
  BY ChainsNext, MintingNext
<1>. QED
  BY <1>1, <1>2, PTL DEF Spec

\* A leaf that is backed is one the vault absorbed on Ergo, for the amount minted.
LEMMA BackedIsAbsorbed ==
  ASSUME Chains, NEW m, Backed(m)
  PROVE  m.box_id \in AbsorbedIds(ergo) /\ AmountOf(ergo, m.box_id) = m.note_value
<1>1. PICK l, o, k, inp : BackedAt(m, l, o, k, inp)
  BY DEF Backed
<1>2. /\ Len(ergo) \in Nat /\ MaxReorg \in Nat /\ DOMAIN ergo = 1 .. Len(ergo)
      /\ \A h \in 1 .. Len(ergo) : IsBlock(ergo[h], h)
  BY ChainsTypes, SeqParts DEF Chains, IsChain
<1>3. l \in 1 .. Len(ergo) /\ k \in 1 .. Len(ergo)
  BY <1>1, <1>2 DEF BackedAt
<1>. DEFINE out == ergo[l].tx.outputs[o]
<1>4. m.box_id[1] = l /\ m.box_id[3] = o
  BY <1>1, <1>2, <1>3, BoxIdParts DEF BackedAt
<1>5. out.script = "DepositReceipt" /\ Shaped(out) /\ m.note_value = Held(out)
  BY <1>1, <1>2, <1>3 DEF BackedAt, IsBlock
<1>6. k \in VaultTxs(ergo)
  <2>1. ergo[k].tx.inputs # <<>>
    BY <1>1 DEF BackedAt
  <2>2. Carries(ergo[k].tx.outputs[1], 1, "VaultNFT")
    BY <1>1 DEF BackedAt
  <2>. QED
    BY <1>2, <1>3, <2>1, <2>2, Zenon DEF VaultTxs
<1>7. m.box_id \in ToSet(ergo[k].tx.inputs)
  BY <1>1 DEF BackedAt, ToSet
<1>8. ergo[m.box_id[1]].tx.outputs[m.box_id[3]] = out
  BY <1>4
<1>. HIDE DEF out
<1>9. m.box_id \in AbsorbedIds(ergo)
  <2>1. m.box_id \in UNION {ToSet(ergo[h].tx.inputs) : h \in VaultTxs(ergo)}
    BY <1>6, <1>7, Zenon
  <2>. QED
    BY <1>5, <1>8, <2>1 DEF AbsorbedIds
<1>10. UseOf(out) = Held(out)
  BY <1>5, UseOfShaped DEF Holders
<1>. QED
  BY <1>5, <1>8, <1>9, <1>10 DEF AmountOf

\* No receipt is minted twice, and each minted receipt is one the vault absorbed on the
\* Ergo chain as it stands, for the amount minted, whatever reorganisations and roll-backs
\* came between (pegmint_steps.rs receipt_steps, state.rs apply_block and rollback).
THEOREM MintedIsAbsorbedCorrect ==
  ASSUME DeepEnough
  PROVE  Spec => []MintedIsAbsorbed
<1>1. ASSUME Chains, Minting PROVE MintedIsAbsorbed
  <2>1. DOMAIN minted = 1 .. Len(minted)
    BY <1>1, SeqParts DEF Minting
  <2>2. ASSUME NEW i \in 1 .. Len(minted)
        PROVE  /\ minted[i].box_id \in AbsorbedIds(ergo)
               /\ AmountOf(ergo, minted[i].box_id) = minted[i].note_value
    <3>1. Backed(minted[i])
      BY <1>1 DEF Minting
    <3>. QED
      BY <1>1, <3>1, BackedIsAbsorbed
  <2>3. \A i, j \in 1 .. Len(minted) : minted[i].box_id = minted[j].box_id => i = j
    BY <1>1 DEF Minting
  <2>. QED
    BY <2>1, <2>2, <2>3 DEF MintedIsAbsorbed
<1>. QED
  BY <1>1, MintingAlways, PTL

--------------------------------------------------------------------------------
(* The vault *)

\* What a transaction spends lies on the chain.
Refers(c) == \A h \in 1 .. Len(c) : \A id \in ToSet(c[h].tx.inputs) : Made(c, id)

\* A block that may follow on a chain: it spends what is unspent there.
Follows(c, b) ==
  /\ IsChain(c) /\ Refers(c) /\ IsBlock(b, Len(c) + 1)
  /\ \A id \in ToSet(b.tx.inputs) : id \in DOMAIN Utxo(c)

Grown(c, b, e) == Follows(c, b) /\ e = Append(c, b)

MadeBy(b, id) == \E i \in DOMAIN b.tx.outputs : id = BoxId(b, i)

LEMMA MadeAt ==
  ASSUME NEW c, IsChain(c), NEW id, Made(c, id)
  PROVE  /\ id[1] \in 1 .. Len(c) /\ id[3] \in DOMAIN c[id[1]].tx.outputs
         /\ id = BoxId(c[id[1]], id[3])
         /\ Shaped(c[id[1]].tx.outputs[id[3]])
<1>1. PICK h \in 1 .. Len(c) : MadeBy(c[h], id)
  BY DEF Made, MadeBy
<1>2. PICK i \in DOMAIN c[h].tx.outputs : id = BoxId(c[h], i)
  BY <1>1 DEF MadeBy
<1>3. IsBlock(c[h], h)
  BY DEF IsChain
<1>4. id[1] = h /\ id[3] = i /\ Shaped(c[h].tx.outputs[i])
  BY <1>2, <1>3, BoxIdParts DEF IsBlock
<1>. QED
  BY <1>2, <1>4

LEMMA GrownParts ==
  ASSUME NEW c, NEW b, NEW e, Grown(c, b, e)
  PROVE  /\ Len(c) \in Nat /\ IsChain(e) /\ Len(e) = Len(c) + 1 /\ e[Len(c) + 1] = b
         /\ \A i \in 1 .. Len(c) : e[i] = c[i]
         /\ DOMAIN c = 1 .. Len(c) /\ DOMAIN e = 1 .. Len(c) + 1
<1>1. IsChain(c) /\ IsSeq(c) /\ IsBlock(b, Len(c) + 1) /\ e = Append(c, b)
  BY DEF Grown, Follows, IsChain
<1>2. IsChain(e)
  BY <1>1, ChainGrown, Zenon
<1>3. Len(e) = Len(c) + 1 /\ e[Len(c) + 1] = b /\ \A i \in 1 .. Len(c) : e[i] = c[i]
  BY <1>1, SeqGrown
<1>. QED
  BY <1>1, <1>2, <1>3, SeqParts DEF IsChain

LEMMA GrownMade ==
  ASSUME NEW c, NEW b, NEW e, Grown(c, b, e)
  PROVE  /\ \A id : Made(e, id) <=> Made(c, id) \/ MadeBy(b, id)
         /\ \A id : Spent(e, id) <=> Spent(c, id) \/ id \in ToSet(b.tx.inputs)
         /\ \A id : MadeBy(b, id) => id[1] = Len(c) + 1
         /\ \A id : Made(c, id) => ~ MadeBy(b, id)
<1>1. /\ Len(c) \in Nat /\ Len(e) = Len(c) + 1 /\ e[Len(c) + 1] = b
      /\ \A i \in 1 .. Len(c) : e[i] = c[i]
  BY GrownParts
<1>2. \A h \in 1 .. Len(e) : h \in 1 .. Len(c) \/ h = Len(c) + 1
  BY <1>1
<1>3. \A h \in 1 .. Len(c) : h \in 1 .. Len(e)
  BY <1>1
<1>4. Len(c) + 1 \in 1 .. Len(e)
  BY <1>1
<1>5. \A id : Made(e, id) <=> Made(c, id) \/ MadeBy(b, id)
  BY <1>1, <1>2, <1>3, <1>4 DEF Made, MadeBy
<1>6. \A id : Spent(e, id) <=> Spent(c, id) \/ id \in ToSet(b.tx.inputs)
  BY <1>1, <1>2, <1>3, <1>4 DEF Spent
<1>7. \A id : MadeBy(b, id) => id[1] = Len(c) + 1
  BY BoxIdParts DEF Grown, Follows, MadeBy
<1>8. ASSUME NEW id, Made(c, id) PROVE ~ MadeBy(b, id)
  <2>1. id[1] \in 1 .. Len(c)
    BY <1>8, MadeAt DEF Grown, Follows
  <2>. QED
    BY <1>1, <1>7, <2>1
<1>. QED
  BY <1>5, <1>6, <1>7, <1>8

\* The unspent boxes once the block is there.
LEMMA GrownUtxo ==
  ASSUME NEW c, NEW b, NEW e, Grown(c, b, e)
  PROVE  /\ Refers(e)
         /\ \A id : id \in DOMAIN Utxo(e) <=>
                      \/ id \in DOMAIN Utxo(c) /\ id \notin ToSet(b.tx.inputs)
                      \/ MadeBy(b, id)
         /\ \A id \in DOMAIN Utxo(c) : id \in DOMAIN Utxo(e) => Utxo(e)[id] = Utxo(c)[id]
         /\ \A i \in DOMAIN b.tx.outputs : Utxo(e)[BoxId(b, i)] = Box(b, i)
<1>1. /\ Len(c) \in Nat /\ Len(e) = Len(c) + 1 /\ e[Len(c) + 1] = b
      /\ \A i \in 1 .. Len(c) : e[i] = c[i]
      /\ IsChain(c) /\ IsChain(e) /\ Refers(c) /\ IsBlock(b, Len(c) + 1)
  <2>1. IsChain(c) /\ Refers(c) /\ IsBlock(b, Len(c) + 1)
    BY DEF Grown, Follows
  <2>2. /\ Len(c) \in Nat /\ Len(e) = Len(c) + 1 /\ e[Len(c) + 1] = b
        /\ \A i \in 1 .. Len(c) : e[i] = c[i]
    BY GrownParts
  <2>3. IsChain(e)
    BY GrownParts
  <2>. QED
    BY <2>1, <2>2, <2>3
<1>2. /\ \A id : id \in DOMAIN Utxo(c) <=> Made(c, id) /\ ~ Spent(c, id)
      /\ \A id \in DOMAIN Utxo(c) : Utxo(c)[id] = Box(c[id[1]], id[3])
  BY <1>1, UtxoIs
<1>3. /\ \A id : id \in DOMAIN Utxo(e) <=> Made(e, id) /\ ~ Spent(e, id)
      /\ \A id \in DOMAIN Utxo(e) : Utxo(e)[id] = Box(e[id[1]], id[3])
  BY <1>1, UtxoIs
<1>4. /\ \A id : Made(e, id) <=> Made(c, id) \/ MadeBy(b, id)
      /\ \A id : Spent(e, id) <=> Spent(c, id) \/ id \in ToSet(b.tx.inputs)
      /\ \A id : MadeBy(b, id) => id[1] = Len(c) + 1
      /\ \A id : Made(c, id) => ~ MadeBy(b, id)
  BY GrownMade
<1>5. \A id : Spent(c, id) => Made(c, id)
  BY <1>1 DEF Spent, Refers
<1>6. \A id \in ToSet(b.tx.inputs) : Made(c, id)
  BY <1>2 DEF Grown, Follows
<1>7. Refers(e)
  <2>1. ASSUME NEW h \in 1 .. Len(e), NEW id \in ToSet(e[h].tx.inputs) PROVE Made(e, id)
    <3>1. Spent(e, id)
      BY <2>1 DEF Spent
    <3>. QED
      BY <1>4, <1>5, <1>6, <3>1
  <2>. QED
    BY <2>1 DEF Refers
<1>8. \A id : id \in DOMAIN Utxo(e) <=>
                \/ id \in DOMAIN Utxo(c) /\ id \notin ToSet(b.tx.inputs)
                \/ MadeBy(b, id)
  BY <1>2, <1>3, <1>4, <1>5, <1>6
<1>9. ASSUME NEW id \in DOMAIN Utxo(c), id \in DOMAIN Utxo(e) PROVE Utxo(e)[id] = Utxo(c)[id]
  <2>1. id[1] \in 1 .. Len(c)
    BY <1>1, <1>2, MadeAt
  <2>. QED
    BY <1>1, <1>2, <1>3, <1>9, <2>1
<1>10. ASSUME NEW i \in DOMAIN b.tx.outputs PROVE Utxo(e)[BoxId(b, i)] = Box(b, i)
  <2>1. MadeBy(b, BoxId(b, i))
    BY DEF MadeBy
  <2>2. BoxId(b, i)[1] = Len(c) + 1 /\ BoxId(b, i)[3] = i
    BY <1>1, BoxIdParts
  <2>3. BoxId(b, i) \in DOMAIN Utxo(e)
    BY <1>8, <2>1
  <2>. QED
    BY <1>1, <1>3, <2>2, <2>3
<1>. QED
  BY <1>7, <1>8, <1>9, <1>10

--------------------------------------------------------------------------------
(* What the vault absorbs *)

Lockable == {"DepositReceipt", "FeePot"}

IsVaultTx(tx) == tx.inputs # <<>> /\ Carries(tx.outputs[1], 1, "VaultNFT")

LEMMA AbsorbedIs ==
  ASSUME NEW c, IsChain(c), NEW id
  PROVE  id \in AbsorbedIds(c) <=>
           /\ \E h \in 1 .. Len(c) : IsVaultTx(c[h].tx) /\ id \in ToSet(c[h].tx.inputs)
           /\ c[id[1]].tx.outputs[id[3]].script \in Lockable
<1>1. DOMAIN c = 1 .. Len(c)
  BY SeqParts DEF IsChain
<1>2. \A h : h \in VaultTxs(c) <=> h \in 1 .. Len(c) /\ IsVaultTx(c[h].tx)
  BY <1>1, Zenon DEF VaultTxs, IsVaultTx
<1>3. id \in UNION {ToSet(c[h].tx.inputs) : h \in VaultTxs(c)}
        <=> \E h \in 1 .. Len(c) : IsVaultTx(c[h].tx) /\ id \in ToSet(c[h].tx.inputs)
  BY <1>2, Zenon
<1>. QED
  BY <1>3 DEF AbsorbedIds, Lockable

\* What a block makes the vault take.
TakenBy(c, b) ==
  {id \in ToSet(b.tx.inputs) : IsVaultTx(b.tx) /\ Utxo(c)[id].script \in Lockable}

LEMMA GrownAbsorbed ==
  ASSUME NEW c, NEW b, NEW e, Grown(c, b, e)
  PROVE  /\ AbsorbedIds(e) = AbsorbedIds(c) \cup TakenBy(c, b)
         /\ AbsorbedIds(c) \cap TakenBy(c, b) = {}
         /\ \A id \in AbsorbedIds(c) : AmountOf(e, id) = AmountOf(c, id) /\ AmountOf(c, id) \in Int
         /\ \A id \in TakenBy(c, b) : AmountOf(e, id) = Held(Utxo(c)[id]) /\ AmountOf(e, id) \in Int
         /\ \A id \in AbsorbedIds(e) : /\ id[1] \in 1 .. Len(c)
                                       /\ e[id[1]].tx.outputs[id[3]] = c[id[1]].tx.outputs[id[3]]
<1>1. /\ Len(c) \in Nat /\ Len(e) = Len(c) + 1 /\ e[Len(c) + 1] = b
      /\ \A i \in 1 .. Len(c) : e[i] = c[i]
  BY GrownParts
<1>2. IsChain(c) /\ Refers(c) /\ \A id \in ToSet(b.tx.inputs) : id \in DOMAIN Utxo(c)
  BY DEF Grown, Follows
<1>3. IsChain(e)
  BY GrownParts
<1>4. \A h \in 1 .. Len(e) : h \in 1 .. Len(c) \/ h = Len(c) + 1
  BY <1>1
<1>5. (\A h \in 1 .. Len(c) : h \in 1 .. Len(e)) /\ Len(c) + 1 \in 1 .. Len(e)
  BY <1>1
<1>6. /\ \A id : id \in DOMAIN Utxo(c) <=> Made(c, id) /\ ~ Spent(c, id)
  BY <1>2, UtxoIs
<1>7. ASSUME NEW id, Made(c, id)
      PROVE  /\ id[1] \in 1 .. Len(c)
             /\ e[id[1]].tx.outputs[id[3]] = c[id[1]].tx.outputs[id[3]]
             /\ AmountOf(e, id) = AmountOf(c, id)
             /\ c[id[1]].tx.outputs[id[3]].script \in Lockable
                  => /\ AmountOf(c, id) \in Int
                     /\ AmountOf(c, id) = Held(c[id[1]].tx.outputs[id[3]])
  <2>1. id[1] \in 1 .. Len(c) /\ Shaped(c[id[1]].tx.outputs[id[3]])
    BY <1>2, <1>7, MadeAt
  <2>2. c[id[1]].tx.outputs[id[3]].script \in Lockable
          => c[id[1]].tx.outputs[id[3]].script \in Holders
    BY DEF Lockable, Holders
  <2>. QED
    BY <1>1, <2>1, <2>2, UseOfShaped DEF AmountOf
<1>8. ASSUME NEW id \in ToSet(b.tx.inputs)
      PROVE  /\ Made(c, id) /\ ~ Spent(c, id)
             /\ Utxo(c)[id].script = c[id[1]].tx.outputs[id[3]].script
             /\ Held(Utxo(c)[id]) = Held(c[id[1]].tx.outputs[id[3]])
  <2>1. id \in DOMAIN Utxo(c)
    BY <1>2
  <2>. QED
    BY <1>2, <1>6, <2>1, UtxoAt DEF Held
<1>9. \A id : id \in AbsorbedIds(c) => Spent(c, id) /\ Made(c, id)
  BY <1>2, AbsorbedIs DEF Spent, Refers
<1>10. ASSUME NEW id, id \in AbsorbedIds(e) PROVE id \in AbsorbedIds(c) \/ id \in TakenBy(c, b)
  <2>1. PICK h \in 1 .. Len(e) : IsVaultTx(e[h].tx) /\ id \in ToSet(e[h].tx.inputs)
    BY <1>3, <1>10, AbsorbedIs
  <2>2. e[id[1]].tx.outputs[id[3]].script \in Lockable
    BY <1>3, <1>10, AbsorbedIs
  <2>3. CASE h \in 1 .. Len(c)
    <3>1. IsVaultTx(c[h].tx) /\ id \in ToSet(c[h].tx.inputs)
      BY <1>1, <2>1, <2>3
    <3>2. Made(c, id)
      BY <1>2, <2>3, <3>1 DEF Refers
    <3>3. c[id[1]].tx.outputs[id[3]].script \in Lockable
      BY <1>7, <2>2, <3>2
    <3>. QED
      BY <1>2, <2>3, <3>1, <3>3, AbsorbedIs
  <2>4. CASE h = Len(c) + 1
    <3>1. IsVaultTx(b.tx) /\ id \in ToSet(b.tx.inputs)
      BY <1>1, <2>1, <2>4
    <3>2. Utxo(c)[id].script \in Lockable
      BY <1>7, <1>8, <2>2, <3>1
    <3>. QED
      BY <3>1, <3>2 DEF TakenBy
  <2>. QED
    BY <1>4, <2>3, <2>4
<1>11. ASSUME NEW id, id \in AbsorbedIds(c) PROVE id \in AbsorbedIds(e)
  <2>1. PICK h \in 1 .. Len(c) : IsVaultTx(c[h].tx) /\ id \in ToSet(c[h].tx.inputs)
    BY <1>2, <1>11, AbsorbedIs
  <2>2. c[id[1]].tx.outputs[id[3]].script \in Lockable
    BY <1>2, <1>11, AbsorbedIs
  <2>3. h \in 1 .. Len(e) /\ IsVaultTx(e[h].tx) /\ id \in ToSet(e[h].tx.inputs)
    BY <1>1, <1>5, <2>1
  <2>4. e[id[1]].tx.outputs[id[3]].script \in Lockable
    BY <1>7, <1>9, <1>11, <2>2
  <2>. QED
    BY <1>3, <2>3, <2>4, AbsorbedIs
<1>12. ASSUME NEW id, id \in TakenBy(c, b) PROVE id \in AbsorbedIds(e)
  <2>1. id \in ToSet(b.tx.inputs) /\ IsVaultTx(b.tx) /\ Utxo(c)[id].script \in Lockable
    BY <1>12 DEF TakenBy
  <2>2. e[id[1]].tx.outputs[id[3]].script \in Lockable
    BY <1>7, <1>8, <2>1
  <2>3. IsVaultTx(e[Len(c) + 1].tx) /\ id \in ToSet(e[Len(c) + 1].tx.inputs)
    BY <1>1, <2>1
  <2>. QED
    BY <1>3, <1>5, <2>2, <2>3, AbsorbedIs
<1>13. AbsorbedIds(e) = AbsorbedIds(c) \cup TakenBy(c, b)
  BY <1>10, <1>11, <1>12
<1>14. AbsorbedIds(c) \cap TakenBy(c, b) = {}
  BY <1>8, <1>9 DEF TakenBy
<1>15. ASSUME NEW id \in AbsorbedIds(c)
       PROVE  AmountOf(e, id) = AmountOf(c, id) /\ AmountOf(c, id) \in Int
  BY <1>2, <1>7, <1>9, AbsorbedIs
<1>16. ASSUME NEW id \in TakenBy(c, b)
       PROVE  AmountOf(e, id) = Held(Utxo(c)[id]) /\ AmountOf(e, id) \in Int
  <2>1. id \in ToSet(b.tx.inputs) /\ Utxo(c)[id].script \in Lockable
    BY DEF TakenBy
  <2>. QED
    BY <1>7, <1>8, <2>1
<1>17. \A id \in AbsorbedIds(e) : Made(c, id)
  BY <1>8, <1>9, <1>10 DEF TakenBy
<1>. QED
  BY <1>7, <1>13, <1>14, <1>15, <1>16, <1>17

\* What is mintable on a chain stays so when the chain grows by a block that takes only
\* receipts whose destination has the length of a point.
Usable == {"point", "garbage33"}

TakesUsable(c, b) ==
  \A id \in TakenBy(c, b) :
    Utxo(c)[id].script = "DepositReceipt" => Utxo(c)[id].R4 \in Usable

LEMMA ClaimIs ==
  ASSUME NEW c, IsChain(c), NEW l \in 1 .. Len(c), NEW k \in 1 .. Len(c),
         NEW o \in DOMAIN c[l].tx.outputs, NEW i \in DOMAIN c[k].tx.inputs
  PROVE  [lock |-> c[l], out |-> o, cons |-> c[k], inp |-> i] \in Claims(c)
<1>1. DOMAIN c = 1 .. Len(c)
  BY SeqParts DEF IsChain
<1>. DEFINE S(x, y) == {[lock |-> c[x], out |-> q, cons |-> c[y], inp |-> r] :
                          q \in DOMAIN c[x].tx.outputs, r \in DOMAIN c[y].tx.inputs}
            p == [lock |-> c[l], out |-> o, cons |-> c[k], inp |-> i]
<1>2. p \in S(l, k)
  OBVIOUS
<1>3. Claims(c) = UNION {S(x, y) : x \in DOMAIN c, y \in DOMAIN c}
  BY DEF Claims
<1>. HIDE DEF S, p
<1>4. p \in Claims(c)
  BY <1>1, <1>2, <1>3
<1>. QED
  BY <1>4 DEF p

LEMMA ClaimOf ==
  ASSUME NEW c, IsChain(c), NEW p \in Claims(c)
  PROVE  \E l, k \in 1 .. Len(c) :
           \E o \in DOMAIN c[l].tx.outputs : \E i \in DOMAIN c[k].tx.inputs :
             p = [lock |-> c[l], out |-> o, cons |-> c[k], inp |-> i]
<1>1. DOMAIN c = 1 .. Len(c)
  BY SeqParts DEF IsChain
<1>2. PICK l \in DOMAIN c, k \in DOMAIN c :
        p \in {[lock |-> c[l], out |-> o, cons |-> c[k], inp |-> i] :
                 o \in DOMAIN c[l].tx.outputs, i \in DOMAIN c[k].tx.inputs}
  BY DEF Claims
<1>3. PICK o \in DOMAIN c[l].tx.outputs, i \in DOMAIN c[k].tx.inputs :
        p = [lock |-> c[l], out |-> o, cons |-> c[k], inp |-> i]
  BY <1>2
<1>. QED
  BY <1>1, <1>3

LEMMA ClaimKept ==
  ASSUME NEW c, NEW b, NEW e, Grown(c, b, e), NEW p \in HonestClaims(c)
  PROVE  p \in HonestClaims(e)
<1>1. IsChain(c) /\ IsChain(e)
  BY GrownParts DEF Grown, Follows
<1>2. /\ Len(c) \in Nat /\ Len(e) = Len(c) + 1
      /\ \A i \in 1 .. Len(c) : e[i] = c[i]
  BY GrownParts
<1>3. p \in Claims(c)
  BY DEF HonestClaims
<1>4. PICK l \in 1 .. Len(c), k \in 1 .. Len(c) :
        \E o \in DOMAIN c[l].tx.outputs : \E i \in DOMAIN c[k].tx.inputs :
          p = [lock |-> c[l], out |-> o, cons |-> c[k], inp |-> i]
  BY <1>1, <1>3, ClaimOf
<1>5. PICK o \in DOMAIN c[l].tx.outputs, i \in DOMAIN c[k].tx.inputs :
        p = [lock |-> c[l], out |-> o, cons |-> c[k], inp |-> i]
  BY <1>4
<1>6. l \in 1 .. Len(e) /\ k \in 1 .. Len(e) /\ e[l] = c[l] /\ e[k] = c[k]
  BY <1>2
<1>7. [lock |-> e[l], out |-> o, cons |-> e[k], inp |-> i] \in Claims(e)
  BY <1>1, <1>6, ClaimIs
<1>. QED
  BY <1>5, <1>6, <1>7 DEF HonestClaims

\* The claim of a receipt that a block of the chain takes.
LEMMA TakenIsClaimed ==
  ASSUME "garbage33" \notin Dests,
         NEW c, NEW b, NEW e, Grown(c, b, e), TakesUsable(c, b),
         NEW id \in TakenBy(c, b), Utxo(c)[id].script = "DepositReceipt"
  PROVE  \E p \in HonestClaims(e) : BoxId(p.lock, p.out) = id /\ Effect(p).sc_dest = "point"
<1>1. IsChain(c) /\ IsChain(e)
  BY GrownParts DEF Grown, Follows
<1>2. /\ Len(c) \in Nat /\ Len(e) = Len(c) + 1 /\ e[Len(c) + 1] = b
      /\ \A i \in 1 .. Len(c) : e[i] = c[i]
  BY GrownParts
<1>3. id \in ToSet(b.tx.inputs) /\ IsVaultTx(b.tx) /\ Utxo(c)[id].R4 \in Usable
  BY DEF TakenBy, TakesUsable
<1>4. id \in DOMAIN Utxo(c)
  BY <1>3 DEF Grown, Follows
<1>5. PICK l \in 1 .. Len(c) : \E o \in DOMAIN c[l].tx.outputs :
           /\ id = BoxId(c[l], o) /\ Shaped(c[l].tx.outputs[o])
           /\ Utxo(c)[id] = Box(c[l], o)
           /\ Utxo(c)[id].script = c[l].tx.outputs[o].script
  BY <1>1, <1>4, UtxoAt
<1>6. PICK o \in DOMAIN c[l].tx.outputs :
           /\ id = BoxId(c[l], o) /\ Shaped(c[l].tx.outputs[o])
           /\ Utxo(c)[id] = Box(c[l], o)
           /\ Utxo(c)[id].script = c[l].tx.outputs[o].script
  BY <1>5
<1>7. PICK i \in DOMAIN b.tx.inputs : b.tx.inputs[i] = id
  BY <1>3 DEF ToSet
<1>. DEFINE out == c[l].tx.outputs[o]
            p == [lock |-> c[l], out |-> o, cons |-> b, inp |-> i]
<1>8. Utxo(c)[id].R4 = out.R4 /\ out.R4 \in Dests
  <2>1. "R4" \in DOMAIN out /\ out.R4 \in Dests
    BY <1>6 DEF Shaped
  <2>. QED
    BY <1>6, <2>1, BoxKeeps
<1>9. out.R4 = "point"
  BY <1>3, <1>8 DEF Usable
<1>10. /\ out.script = "DepositReceipt" /\ Carries(out, 1, "USE") /\ out.tokens[1].amount > 0
  <2>1. /\ out.script = "DepositReceipt" /\ out.tokens = <<Use(Held(out))>> /\ Held(out) > 0
    BY <1>6 DEF Shaped, Holders
  <2>. QED
    BY <2>1 DEF Carries, Use, Held
<1>11. p \in Claims(e)
  <2>1. l \in 1 .. Len(e) /\ Len(c) + 1 \in 1 .. Len(e) /\ e[l] = c[l] /\ e[Len(c) + 1] = b
    BY <1>2
  <2>. HIDE DEF out
  <2>2. [lock |-> e[l], out |-> o, cons |-> e[Len(c) + 1], inp |-> i] \in Claims(e)
    BY <1>1, <1>6, <1>7, <2>1, ClaimIs
  <2>. QED
    BY <2>1, <2>2
<1>12. /\ p.lock.tx.outputs[p.out] = out /\ p.cons.tx = b.tx /\ p.inp = i
       /\ p.out = o /\ BoxId(p.lock, p.out) = id /\ p.lock = c[l]
  BY <1>6
<1>. HIDE DEF out, p
<1>13. ReceiptSteps(p, {})
  BY <1>3, <1>7, <1>9, <1>10, <1>12 DEF ReceiptSteps, IsVaultTx
<1>14. p \in HonestClaims(e)
  BY <1>11, <1>12, <1>13 DEF HonestClaims
<1>15. Effect(p).sc_dest = "point"
  BY <1>9, <1>12 DEF Effect
<1>. QED
  BY <1>12, <1>14, <1>15

LEMMA MintableGrown ==
  ASSUME "garbage33" \notin Dests,
         NEW c, NEW b, NEW e, Grown(c, b, e), TakesUsable(c, b),
         ConsolidatedIsMintable(c)
  PROVE  ConsolidatedIsMintable(e)
<1>. SUFFICES ASSUME NEW id \in AbsorbedIds(e),
                     e[id[1]].tx.outputs[id[3]].script = "DepositReceipt"
              PROVE  \E p \in HonestClaims(e) : BoxId(p.lock, p.out) = id
                                                  /\ Effect(p).sc_dest = "point"
  BY DEF ConsolidatedIsMintable
<1>1. /\ id \in AbsorbedIds(c) \/ id \in TakenBy(c, b)
      /\ e[id[1]].tx.outputs[id[3]] = c[id[1]].tx.outputs[id[3]]
  <2>1. AbsorbedIds(e) = AbsorbedIds(c) \cup TakenBy(c, b)
    BY GrownAbsorbed
  <2>2. \A x \in AbsorbedIds(e) : e[x[1]].tx.outputs[x[3]] = c[x[1]].tx.outputs[x[3]]
    BY GrownAbsorbed
  <2>. QED
    BY <2>1, <2>2
<1>2. CASE id \in AbsorbedIds(c)
  <2>1. PICK p \in HonestClaims(c) : BoxId(p.lock, p.out) = id /\ Effect(p).sc_dest = "point"
    BY <1>1, <1>2 DEF ConsolidatedIsMintable
  <2>. QED
    BY <2>1, ClaimKept
<1>3. CASE id \in TakenBy(c, b)
  <2>1. id \in DOMAIN Utxo(c) /\ IsChain(c)
    BY <1>3 DEF TakenBy, Grown, Follows
  <2>2. Utxo(c)[id].script = c[id[1]].tx.outputs[id[3]].script
    BY <2>1, UtxoAt
  <2>3. Utxo(c)[id].script = "DepositReceipt"
    BY <1>1, <2>2
  <2>. QED
    BY <1>3, <2>3, TakenIsClaimed
<1>. QED
  BY <1>1, <1>2, <1>3

--------------------------------------------------------------------------------
(* The vault's ledger *)

Owed(b) == Burned[b] - VaultFee(Burned[b])

AbsorbedSum(c) == SumFunctionOnSet([id \in AbsorbedIds(c) |-> AmountOf(c, id)], AbsorbedIds(c))
TakenSum(c, b) == SumFunctionOnSet([id \in TakenBy(c, b) |-> Held(Utxo(c)[id])], TakenBy(c, b))
PaidSum(R) == SumFunctionOnSet([b \in R |-> Owed(b)], R)

LEMMA AbsorbedGrows ==
  ASSUME NEW c, NEW b, NEW e, Grown(c, b, e),
         IsFiniteSet(AbsorbedIds(c)), IsFiniteSet(TakenBy(c, b))
  PROVE  /\ IsFiniteSet(AbsorbedIds(e))
         /\ AbsorbedSum(c) \in Int /\ TakenSum(c, b) \in Int
         /\ AbsorbedSum(e) = AbsorbedSum(c) + TakenSum(c, b)
<1>. DEFINE A == AbsorbedIds(c)
            T == TakenBy(c, b)
            f == [id \in AbsorbedIds(e) |-> AmountOf(e, id)]
            g == [id \in A |-> AmountOf(c, id)]
            h == [id \in T |-> Held(Utxo(c)[id])]
<1>1. AbsorbedIds(e) = A \cup T /\ A \cap T = {}
  BY GrownAbsorbed
<1>2. \A id \in A : AmountOf(e, id) = AmountOf(c, id) /\ AmountOf(c, id) \in Int
  BY GrownAbsorbed
<1>3. \A id \in T : AmountOf(e, id) = Held(Utxo(c)[id]) /\ AmountOf(e, id) \in Int
  BY GrownAbsorbed
<1>4. \A id \in A \cup T : f[id] = AmountOf(e, id)
  BY <1>1
<1>5. IsFiniteSet(A) /\ IsFiniteSet(T) /\ IsFiniteSet(A \cup T)
  BY FS_Union
<1>6. \A id \in A : f[id] = g[id] /\ g[id] \in Int
  BY <1>2, <1>4
<1>7. \A id \in T : f[id] = h[id] /\ h[id] \in Int
  BY <1>3, <1>4
<1>8. /\ AbsorbedSum(e) = SumFunctionOnSet(f, AbsorbedIds(e))
      /\ AbsorbedSum(c) = SumFunctionOnSet(g, A)
      /\ TakenSum(c, b) = SumFunctionOnSet(h, T)
  BY DEF AbsorbedSum, TakenSum
<1>. HIDE DEF f, g, h, A, T
<1>9. \A id \in A \cup T : f[id] \in Int
  BY <1>6, <1>7
<1>10. SumFunctionOnSet(f, A \cup T) = SumFunctionOnSet(f, A) + SumFunctionOnSet(f, T)
  BY <1>1, <1>5, <1>9, SumUnion
<1>11. SumFunctionOnSet(f, A) = SumFunctionOnSet(g, A) /\ SumFunctionOnSet(g, A) \in Int
  BY <1>5, <1>6, SumSame, SumType
<1>12. SumFunctionOnSet(f, T) = SumFunctionOnSet(h, T) /\ SumFunctionOnSet(h, T) \in Int
  BY <1>5, <1>7, SumSame, SumType
<1>. QED
  BY <1>1, <1>5, <1>8, <1>10, <1>11, <1>12

LEMMA OwedType == \A b \in DOMAIN Burned : Owed(b) \in Int
<1>1. ASSUME NEW b \in DOMAIN Burned PROVE Owed(b) \in Int
  <2>1. Burned[b] \in Int /\ FEE_FLOOR \in Int /\ FEE_BPS \in Int
    BY PegInAssumption, PegContractsAssumption
  <2>2. VaultFee(Burned[b]) \in Int
    BY <2>1 DEF VaultFee
  <2>. QED
    BY <2>1, <2>2 DEF Owed
<1>. QED
  BY <1>1

LEMMA PaidSumType ==
  ASSUME NEW R, IsFiniteSet(R), R \subseteq DOMAIN Burned
  PROVE  PaidSum(R) \in Int
<1>. DEFINE g == [b \in R |-> Owed(b)]
<1>1. \A b \in R : g[b] \in Int
  BY OwedType
<1>2. PaidSum(R) = SumFunctionOnSet(g, R)
  BY DEF PaidSum
<1>. HIDE DEF g
<1>. QED
  BY <1>1, <1>2, SumType

LEMMA PaidMore ==
  ASSUME NEW R \in SUBSET DOMAIN Burned, IsFiniteSet(R), NEW x \in DOMAIN Burned, x \notin R
  PROVE  /\ IsFiniteSet(R \cup {x}) /\ PaidSum(R) \in Int
         /\ PaidSum(R \cup {x}) = PaidSum(R) + Owed(x)
<1>. DEFINE S == R \cup {x}
            f == [b \in S |-> Owed(b)]
            g == [b \in R |-> Owed(b)]
<1>1. IsFiniteSet({x}) /\ IsFiniteSet(S) /\ R \cap {x} = {}
  <2>1. IsFiniteSet({x})
    BY FS_Singleton
  <2>2. IsFiniteSet(R \cup {x})
    BY FS_AddElement
  <2>. QED
    BY <2>1, <2>2
<1>2. \A b \in S : f[b] = Owed(b) /\ f[b] \in Int
  BY OwedType
<1>3. \A b \in R : f[b] = g[b] /\ g[b] \in Int
  BY OwedType
<1>4. PaidSum(S) = SumFunctionOnSet(f, S) /\ PaidSum(R) = SumFunctionOnSet(g, R)
  BY DEF PaidSum
<1>. HIDE DEF f, g
<1>5. SumFunctionOnSet(f, S) = SumFunctionOnSet(f, R) + SumFunctionOnSet(f, {x})
  BY <1>1, <1>2, SumUnion
<1>6. SumFunctionOnSet(f, R) = SumFunctionOnSet(g, R) /\ SumFunctionOnSet(g, R) \in Int
  BY <1>3, SumSame, SumType
<1>7. SumFunctionOnSet(f, {x}) = Owed(x)
  BY <1>2, SumOne
<1>. QED
  BY <1>1, <1>4, <1>5, <1>6, <1>7

\* The set as a list: no element twice.
LEMMA SetToSeqIs ==
  ASSUME NEW s, IsFiniteSet(s)
  PROVE  /\ IsSeq(SetToSeq(s))
         /\ \A i \in 1 .. Len(SetToSeq(s)) : SetToSeq(s)[i] \in s
         /\ \A i, j \in 1 .. Len(SetToSeq(s)) : SetToSeq(s)[i] = SetToSeq(s)[j] => i = j
<1>. DEFINE n == Cardinality(s)
            q == SetToSeq(s)
<1>1. n \in Nat /\ ExistsBijection(1 .. n, s)
  BY FS_CardinalityType
<1>2. \E f \in [1 .. n -> s] : IsInjective(f)
  BY <1>1 DEF ExistsBijection, Bijection, Injection
<1>3. q \in [1 .. n -> s] /\ IsInjective(q)
  BY <1>2 DEF SetToSeq
<1>. HIDE DEF n, q
<1>4. q = [i \in 1 .. n |-> q[i]]
  BY <1>3
<1>5. IsSeq(q) /\ Len(q) = n
  BY <1>1, <1>4, SeqMade
<1>6. /\ \A i \in 1 .. Len(q) : q[i] \in s
      /\ \A i, j \in 1 .. Len(q) : q[i] = q[j] => i = j
  BY <1>3, <1>5 DEF IsInjective
<1>. QED
  BY <1>5, <1>6 DEF q

\* The unspent boxes of a kind once the block is there.
LEMMA GrownScripts ==
  ASSUME NEW c, NEW b, NEW e, Grown(c, b, e), NEW x
  PROVE  \A id : id \in WithScript(Utxo(e), x) <=>
                   \/ id \in WithScript(Utxo(c), x) /\ id \notin ToSet(b.tx.inputs)
                   \/ \E i \in DOMAIN b.tx.outputs : id = BoxId(b, i) /\ b.tx.outputs[i].script = x
<1>1. /\ \A id : id \in DOMAIN Utxo(e) <=>
                   \/ id \in DOMAIN Utxo(c) /\ id \notin ToSet(b.tx.inputs)
                   \/ MadeBy(b, id)
      /\ \A id \in DOMAIN Utxo(c) : id \in DOMAIN Utxo(e) => Utxo(e)[id] = Utxo(c)[id]
      /\ \A i \in DOMAIN b.tx.outputs : Utxo(e)[BoxId(b, i)] = Box(b, i)
  BY GrownUtxo
<1>2. \A i \in DOMAIN b.tx.outputs : Box(b, i).script = b.tx.outputs[i].script
  BY BoxKeeps DEF Grown, Follows, IsBlock
<1>3. \A id \in DOMAIN Utxo(c) : ~ MadeBy(b, id)
  <2>1. \A id : Made(c, id) => ~ MadeBy(b, id)
    BY GrownMade
  <2>. QED
    BY <2>1, UtxoIs DEF Grown, Follows
<1>. QED
  BY <1>1, <1>2, <1>3 DEF WithScript, MadeBy

--------------------------------------------------------------------------------
(* Each kind of transaction keeps the ledger *)

\* The vault, the redeemed set and what they say of each other.
Holding(c, v, d) ==
  LET u == Utxo(c)
  IN  /\ WithScript(u, "PegVault") = {v} /\ WithScript(u, "DoubleRedeem") = {d}
      /\ WithScript(u, "SideChainState") # {}
      /\ u[v].tokens[2].amount \in Int
      /\ IsFiniteSet(u[d].R4) /\ u[d].R4 \subseteq DOMAIN Burned
      /\ u[v].tokens[2].amount = V0 + AbsorbedSum(c) - PaidSum(u[d].R4)

\* A transaction that touches neither, nor makes a vault of anything.
Bystander(c, b) ==
  /\ ~ IsVaultTx(b.tx)
  /\ \A id \in ToSet(b.tx.inputs) : Utxo(c)[id].script \notin {"PegVault", "DoubleRedeem"}
  /\ \A i \in DOMAIN b.tx.outputs : b.tx.outputs[i].script \notin {"PegVault", "DoubleRedeem"}
  /\ (\E id \in ToSet(b.tx.inputs) : Utxo(c)[id].script = "SideChainState")
       => \E i \in DOMAIN b.tx.outputs : b.tx.outputs[i].script = "SideChainState"

LEMMA BystanderKeeps ==
  ASSUME NEW c, NEW b, NEW e, Grown(c, b, e), Bystander(c, b),
         IsFiniteSet(AbsorbedIds(c)), NEW v, NEW d, Holding(c, v, d)
  PROVE  /\ IsFiniteSet(AbsorbedIds(e)) /\ Holding(e, v, d) /\ TakesUsable(c, b)
<1>1. TakenBy(c, b) = {}
  BY DEF TakenBy, Bystander
<1>2. IsFiniteSet(TakenBy(c, b)) /\ TakenSum(c, b) = 0
  BY <1>1, FS_EmptySet, SumEmpty DEF TakenSum
<1>3. IsFiniteSet(AbsorbedIds(e)) /\ AbsorbedSum(e) = AbsorbedSum(c)
  BY <1>2, AbsorbedGrows
<1>4. WithScript(Utxo(e), "PegVault") = {v}
  <2>1. \A id : id \in WithScript(Utxo(e), "PegVault") <=> id \in WithScript(Utxo(c), "PegVault")
    <3>1. \A id : id \in WithScript(Utxo(e), "PegVault") <=>
             \/ id \in WithScript(Utxo(c), "PegVault") /\ id \notin ToSet(b.tx.inputs)
             \/ \E i \in DOMAIN b.tx.outputs :
                  id = BoxId(b, i) /\ b.tx.outputs[i].script = "PegVault"
      BY GrownScripts
    <3>2. /\ \A id \in ToSet(b.tx.inputs) : id \notin WithScript(Utxo(c), "PegVault")
          /\ \A i \in DOMAIN b.tx.outputs : b.tx.outputs[i].script # "PegVault"
      BY DEF Bystander, WithScript
    <3>. QED
      BY <3>1, <3>2
  <2>. QED
    BY <2>1 DEF Holding
<1>5. WithScript(Utxo(e), "DoubleRedeem") = {d}
  <2>1. \A id : id \in WithScript(Utxo(e), "DoubleRedeem")
                  <=> id \in WithScript(Utxo(c), "DoubleRedeem")
    <3>1. \A id : id \in WithScript(Utxo(e), "DoubleRedeem") <=>
             \/ id \in WithScript(Utxo(c), "DoubleRedeem") /\ id \notin ToSet(b.tx.inputs)
             \/ \E i \in DOMAIN b.tx.outputs :
                  id = BoxId(b, i) /\ b.tx.outputs[i].script = "DoubleRedeem"
      BY GrownScripts
    <3>2. /\ \A id \in ToSet(b.tx.inputs) : id \notin WithScript(Utxo(c), "DoubleRedeem")
          /\ \A i \in DOMAIN b.tx.outputs : b.tx.outputs[i].script # "DoubleRedeem"
      BY DEF Bystander, WithScript
    <3>. QED
      BY <3>1, <3>2
  <2>. QED
    BY <2>1 DEF Holding
<1>6. WithScript(Utxo(e), "SideChainState") # {}
  <2>1. PICK st : st \in WithScript(Utxo(c), "SideChainState")
    BY DEF Holding
  <2>2. CASE st \notin ToSet(b.tx.inputs)
    BY <2>1, <2>2, GrownScripts
  <2>3. CASE st \in ToSet(b.tx.inputs)
    <3>1. PICK i \in DOMAIN b.tx.outputs : b.tx.outputs[i].script = "SideChainState"
      BY <2>1, <2>3 DEF Bystander, WithScript
    <3>2. BoxId(b, i) \in WithScript(Utxo(e), "SideChainState")
      BY <3>1, GrownScripts
    <3>. QED
      BY <3>2
  <2>. QED
    BY <2>2, <2>3
<1>7. Utxo(e)[v] = Utxo(c)[v] /\ Utxo(e)[d] = Utxo(c)[d]
  <2>1. v \in DOMAIN Utxo(c) /\ v \in DOMAIN Utxo(e) /\ d \in DOMAIN Utxo(c) /\ d \in DOMAIN Utxo(e)
    BY <1>4, <1>5 DEF Holding, WithScript
  <2>. QED
    BY <2>1, GrownUtxo
<1>8. TakesUsable(c, b)
  BY <1>1 DEF TakesUsable
<1>9. Holding(e, v, d)
  BY <1>3, <1>4, <1>5, <1>6, <1>7 DEF Holding
<1>. QED
  BY <1>3, <1>8, <1>9

\* What the contracts see of a transaction.
Resolved(u, tx) ==
  [inputs  |-> [i \in DOMAIN tx.inputs |-> u[tx.inputs[i]]],
   data    |-> [i \in DOMAIN tx.data |-> u[tx.data[i]]],
   outputs |-> tx.outputs,
   signers |-> tx.signers]

LEMMA ResolvedIs ==
  ASSUME NEW u, NEW tx, IsSeq(tx.inputs), NEW x, x = Resolved(u, tx)
  PROVE  /\ x.outputs = tx.outputs /\ x.signers = tx.signers
         /\ DOMAIN x.inputs = 1 .. Len(tx.inputs) /\ Len(x.inputs) = Len(tx.inputs)
         /\ \A i \in 1 .. Len(tx.inputs) : x.inputs[i] = u[tx.inputs[i]]
<1>1. DOMAIN tx.inputs = 1 .. Len(tx.inputs) /\ Len(tx.inputs) \in Nat
  BY SeqParts
<1>2. /\ x.outputs = tx.outputs /\ x.signers = tx.signers
      /\ x.inputs = [i \in DOMAIN tx.inputs |-> u[tx.inputs[i]]]
  BY DEF Resolved
<1>3. /\ DOMAIN x.inputs = 1 .. Len(tx.inputs)
      /\ \A i \in 1 .. Len(tx.inputs) : x.inputs[i] = u[tx.inputs[i]]
      /\ x.inputs = [i \in 1 .. Len(tx.inputs) |-> x.inputs[i]]
  BY <1>1, <1>2
<1>4. Len(x.inputs) = Len(tx.inputs)
  BY <1>1, <1>3, SeqMade
<1>. QED
  BY <1>2, <1>3, <1>4

LEMMA AcceptedIs ==
  ASSUME NEW u, NEW tx, NEW height, Accepted(u, tx, height), IsSeq(tx.inputs)
  PROVE  \A i \in 1 .. Len(tx.inputs) : ScriptHolds(Resolved(u, tx), i, height)
<1>. DEFINE x == Resolved(u, tx)
<1>1. ErgoAccepts(x, height)
  BY DEF Accepted, Resolved
<1>2. DOMAIN x.inputs = 1 .. Len(tx.inputs)
  BY ResolvedIs
<1>. QED
  BY <1>1, <1>2 DEF ErgoAccepts

\* The boxes of a kind in a list, and what boxes hold together.
OfScript(u, g, sc) == {id \in ToSet(g) : u[id].script = sc}
Worth(u, S) == SumFunctionOnSet([id \in S |-> Held(u[id])], S)

LEMMA WorthUnion ==
  ASSUME NEW u, NEW R, IsFiniteSet(R), NEW F, IsFiniteSet(F), R \cap F = {},
         \A id \in R \cup F : Held(u[id]) \in Int
  PROVE  IsFiniteSet(R \cup F) /\ Worth(u, R \cup F) = Worth(u, R) + Worth(u, F)
<1>. DEFINE T == R \cup F
            f == [id \in T |-> Held(u[id])]
            r == [id \in R |-> Held(u[id])]
            e == [id \in F |-> Held(u[id])]
<1>1. IsFiniteSet(R \cup F)
  BY FS_Union
<1>2. \A id \in R \cup F : f[id] \in Int
  OBVIOUS
<1>3. (\A id \in R : f[id] = r[id]) /\ (\A id \in F : f[id] = e[id])
  OBVIOUS
<1>4. /\ Worth(u, R \cup F) = SumFunctionOnSet(f, R \cup F)
      /\ Worth(u, R) = SumFunctionOnSet(r, R) /\ Worth(u, F) = SumFunctionOnSet(e, F)
  BY DEF Worth
<1>. HIDE DEF T, f, r, e
<1>5. SumFunctionOnSet(f, R \cup F) = SumFunctionOnSet(f, R) + SumFunctionOnSet(f, F)
  BY <1>2, SumUnion
<1>6. SumFunctionOnSet(f, R) = SumFunctionOnSet(r, R)
  BY <1>3, SumSame
<1>7. SumFunctionOnSet(f, F) = SumFunctionOnSet(e, F)
  BY <1>3, SumSame
<1>. QED
  BY <1>1, <1>4, <1>5, <1>6, <1>7

\* What a list holds is what the boxes on it hold: no box is on it twice.
InputsOf(u, g, x) ==
  /\ IsSeq(g) /\ DOMAIN x.inputs = 1 .. Len(g)
  /\ \A i \in 1 .. Len(g) : g[i] \in DOMAIN u /\ x.inputs[i] = u[g[i]]
  /\ \A i, j \in 1 .. Len(g) : g[i] = g[j] => i = j

\* receiptSum and feeSum of the vault's script, over the list of inputs, are the worth of
\* the set of boxes with that script.
LEMMA MergedWorth ==
  ASSUME NEW u, UtxoShaped(u), NEW g, NEW x, InputsOf(u, g, x), NEW sc \in Lockable
  PROVE  /\ IsFiniteSet(OfScript(u, g, sc))
         /\ \A id \in OfScript(u, g, sc) : Held(u[id]) \in Int
         /\ Absorbed(x, sc) = Worth(u, OfScript(u, g, sc))
<1>. DEFINE T == OfScript(u, g, sc)
            at == {i \in DOMAIN x.inputs : x.inputs[i].script = sc /\ x.inputs[i].tokens # <<>>}
            f == [i \in at |-> x.inputs[i].tokens[1].amount]
            e == [id \in T |-> Held(u[id])]
<1>0. /\ IsSeq(g) /\ DOMAIN x.inputs = 1 .. Len(g)
      /\ \A i \in 1 .. Len(g) : g[i] \in DOMAIN u /\ x.inputs[i] = u[g[i]]
      /\ \A i, j \in 1 .. Len(g) : g[i] = g[j] => i = j
  BY DEF InputsOf
<1>1. Len(g) \in Nat /\ DOMAIN g = 1 .. Len(g)
  BY <1>0, SeqParts
<1>2. ASSUME NEW i \in 1 .. Len(g), u[g[i]].script = sc
      PROVE  /\ u[g[i]].tokens # <<>> /\ u[g[i]].tokens[1].amount = Held(u[g[i]])
             /\ Held(u[g[i]]) \in Int
  <2>1. BoxShaped(u[g[i]]) /\ u[g[i]].script \in Holders
    BY <1>0, <1>2 DEF UtxoShaped, Lockable, Holders
  <2>2. u[g[i]].tokens = <<Use(Held(u[g[i]]))>> /\ Held(u[g[i]]) \in Int
    BY <2>1 DEF BoxShaped
  <2>. QED
    BY <2>2 DEF Held
<1>3. \A i : i \in at <=> i \in 1 .. Len(g) /\ u[g[i]].script = sc
  BY <1>0, <1>2
<1>4. \A id : id \in T <=> \E i \in 1 .. Len(g) : id = g[i] /\ u[g[i]].script = sc
  BY <1>1 DEF ToSet, OfScript
<1>5. IsFiniteSet(at)
  <2>1. IsFiniteSet(1 .. Len(g)) /\ at \in SUBSET (1 .. Len(g))
    BY <1>0, <1>1, FS_Interval
  <2>. QED
    BY <2>1, FS_Subset
<1>6. \A i \in at : f[i] = e[g[i]] /\ f[i] \in Int
  <2>1. ASSUME NEW i \in at PROVE f[i] = e[g[i]] /\ f[i] \in Int
    <3>1. i \in 1 .. Len(g) /\ u[g[i]].script = sc
      BY <1>3
    <3>2. g[i] \in T
      BY <1>4, <3>1
    <3>3. x.inputs[i] = u[g[i]] /\ e[g[i]] = Held(u[g[i]])
      BY <1>0, <3>1, <3>2
    <3>. QED
      BY <1>2, <3>1, <3>3
  <2>. QED
    BY <2>1
<1>7. Absorbed(x, sc) = SumFunctionOnSet(f, DOMAIN f) /\ DOMAIN f = at
  BY DEF Absorbed, SumFunction
<1>8. Worth(u, T) = SumFunctionOnSet(e, T)
  BY DEF Worth
<1>9. \A id \in T : Held(u[id]) \in Int
  BY <1>2, <1>4
<1>. HIDE DEF at, f, e, T
<1>10. \A i, j \in at : g[i] = g[j] => i = j
  BY <1>0, <1>3
<1>11. T = {g[i] : i \in at}
  BY <1>3, <1>4
<1>12. SumFunctionOnSet(f, at) = SumFunctionOnSet(e, {g[i] : i \in at})
  BY <1>5, <1>6, <1>10, SumRenamed
<1>13. IsFiniteSet({g[i] : i \in at})
  <2>. DEFINE r == [i \in at |-> g[i]]
  <2>1. r \in Surjection(at, {g[i] : i \in at})
    BY DEF Surjection
  <2>. QED
    BY <1>5, <2>1, FS_Surjection
<1>14. SumFunctionOnSet(f, at) = SumFunctionOnSet(e, T)
  BY <1>11, <1>12, Zenon
<1>15. IsFiniteSet(T)
  BY <1>11, <1>13, Zenon
<1>. QED
  BY <1>7, <1>8, <1>9, <1>14, <1>15 DEF T

LEMMA TakenWorth ==
  ASSUME NEW c, IsChain(c), NEW b, IsVaultTx(b.tx),
         NEW x, InputsOf(Utxo(c), b.tx.inputs, x)
  PROVE  /\ IsFiniteSet(TakenBy(c, b))
         /\ TakenSum(c, b) = Absorbed(x, "DepositReceipt") + Absorbed(x, "FeePot")
<1>. DEFINE u == Utxo(c)
            R == OfScript(u, b.tx.inputs, "DepositReceipt")
            F == OfScript(u, b.tx.inputs, "FeePot")
<1>1. UtxoShaped(Utxo(c)) /\ "DepositReceipt" \in Lockable /\ "FeePot" \in Lockable
  BY UtxoIsShaped DEF Lockable
<1>2. /\ IsFiniteSet(R) /\ (\A id \in R : Held(u[id]) \in Int)
      /\ Absorbed(x, "DepositReceipt") = Worth(u, R)
  BY <1>1, MergedWorth
<1>3. /\ IsFiniteSet(F) /\ (\A id \in F : Held(u[id]) \in Int)
      /\ Absorbed(x, "FeePot") = Worth(u, F)
  BY <1>1, MergedWorth
<1>4. TakenBy(c, b) = R \cup F /\ R \cap F = {}
  BY DEF TakenBy, Lockable, OfScript
<1>5. TakenSum(c, b) = Worth(u, TakenBy(c, b))
  BY DEF TakenSum, Worth
<1>. HIDE DEF u, R, F
<1>6. IsFiniteSet(R \cup F) /\ Worth(u, R \cup F) = Worth(u, R) + Worth(u, F)
  BY <1>2, <1>3, <1>4, WorthUnion
<1>7. Worth(u, TakenBy(c, b)) = Worth(u, R) + Worth(u, F)
  BY <1>4, <1>6, Zenon
<1>8. IsFiniteSet(TakenBy(c, b))
  BY <1>4, <1>6, Zenon
<1>. QED
  BY <1>2, <1>3, <1>5, <1>7, <1>8

--------------------------------------------------------------------------------
(* The transactions that leave the vault alone *)

LEMMA OnlyOne ==
  ASSUME NEW u, NEW script
  PROVE  /\ WithScript(u, script) # {} => Only(u, script) \in WithScript(u, script)
         /\ \A v : WithScript(u, script) = {v} => Only(u, script) = v
BY DEF Only

\* It spends what is there, and touches neither the vault nor the redeemed set.
Calm(c, b) ==
  /\ IsSeq(b.tx.inputs) /\ IsSeq(b.tx.outputs)
  /\ \A id \in ToSet(b.tx.inputs) : id \in DOMAIN Utxo(c)
  /\ Bystander(c, b)

LEMMA OneListed ==
  ASSUME NEW x, NEW s, s = <<x>>
  PROVE  /\ IsSeq(s) /\ Len(s) = 1 /\ DOMAIN s = {1} /\ s[1] = x
         /\ \A y : y \in ToSet(s) <=> y = x
<1>1. DOMAIN s = {1} /\ s[1] = x /\ Len(s) = 1 /\ s \in Seq({x})
  OBVIOUS
<1>2. ToSet(s) = {x}
  BY <1>1 DEF ToSet
<1>. QED
  BY <1>1, <1>2 DEF IsSeq

LEMMA NoneListed ==
  ASSUME NEW s, s = <<>>
  PROVE  IsSeq(s) /\ Len(s) = 0 /\ DOMAIN s = {} /\ \A y : y \notin ToSet(s)
<1>1. DOMAIN s = {} /\ Len(s) = 0
  OBVIOUS
<1>2. ToSet(s) = {}
  BY <1>1 DEF ToSet
<1>. QED
  BY <1>1, <1>2 DEF IsSeq

LEMMA LockIsCalm ==
  ASSUME NEW c, IsChain(c), NEW b, NEW height, b.tx \in Locks(Utxo(c), height),
         \A i \in DOMAIN b.tx.outputs : Holds(b.tx.outputs[i])
  PROVE  Calm(c, b)
<1>1. UtxoShaped(Utxo(c))
  BY UtxoIsShaped
<1>2. /\ \E w \in WithScript(Utxo(c), "depositor") : b.tx.inputs = <<w>>
      /\ IsSeq(b.tx.outputs) /\ 1 \in DOMAIN b.tx.outputs
      /\ \A i \in DOMAIN b.tx.outputs :
           /\ Shaped(b.tx.outputs[i])
           /\ b.tx.outputs[i].script \in {"DepositReceipt", "FeePot"}
  BY <1>1, LockIs
<1>3. PICK w \in WithScript(Utxo(c), "depositor") : b.tx.inputs = <<w>>
  BY <1>2
<1>4. IsSeq(b.tx.inputs) /\ \A id : id \in ToSet(b.tx.inputs) <=> id = w
  BY <1>3, OneListed
<1>5. w \in DOMAIN Utxo(c) /\ Utxo(c)[w].script = "depositor"
  BY DEF WithScript
<1>6. ~ IsVaultTx(b.tx)
  <2>1. b.tx.outputs[1].tokens = <<Use(Held(b.tx.outputs[1]))>>
    BY <1>2 DEF Shaped, Holders
  <2>. QED
    BY <2>1 DEF IsVaultTx, Carries, Use
<1>7. Bystander(c, b)
  BY <1>2, <1>4, <1>5, <1>6 DEF Bystander
<1>. QED
  BY <1>2, <1>4, <1>5, <1>7 DEF Calm

LEMMA RefundIsCalm ==
  ASSUME NEW c, NEW b, b.tx \in Refunds(Utxo(c))
  PROVE  Calm(c, b)
<1>1. PICK r \in WithScript(Utxo(c), "DepositReceipt") :
        b.tx.inputs = <<r>> /\ b.tx.outputs = <<Wallet(UseOf(Utxo(c)[r]))>>
  BY RefundIs
<1>. DEFINE o == Wallet(UseOf(Utxo(c)[r]))
<1>2. o.script = "depositor" /\ ~ Carries(o, 1, "VaultNFT")
  BY DEF Wallet, Carries, Use
<1>. HIDE DEF o
<1>3. /\ IsSeq(b.tx.outputs) /\ \A i \in DOMAIN b.tx.outputs : b.tx.outputs[i] = o
      /\ b.tx.outputs[1] = o
  BY <1>1, OneListed DEF o
<1>4. IsSeq(b.tx.inputs) /\ \A id : id \in ToSet(b.tx.inputs) <=> id = r
  BY <1>1, OneListed
<1>5. r \in DOMAIN Utxo(c) /\ Utxo(c)[r].script = "DepositReceipt"
  BY DEF WithScript
<1>6. Bystander(c, b)
  BY <1>2, <1>3, <1>4, <1>5 DEF Bystander, IsVaultTx
<1>. QED
  BY <1>3, <1>4, <1>5, <1>6 DEF Calm

LEMMA PostIsCalm ==
  ASSUME NEW c, WithScript(Utxo(c), "SideChainState") # {},
         NEW b, NEW height, b.tx \in Posts(Utxo(c), height)
  PROVE  Calm(c, b)
<1>. DEFINE st == Only(Utxo(c), "SideChainState")
<1>1. PICK n, burns : b.tx.inputs = <<st>> /\ b.tx.outputs = <<StateBox(n, burns, height)>>
  BY PostIs
<1>. DEFINE o == StateBox(n, burns, height)
<1>2. o.script = "SideChainState" /\ ~ Carries(o, 1, "VaultNFT")
  BY DEF StateBox, Carries, One
<1>5. st \in DOMAIN Utxo(c) /\ Utxo(c)[st].script = "SideChainState"
  <2>1. st \in WithScript(Utxo(c), "SideChainState")
    BY OnlyOne
  <2>. QED
    BY <2>1 DEF WithScript
<1>. HIDE DEF o, st
<1>3. /\ IsSeq(b.tx.outputs) /\ \A i \in DOMAIN b.tx.outputs : b.tx.outputs[i] = o
      /\ b.tx.outputs[1] = o /\ 1 \in DOMAIN b.tx.outputs
  BY <1>1, OneListed DEF o
<1>4. IsSeq(b.tx.inputs) /\ \A id : id \in ToSet(b.tx.inputs) <=> id = st
  BY <1>1, OneListed
<1>6. Bystander(c, b)
  BY <1>2, <1>3, <1>4, <1>5 DEF Bystander, IsVaultTx
<1>. QED
  BY <1>3, <1>4, <1>5, <1>6 DEF Calm

LEMMA IntentIsCalm ==
  ASSUME NEW c, NEW b, b.tx \in Intents(Utxo(c))
  PROVE  Calm(c, b)
<1>1. PICK x \in DOMAIN Burned : b.tx.inputs = <<>> /\ b.tx.outputs = <<Intent(x)>>
  BY IntentIs
<1>2. Intent(x).script = "UnlockIntent"
  BY DEF Intent
<1>3. IsSeq(b.tx.outputs) /\ \A i \in DOMAIN b.tx.outputs : b.tx.outputs[i] = Intent(x)
  BY <1>1, OneListed
<1>4. IsSeq(b.tx.inputs) /\ \A id : id \notin ToSet(b.tx.inputs)
  BY <1>1, NoneListed
<1>. QED
  BY <1>1, <1>2, <1>3, <1>4 DEF Calm, Bystander, IsVaultTx

LEMMA NoTxIsCalm ==
  ASSUME NEW c, NEW b, b.tx = NoTx
  PROVE  Calm(c, b)
<1>1. b.tx.inputs = <<>> /\ b.tx.outputs = <<>>
  BY DEF NoTx, Tx
<1>2. IsSeq(b.tx.inputs) /\ \A id : id \notin ToSet(b.tx.inputs)
  BY <1>1, NoneListed
<1>3. IsSeq(b.tx.outputs) /\ DOMAIN b.tx.outputs = {}
  BY <1>1, NoneListed
<1>. QED
  BY <1>1, <1>2, <1>3 DEF Calm, Bystander, IsVaultTx

--------------------------------------------------------------------------------
(* Merges *)

\* A merge lists the vault first and then boxes it absorbs, each once.
MergeOf(u, tx, v, n) ==
  /\ IsSeq(tx.inputs) /\ Len(tx.inputs) >= 1 /\ tx.inputs[1] = v
  /\ \A i \in 1 .. Len(tx.inputs) : i # 1 => tx.inputs[i] \in Absorbable(u)
  /\ \A i, j \in 1 .. Len(tx.inputs) : tx.inputs[i] = tx.inputs[j] => i = j
  /\ tx.signers = {}
  /\ IsSeq(tx.outputs) /\ 1 \in DOMAIN tx.outputs /\ tx.outputs[1] = Vault(n)
  /\ \A i \in DOMAIN tx.outputs : i # 1 => tx.outputs[i].script = "depositor"

LEMMA MergeShape ==
  ASSUME NEW u, IsFiniteSet(DOMAIN u), NEW v, WithScript(u, "PegVault") = {v},
         NEW tx \in Merges(u)
  PROVE  \E n : MergeOf(u, tx, v, n)
<1>0. PICK s \in SUBSET Absorbable(u) : \E n :
        /\ s # {} /\ tx.signers = {}
        /\ tx.inputs = <<Only(u, "PegVault")>> \o SetToSeq(s)
        /\ tx.outputs = <<Vault(n)>> \/ tx.outputs = <<Vault(n), Wallet(1)>>
  BY MergeIs
<1>1. PICK n :
        /\ s # {} /\ tx.signers = {}
        /\ tx.inputs = <<Only(u, "PegVault")>> \o SetToSeq(s)
        /\ tx.outputs = <<Vault(n)>> \/ tx.outputs = <<Vault(n), Wallet(1)>>
  BY <1>0
<1>2. Only(u, "PegVault") = v /\ u[v].script = "PegVault"
  BY OnlyOne DEF WithScript
<1>3. \A id \in Absorbable(u) : id \in DOMAIN u /\ u[id].script \in Lockable
  BY DEF Absorbable, WithScript, Lockable
<1>4. v \notin s
  BY <1>2, <1>3 DEF Lockable
<1>5. IsFiniteSet(s)
  BY <1>3, FS_Subset
<1>. DEFINE q == SetToSeq(s)
            a == <<v>>
            g == tx.inputs
<1>6. /\ IsSeq(q) /\ \A i \in 1 .. Len(q) : q[i] \in s
      /\ \A i, j \in 1 .. Len(q) : q[i] = q[j] => i = j
  BY <1>5, SetToSeqIs
<1>7. IsSeq(a) /\ Len(a) = 1 /\ a[1] = v
  BY OneListed
<1>8. g = a \o q
  BY <1>1, <1>2
<1>. HIDE DEF q, a, g
<1>9. /\ IsSeq(g) /\ Len(g) = Len(a) + Len(q)
      /\ \A i \in 1 .. Len(a) : g[i] = a[i]
      /\ \A i \in 1 .. Len(q) : g[Len(a) + i] = q[i]
  <2>1. IsSeq(q) /\ IsSeq(a)
    BY <1>6, <1>7
  <2>2. IsSeq(g)
    BY <1>8, <2>1, SeqJoined, Zenon
  <2>3. Len(g) = Len(a) + Len(q)
    BY <1>8, <2>1, SeqJoined
  <2>4. \A i \in 1 .. Len(a) : g[i] = a[i]
    BY <1>8, <2>1, SeqJoined
  <2>5. \A i \in 1 .. Len(q) : g[Len(a) + i] = q[i]
    BY <1>8, <2>1, SeqJoined
  <2>. QED
    BY <2>2, <2>3, <2>4, <2>5
<1>10. Len(q) \in Nat
  BY <1>6, SeqParts
<1>11. Len(g) = 1 + Len(q) /\ g[1] = v /\ \A i \in 1 .. Len(q) : g[1 + i] = q[i]
  BY <1>7, <1>9, <1>10
<1>12. ASSUME NEW i \in 1 .. Len(g), i # 1
       PROVE  i - 1 \in 1 .. Len(q) /\ g[i] = q[i - 1] /\ g[i] \in s
  <2>1. i - 1 \in 1 .. Len(q) /\ 1 + (i - 1) = i
    BY <1>10, <1>11, <1>12
  <2>. QED
    BY <1>6, <1>11, <2>1
<1>13. ASSUME NEW i \in 1 .. Len(g), NEW j \in 1 .. Len(g), g[i] = g[j] PROVE i = j
  <2>1. CASE i = 1 \/ j = 1
    BY <1>4, <1>11, <1>12, <1>13, <2>1
  <2>2. CASE i # 1 /\ j # 1
    <3>1. i - 1 = j - 1
      BY <1>6, <1>12, <1>13, <2>2
    <3>. QED
      BY <1>10, <1>11, <3>1
  <2>. QED
    BY <2>1, <2>2
<1>14. IsSeq(tx.outputs) /\ 1 \in DOMAIN tx.outputs /\ tx.outputs[1] = Vault(n)
  <2>. DEFINE w == Vault(n)
              e == Wallet(1)
  <2>1. tx.outputs = <<w>> \/ tx.outputs = <<w, e>>
    BY <1>1
  <2>. HIDE DEF w, e
  <2>2. IsSeq(tx.outputs) /\ 1 \in DOMAIN tx.outputs /\ tx.outputs[1] = w
    BY <2>1 DEF IsSeq, ToSet
  <2>. QED
    BY <2>2 DEF w
<1>15. \A i \in DOMAIN tx.outputs : i # 1 => tx.outputs[i].script = "depositor"
  <2>. DEFINE w == Vault(n)
              e == Wallet(1)
  <2>1. tx.outputs = <<w>> \/ tx.outputs = <<w, e>>
    BY <1>1
  <2>2. e.script = "depositor"
    BY DEF Wallet
  <2>. HIDE DEF w, e
  <2>. QED
    BY <2>1, <2>2
<1>16. MergeOf(u, tx, v, n)
  BY <1>1, <1>9, <1>10, <1>11, <1>12, <1>13, <1>14, <1>15 DEF MergeOf, g
<1>. QED
  BY <1>16

LEMMA MergeSpends ==
  ASSUME NEW u, NEW v, v \in DOMAIN u, NEW tx, NEW n, MergeOf(u, tx, v, n)
  PROVE  \A id \in ToSet(tx.inputs) : id \in DOMAIN u /\ (id = v \/ u[id].script \in Lockable)
<1>1. DOMAIN tx.inputs = 1 .. Len(tx.inputs)
  BY SeqParts DEF MergeOf
<1>. QED
  BY <1>1 DEF MergeOf, ToSet, Absorbable, WithScript, Lockable

\* The contracts make the vault's gain exactly what the merge absorbs, and none of it a
\* receipt the sidechain could not read.
LEMMA MergePays ==
  ASSUME NEW c, IsChain(c), NEW b, NEW v, v \in DOMAIN Utxo(c), Utxo(c)[v].script = "PegVault",
         NEW n, MergeOf(Utxo(c), b.tx, v, n), NEW height, Accepted(Utxo(c), b.tx, height)
  PROVE  /\ IsFiniteSet(TakenBy(c, b)) /\ TakesUsable(c, b) /\ IsVaultTx(b.tx)
         /\ n = Utxo(c)[v].tokens[2].amount + TakenSum(c, b)
<1>. DEFINE u == Utxo(c)
            g == b.tx.inputs
            x == Resolved(u, b.tx)
<1>1. /\ IsSeq(g) /\ Len(g) >= 1 /\ g[1] = v /\ Len(g) \in Nat /\ DOMAIN g = 1 .. Len(g)
      /\ \A i, j \in 1 .. Len(g) : g[i] = g[j] => i = j
      /\ \A i \in 1 .. Len(g) : i # 1 => g[i] \in DOMAIN u /\ u[g[i]].script \in Lockable
      /\ b.tx.signers = {} /\ b.tx.outputs[1] = Vault(n)
  <2>1. IsSeq(g)
    BY DEF MergeOf
  <2>2. Len(g) \in Nat /\ DOMAIN g = 1 .. Len(g)
    BY <2>1, SeqParts
  <2>. QED
    BY <2>1, <2>2 DEF MergeOf, Absorbable, WithScript, Lockable
<1>2. /\ x.outputs = b.tx.outputs /\ x.signers = b.tx.signers
      /\ DOMAIN x.inputs = 1 .. Len(g) /\ Len(x.inputs) = Len(g)
      /\ \A i \in 1 .. Len(g) : x.inputs[i] = u[g[i]]
  BY <1>1, ResolvedIs
<1>3. \A i \in 1 .. Len(g) : ScriptHolds(x, i, height)
  BY <1>1, AcceptedIs
<1>4. UtxoShaped(Utxo(c))
  BY UtxoIsShaped
<1>5. Vault(n).tokens[2].amount = n /\ Carries(Vault(n), 1, "VaultNFT")
  BY DEF Vault, Use, One, Carries
<1>6. u[v].script = "PegVault" /\ v \in DOMAIN u
  OBVIOUS
<1>. HIDE DEF u, x, g
<1>7. PegVault(u[v], x, height)
  <2>1. 1 \in 1 .. Len(g) /\ x.inputs[1] = u[v]
    BY <1>1, <1>2
  <2>2. ScriptHolds(x, 1, height)
    BY <1>3, <2>1
  <2>. QED
    BY <1>6, <2>1, <2>2 DEF ScriptHolds
<1>8. ~ IsPayout(x)
  <2>1. ASSUME Len(x.inputs) > 1 PROVE x.inputs[2].script \in Lockable
    BY <1>1, <1>2, <2>1
  <2>. QED
    BY <2>1 DEF IsPayout, Lockable
<1>9. n = u[v].tokens[2].amount + (Absorbed(x, "DepositReceipt") + Absorbed(x, "FeePot"))
  <2>1. TopUp(u[v], x)
    BY <1>7, <1>8 DEF PegVault
  <2>. QED
    BY <1>1, <1>2, <1>5, <2>1 DEF TopUp
<1>10. IsVaultTx(b.tx)
  <2>1. g # <<>>
    BY <1>1
  <2>. QED
    BY <1>1, <1>5, <2>1 DEF IsVaultTx, g
<1>11. InputsOf(Utxo(c), b.tx.inputs, x)
  BY <1>1, <1>2, <1>6 DEF InputsOf, u, g
<1>12. /\ IsFiniteSet(TakenBy(c, b))
       /\ TakenSum(c, b) = Absorbed(x, "DepositReceipt") + Absorbed(x, "FeePot")
  BY <1>10, <1>11, TakenWorth
<1>13. TakesUsable(c, b)
  <2>1. SUFFICES ASSUME NEW id \in TakenBy(c, b), u[id].script = "DepositReceipt"
                 PROVE  u[id].R4 \in Usable
    BY DEF TakesUsable, u
  <2>2. PICK i \in 1 .. Len(g) : id = g[i]
    BY <1>1 DEF TakenBy, ToSet, g
  <2>3. ScriptHolds(x, i, height) /\ x.inputs[i] = u[id]
    BY <1>2, <1>3, <2>2
  <2>4. DepositReceipt(u[id], x, height)
    BY <2>1, <2>3 DEF ScriptHolds
  <2>5. "depositor" \notin x.signers
    BY <1>1, <1>2
  <2>. QED
    BY <2>4, <2>5 DEF DepositReceipt, Mintable, Usable
<1>. QED
  BY <1>9, <1>10, <1>12, <1>13 DEF u

\* The vault of a merge takes the place of the one it spends.
LEMMA MergeKeeps ==
  ASSUME NEW c, NEW b, NEW e, Grown(c, b, e), IsFiniteSet(AbsorbedIds(c)),
         NEW v, NEW d, Holding(c, v, d), NEW n, MergeOf(Utxo(c), b.tx, v, n),
         NEW height, Accepted(Utxo(c), b.tx, height)
  PROVE  /\ IsFiniteSet(AbsorbedIds(e)) /\ TakesUsable(c, b)
         /\ Holding(e, BoxId(b, 1), d)
<1>. DEFINE u == Utxo(c)
            w == BoxId(b, 1)
            outs == b.tx.outputs
<1>1. /\ WithScript(u, "PegVault") = {v} /\ WithScript(u, "DoubleRedeem") = {d}
      /\ v \in DOMAIN u /\ u[v].script = "PegVault" /\ d \in DOMAIN u
      /\ u[d].script = "DoubleRedeem"
  BY DEF Holding, WithScript
<1>2. IsChain(c) /\ IsBlock(b, Len(c) + 1)
  BY DEF Grown, Follows
<1>3. /\ IsFiniteSet(TakenBy(c, b)) /\ TakesUsable(c, b)
      /\ n = u[v].tokens[2].amount + TakenSum(c, b)
  BY <1>1, <1>2, MergePays
<1>4. /\ IsFiniteSet(AbsorbedIds(e))
      /\ AbsorbedSum(c) \in Int /\ TakenSum(c, b) \in Int
      /\ AbsorbedSum(e) = AbsorbedSum(c) + TakenSum(c, b)
  BY <1>3, AbsorbedGrows
<1>5. \A id \in ToSet(b.tx.inputs) : id \in DOMAIN u /\ (id = v \/ u[id].script \in Lockable)
  BY <1>1, MergeSpends
<1>6. v \in ToSet(b.tx.inputs)
  <2>1. 1 \in DOMAIN b.tx.inputs /\ b.tx.inputs[1] = v
    BY SeqParts DEF MergeOf
  <2>. QED
    BY <2>1 DEF ToSet
<1>7. /\ 1 \in DOMAIN outs /\ outs[1] = Vault(n)
      /\ \A i \in DOMAIN outs : i # 1 => outs[i].script = "depositor"
  BY DEF MergeOf
<1>8. Vault(n).script = "PegVault" /\ Vault(n).tokens[2].amount = n
  BY DEF Vault, Use, One
<1>9. Shaped(outs[1])
  BY <1>2, <1>7 DEF IsBlock
<1>10. Utxo(e)[w].tokens[2].amount = n
  <2>1. Utxo(e)[w] = Box(b, 1)
    BY <1>7, GrownUtxo
  <2>2. Box(b, 1).tokens = outs[1].tokens
    BY <1>9, BoxKeeps
  <2>. QED
    BY <1>7, <1>8, <2>1, <2>2
<1>. HIDE DEF u, outs, w
<1>11. WithScript(Utxo(e), "PegVault") = {w}
  <2>1. \A id : id \in WithScript(Utxo(e), "PegVault") <=>
           \/ id \in WithScript(u, "PegVault") /\ id \notin ToSet(b.tx.inputs)
           \/ \E i \in DOMAIN outs : id = BoxId(b, i) /\ outs[i].script = "PegVault"
    BY GrownScripts DEF u, outs
  <2>2. \A id : id \in WithScript(Utxo(e), "PegVault") <=> id = w
    BY <1>1, <1>6, <1>7, <1>8, <2>1 DEF w
  <2>. QED
    BY <2>2
<1>12. WithScript(Utxo(e), "DoubleRedeem") = {d}
  <2>1. \A id : id \in WithScript(Utxo(e), "DoubleRedeem") <=>
           \/ id \in WithScript(u, "DoubleRedeem") /\ id \notin ToSet(b.tx.inputs)
           \/ \E i \in DOMAIN outs : id = BoxId(b, i) /\ outs[i].script = "DoubleRedeem"
    BY GrownScripts DEF u, outs
  <2>2. d \notin ToSet(b.tx.inputs)
    BY <1>1, <1>5 DEF Lockable
  <2>3. \A i \in DOMAIN outs : outs[i].script # "DoubleRedeem"
    BY <1>7, <1>8
  <2>4. \A id : id \in WithScript(Utxo(e), "DoubleRedeem") <=> id = d
    BY <1>1, <2>1, <2>2, <2>3
  <2>. QED
    BY <2>4
<1>13. WithScript(Utxo(e), "SideChainState") # {}
  <2>1. PICK st : st \in WithScript(u, "SideChainState")
    BY DEF Holding, u
  <2>2. u[st].script = "SideChainState"
    BY <2>1 DEF WithScript
  <2>3. st \notin ToSet(b.tx.inputs)
    BY <1>1, <1>5, <2>2 DEF Lockable
  <2>4. st \in WithScript(Utxo(e), "SideChainState")
    BY <2>1, <2>3, GrownScripts DEF u
  <2>. QED
    BY <2>4
<1>14. Utxo(e)[d] = u[d]
  <2>1. d \in DOMAIN Utxo(e)
    BY <1>12 DEF WithScript
  <2>. QED
    BY <1>1, <2>1, GrownUtxo DEF u
<1>15. /\ u[v].tokens[2].amount \in Int
       /\ IsFiniteSet(u[d].R4) /\ u[d].R4 \subseteq DOMAIN Burned
       /\ u[v].tokens[2].amount = V0 + AbsorbedSum(c) - PaidSum(u[d].R4)
  BY DEF Holding, u
<1>16. V0 \in Int /\ PaidSum(u[d].R4) \in Int
  BY <1>15, PaidSumType, PegInAssumption
<1>17. /\ Utxo(e)[w].tokens[2].amount \in Int
       /\ Utxo(e)[w].tokens[2].amount = V0 + AbsorbedSum(e) - PaidSum(Utxo(e)[d].R4)
  <2>1. PaidSum(Utxo(e)[d].R4) = PaidSum(u[d].R4)
    BY <1>14, Zenon
  <2>. QED
    BY <1>3, <1>4, <1>10, <1>15, <1>16, <2>1
<1>18. Holding(e, w, d)
  BY <1>11, <1>12, <1>13, <1>14, <1>15, <1>17 DEF Holding
<1>. QED
  BY <1>3, <1>4, <1>18 DEF w

--------------------------------------------------------------------------------
(* Payouts *)

PayOf(u, tx, v, d, i, n) ==
  /\ i \in WithScript(u, "UnlockIntent") /\ n \in {Owed(x) : x \in DOMAIN Burned}
  /\ tx.inputs = <<v, i, d>>
  /\ tx.outputs = <<Vault(u[v].tokens[2].amount - n),
                    Redeemed(u[d].R4 \union {u[i].R4}, u[i].R4), Claimed(n)>>

LEMMA PayShape ==
  ASSUME NEW u, NEW v, WithScript(u, "PegVault") = {v},
         NEW d, WithScript(u, "DoubleRedeem") = {d}, NEW tx \in Payouts(u)
  PROVE  \E i, n : PayOf(u, tx, v, d, i, n)
<1>1. Only(u, "PegVault") = v /\ Only(u, "DoubleRedeem") = d
  BY OnlyOne
<1>2. {Burned[b] - VaultFee(Burned[b]) : b \in DOMAIN Burned} = {Owed(x) : x \in DOMAIN Burned}
  BY DEF Owed
<1>3. PICK i \in WithScript(u, "UnlockIntent"),
           n \in {Burned[b] - VaultFee(Burned[b]) : b \in DOMAIN Burned} :
        /\ tx.inputs = <<v, i, d>>
        /\ tx.outputs = <<Vault(u[v].tokens[2].amount - n),
                          Redeemed(u[d].R4 \union {u[i].R4}, u[i].R4), Claimed(n)>>
  BY <1>1, PayoutIs
<1>4. PayOf(u, tx, v, d, i, n)
  BY <1>2, <1>3 DEF PayOf
<1>. QED
  BY <1>4

\* The outputs of a payout, told apart.
PayOutputs(u, outs, v, d, i, n) ==
  /\ IsSeq(outs) /\ DOMAIN outs = {1, 2, 3}
  /\ outs[1].script = "PegVault" /\ Carries(outs[1], 1, "VaultNFT")
  /\ outs[1].tokens[2].amount = u[v].tokens[2].amount - n
  /\ outs[2].script = "DoubleRedeem"
  /\ outs[2].R4 = u[d].R4 \union {u[i].R4} /\ outs[2].R5 = u[i].R4
  /\ {"R4", "R5"} \subseteq DOMAIN outs[2]
  /\ outs[3].script = "claimant"

LEMMA PayParts ==
  ASSUME NEW u, NEW tx, NEW v, NEW d, NEW i, NEW n, PayOf(u, tx, v, d, i, n)
  PROVE  /\ IsSeq(tx.inputs) /\ Len(tx.inputs) = 3 /\ tx.inputs # <<>>
         /\ tx.inputs[1] = v /\ tx.inputs[2] = i /\ tx.inputs[3] = d
         /\ \A id : id \in ToSet(tx.inputs) <=> id \in {v, i, d}
         /\ PayOutputs(u, tx.outputs, v, d, i, n)
<1>1. tx.inputs = <<v, i, d>>
  BY DEF PayOf
<1>2. IsSeq(tx.inputs) /\ \A id : id \in ToSet(tx.inputs) <=> id \in {v, i, d}
  BY <1>1 DEF IsSeq, ToSet
<1>. DEFINE x == Vault(u[v].tokens[2].amount - n)
            y == Redeemed(u[d].R4 \union {u[i].R4}, u[i].R4)
            z == Claimed(n)
<1>3. tx.outputs = <<x, y, z>>
  BY DEF PayOf
<1>4. /\ x.script = "PegVault" /\ Carries(x, 1, "VaultNFT")
      /\ x.tokens[2].amount = u[v].tokens[2].amount - n
  BY DEF Vault, Carries, One, Use
<1>5. /\ y.script = "DoubleRedeem" /\ y.R4 = u[d].R4 \union {u[i].R4} /\ y.R5 = u[i].R4
      /\ {"R4", "R5"} \subseteq DOMAIN y
  BY DEF Redeemed
<1>6. z.script = "claimant"
  BY DEF Claimed
<1>. HIDE DEF x, y, z
<1>7. IsSeq(tx.outputs)
  BY <1>3 DEF IsSeq, ToSet
<1>8. PayOutputs(u, tx.outputs, v, d, i, n)
  BY <1>3, <1>4, <1>5, <1>6, <1>7 DEF PayOutputs
<1>. QED
  BY <1>1, <1>2, <1>8

\* The contracts make a payout worth the burn of its intent, one not redeemed before.
LEMMA PayoutPays ==
  ASSUME NEW c, IsChain(c), NEW tx, NEW v, NEW d, NEW i, NEW n,
         PayOf(Utxo(c), tx, v, d, i, n), Holding(c, v, d),
         NEW height, Accepted(Utxo(c), tx, height)
  PROVE  LET x == Utxo(c)[i].R4
         IN  x \in DOMAIN Burned /\ x \notin Utxo(c)[d].R4 /\ n = Owed(x) /\ n \in Int
<1>. DEFINE u == Utxo(c)
            t == Resolved(u, tx)
<1>1. /\ u[v].script = "PegVault" /\ u[d].script = "DoubleRedeem"
      /\ u[v].tokens[2].amount \in Int
  BY DEF Holding, WithScript
<1>2. i \in DOMAIN u /\ u[i].script = "UnlockIntent" /\ n \in {Owed(x) : x \in DOMAIN Burned}
  BY DEF PayOf, WithScript
<1>3. u[i].R4 \in DOMAIN Burned /\ u[i].R5 = Burned[u[i].R4]
  <2>1. UtxoShaped(Utxo(c))
    BY UtxoIsShaped
  <2>. QED
    BY <1>2, <2>1 DEF UtxoShaped, BoxShaped
<1>4. n \in Int
  BY <1>2, OwedType
<1>5. /\ IsSeq(tx.inputs) /\ Len(tx.inputs) = 3
      /\ tx.inputs[1] = v /\ tx.inputs[2] = i /\ tx.inputs[3] = d
      /\ PayOutputs(u, tx.outputs, v, d, i, n)
  BY PayParts
<1>6. /\ t.outputs = tx.outputs /\ Len(t.inputs) = Len(tx.inputs)
      /\ \A j \in 1 .. Len(tx.inputs) : t.inputs[j] = u[tx.inputs[j]]
  BY <1>5, ResolvedIs
<1>7. \A j \in 1 .. Len(tx.inputs) : ScriptHolds(t, j, height)
  BY <1>5, AcceptedIs
<1>. HIDE DEF u, t
<1>8. /\ t.inputs[1] = u[v] /\ t.inputs[2] = u[i] /\ t.inputs[3] = u[d] /\ Len(t.inputs) = 3
      /\ ScriptHolds(t, 1, height) /\ ScriptHolds(t, 3, height)
  BY <1>5, <1>6, <1>7
<1>9. PegVault(u[v], t, height)
  BY <1>1, <1>8 DEF ScriptHolds
<1>10. IsPayout(t)
  BY <1>2, <1>8 DEF IsPayout
<1>11. Payout(u[v], t, height)
  BY <1>9, <1>10 DEF PegVault
<1>12. u[v].tokens[2].amount - t.outputs[1].tokens[2].amount = u[i].R5 - VaultFee(u[i].R5)
  BY <1>8, <1>11 DEF Payout
<1>13. t.outputs[1].tokens[2].amount = u[v].tokens[2].amount - n
  BY <1>5, <1>6 DEF PayOutputs
<1>14. n = Owed(u[i].R4)
  <2>1. u[i].R5 - VaultFee(u[i].R5) = Owed(u[i].R4)
    BY <1>3 DEF Owed
  <2>. QED
    BY <1>1, <1>4, <1>12, <1>13, <2>1
<1>15. DoubleRedeem(u[d], t)
  BY <1>1, <1>8 DEF ScriptHolds
<1>16. u[i].R4 \notin u[d].R4
  <2>1. t.outputs[2].R5 \notin u[d].R4
    BY <1>15 DEF DoubleRedeem
  <2>. QED
    BY <1>5, <1>6, <2>1 DEF PayOutputs
<1>. QED
  BY <1>3, <1>4, <1>14, <1>16 DEF u

\* The vault and the redeemed set of a payout take the place of the ones it spends.
LEMMA PayoutKeeps ==
  ASSUME NEW c, NEW b, NEW e, Grown(c, b, e), IsFiniteSet(AbsorbedIds(c)),
         NEW v, NEW d, Holding(c, v, d), NEW i, NEW n, PayOf(Utxo(c), b.tx, v, d, i, n),
         NEW height, Accepted(Utxo(c), b.tx, height)
  PROVE  /\ IsFiniteSet(AbsorbedIds(e)) /\ TakesUsable(c, b)
         /\ Holding(e, BoxId(b, 1), BoxId(b, 2))
<1>. DEFINE u == Utxo(c)
            x == u[i].R4
            w == BoxId(b, 1)
            r == BoxId(b, 2)
            outs == b.tx.outputs
<1>1. /\ WithScript(u, "PegVault") = {v} /\ WithScript(u, "DoubleRedeem") = {d}
      /\ u[v].script = "PegVault" /\ u[d].script = "DoubleRedeem"
      /\ u[i].script = "UnlockIntent"
  BY DEF Holding, WithScript, PayOf
<1>2. IsChain(c) /\ IsBlock(b, Len(c) + 1)
  BY DEF Grown, Follows
<1>3. x \in DOMAIN Burned /\ x \notin u[d].R4 /\ n = Owed(x) /\ n \in Int
  BY <1>2, PayoutPays
<1>4. \A id : id \in ToSet(b.tx.inputs) <=> id \in {v, i, d}
  BY PayParts
<1>5. TakenBy(c, b) = {}
  BY <1>1, <1>4 DEF TakenBy, Lockable
<1>6. TakesUsable(c, b)
  BY <1>5 DEF TakesUsable
<1>7. IsFiniteSet(TakenBy(c, b)) /\ TakenSum(c, b) = 0
  BY <1>5, FS_EmptySet, SumEmpty DEF TakenSum
<1>8. IsFiniteSet(AbsorbedIds(e)) /\ AbsorbedSum(e) = AbsorbedSum(c) /\ AbsorbedSum(c) \in Int
  BY <1>7, AbsorbedGrows
<1>9. PayOutputs(u, outs, v, d, i, n)
  BY PayParts
<1>10. \A k \in {1, 2, 3} : Shaped(outs[k])
  BY <1>2, <1>9 DEF IsBlock, PayOutputs
<1>11. /\ Utxo(e)[w].tokens[2].amount = u[v].tokens[2].amount - n
       /\ Utxo(e)[r].R4 = u[d].R4 \union {x}
  <2>1. Utxo(e)[w] = Box(b, 1) /\ Utxo(e)[r] = Box(b, 2)
    BY <1>9, GrownUtxo DEF PayOutputs
  <2>2. Box(b, 1).tokens = outs[1].tokens
    BY <1>10, BoxKeeps
  <2>3. Box(b, 2).R4 = outs[2].R4
    BY <1>9, <1>10, BoxKeeps DEF PayOutputs
  <2>. QED
    BY <1>9, <2>1, <2>2, <2>3 DEF PayOutputs
<1>12. w # r
  BY <1>2, BoxIdParts
<1>. HIDE DEF u, outs, w, r, x
<1>13. WithScript(Utxo(e), "PegVault") = {w}
  <2>1. \A id : id \in WithScript(Utxo(e), "PegVault") <=>
           \/ id \in WithScript(u, "PegVault") /\ id \notin ToSet(b.tx.inputs)
           \/ \E k \in DOMAIN outs : id = BoxId(b, k) /\ outs[k].script = "PegVault"
    BY GrownScripts DEF u, outs
  <2>2. \A id : id \in WithScript(Utxo(e), "PegVault") <=> id = w
    BY <1>1, <1>4, <1>9, <2>1 DEF w, PayOutputs
  <2>. QED
    BY <2>2
<1>14. WithScript(Utxo(e), "DoubleRedeem") = {r}
  <2>1. \A id : id \in WithScript(Utxo(e), "DoubleRedeem") <=>
           \/ id \in WithScript(u, "DoubleRedeem") /\ id \notin ToSet(b.tx.inputs)
           \/ \E k \in DOMAIN outs : id = BoxId(b, k) /\ outs[k].script = "DoubleRedeem"
    BY GrownScripts DEF u, outs
  <2>2. \A id : id \in WithScript(Utxo(e), "DoubleRedeem") <=> id = r
    BY <1>1, <1>4, <1>9, <2>1 DEF r, PayOutputs
  <2>. QED
    BY <2>2
<1>15. WithScript(Utxo(e), "SideChainState") # {}
  <2>1. PICK st : st \in WithScript(u, "SideChainState")
    BY DEF Holding, u
  <2>2. u[st].script = "SideChainState"
    BY <2>1 DEF WithScript
  <2>3. st \notin ToSet(b.tx.inputs)
    BY <1>1, <1>4, <2>2
  <2>4. st \in WithScript(Utxo(e), "SideChainState")
    BY <2>1, <2>3, GrownScripts DEF u
  <2>. QED
    BY <2>4
<1>16. /\ u[v].tokens[2].amount \in Int
       /\ IsFiniteSet(u[d].R4) /\ u[d].R4 \subseteq DOMAIN Burned
       /\ u[v].tokens[2].amount = V0 + AbsorbedSum(c) - PaidSum(u[d].R4)
  BY DEF Holding, u
<1>17. /\ IsFiniteSet(u[d].R4 \cup {x}) /\ PaidSum(u[d].R4) \in Int
       /\ PaidSum(u[d].R4 \cup {x}) = PaidSum(u[d].R4) + Owed(x)
  BY <1>3, <1>16, PaidMore
<1>18. V0 \in Int
  BY PegInAssumption
<1>19. /\ Utxo(e)[w].tokens[2].amount \in Int
       /\ Utxo(e)[w].tokens[2].amount = V0 + AbsorbedSum(e) - PaidSum(Utxo(e)[r].R4)
  <2>1. PaidSum(Utxo(e)[r].R4) = PaidSum(u[d].R4 \cup {x})
    BY <1>11, Zenon
  <2>. QED
    BY <1>3, <1>8, <1>11, <1>16, <1>17, <1>18, <2>1
<1>20. IsFiniteSet(Utxo(e)[r].R4) /\ Utxo(e)[r].R4 \subseteq DOMAIN Burned
  BY <1>3, <1>11, <1>16, <1>17
<1>21. Holding(e, w, r)
  BY <1>13, <1>14, <1>15, <1>19, <1>20 DEF Holding
<1>. QED
  BY <1>6, <1>8, <1>21 DEF w, r

--------------------------------------------------------------------------------
(* A chain of lawful blocks *)

Sound(c) ==
  /\ IsChain(c) /\ Refers(c) /\ IsFiniteSet(DOMAIN Utxo(c)) /\ IsFiniteSet(AbsorbedIds(c))
  /\ \E v, d : Holding(c, v, d)

LEMMA UtxoFinite ==
  ASSUME NEW c, NEW b, NEW e, Grown(c, b, e), IsFiniteSet(DOMAIN Utxo(c)),
         IsSeq(b.tx.outputs)
  PROVE  IsFiniteSet(DOMAIN Utxo(e))
<1>. DEFINE D == DOMAIN b.tx.outputs
            N == {BoxId(b, i) : i \in D}
            f == [i \in D |-> BoxId(b, i)]
<1>1. IsFiniteSet(D)
  BY SeqParts, FS_Interval
<1>2. f \in Surjection(D, N)
  BY DEF Surjection
<1>3. IsFiniteSet(N)
  BY <1>1, <1>2, FS_Surjection
<1>4. IsFiniteSet(DOMAIN Utxo(c) \cup N)
  BY <1>3, FS_Union
<1>5. DOMAIN Utxo(e) \subseteq DOMAIN Utxo(c) \cup N
  <2>1. \A id : id \in DOMAIN Utxo(e) <=>
                      \/ id \in DOMAIN Utxo(c) /\ id \notin ToSet(b.tx.inputs)
                      \/ MadeBy(b, id)
    BY GrownUtxo
  <2>. QED
    BY <2>1 DEF MadeBy
<1>. QED
  BY <1>4, <1>5, FS_Subset

\* A block that a sound chain may hold next keeps it sound, and takes only receipts the
\* sidechain can read.
LEMMA SoundStep ==
  ASSUME NEW c, Sound(c), NEW b, IsBlock(b, Len(c) + 1), b.tx \in Minable(c),
         NEW e, e = Append(c, b)
  PROVE  Sound(e) /\ Grown(c, b, e) /\ TakesUsable(c, b)
<1>. DEFINE u == Utxo(c)
<1>1. /\ IsChain(c) /\ Refers(c) /\ IsFiniteSet(DOMAIN u) /\ IsFiniteSet(AbsorbedIds(c))
  BY DEF Sound
<1>2. PICK v, d : Holding(c, v, d)
  BY DEF Sound
<1>3. /\ WithScript(u, "PegVault") = {v} /\ WithScript(u, "DoubleRedeem") = {d}
      /\ WithScript(u, "SideChainState") # {} /\ v \in DOMAIN u /\ u[v].script = "PegVault"
      /\ d \in DOMAIN u
  BY <1>2 DEF Holding, WithScript
<1>4. SUFFICES /\ IsSeq(b.tx.outputs) /\ \A id \in ToSet(b.tx.inputs) : id \in DOMAIN u
               /\ Grown(c, b, e) =>
                    /\ IsFiniteSet(AbsorbedIds(e)) /\ TakesUsable(c, b)
                    /\ \E y, z : Holding(e, y, z)
  <2>1. Grown(c, b, e)
    BY <1>1, <1>4 DEF Grown, Follows
  <2>2. IsFiniteSet(DOMAIN Utxo(e))
    BY <1>1, <1>4, <2>1, UtxoFinite
  <2>3. Refers(e)
    BY <2>1, GrownUtxo
  <2>4. IsChain(e)
    BY <2>1, GrownParts
  <2>. QED
    BY <1>4, <2>1, <2>2, <2>3, <2>4 DEF Sound
<1>5. CASE Calm(c, b)
  <2>1. Grown(c, b, e) => /\ IsFiniteSet(AbsorbedIds(e)) /\ TakesUsable(c, b)
                          /\ Holding(e, v, d)
    BY <1>1, <1>2, <1>5, BystanderKeeps DEF Calm
  <2>. QED
    BY <1>5, <2>1 DEF Calm
<1>6. CASE b.tx = NoTx
  BY <1>5, <1>6, NoTxIsCalm
<1>7. CASE b.tx \in Txs(u, Len(c) + 1)
  <2>1. /\ \/ b.tx \in Locks(u, Len(c) + 1) \/ b.tx \in Merges(u) \/ b.tx \in Refunds(u)
           \/ b.tx \in Posts(u, Len(c) + 1) \/ b.tx \in Intents(u) \/ b.tx \in Payouts(u)
        /\ \A i \in DOMAIN b.tx.outputs : Holds(b.tx.outputs[i])
        /\ Accepted(u, b.tx, Len(c) + 1)
    BY <1>7, Zenon DEF Txs
  <2>2. CASE b.tx \in Locks(u, Len(c) + 1)
    BY <1>1, <1>5, <2>1, <2>2, LockIsCalm
  <2>3. CASE b.tx \in Refunds(u)
    BY <1>5, <2>3, RefundIsCalm
  <2>4. CASE b.tx \in Posts(u, Len(c) + 1)
    BY <1>3, <1>5, <2>4, PostIsCalm
  <2>5. CASE b.tx \in Intents(u)
    BY <1>5, <2>5, IntentIsCalm
  <2>6. CASE b.tx \in Merges(u)
    <3>1. PICK n : MergeOf(u, b.tx, v, n)
      BY <1>1, <1>3, <2>6, MergeShape
    <3>2. \A id \in ToSet(b.tx.inputs) : id \in DOMAIN u
      BY <1>3, <3>1, MergeSpends
    <3>3. IsSeq(b.tx.outputs)
      BY <3>1 DEF MergeOf
    <3>4. ASSUME Grown(c, b, e)
          PROVE  /\ IsFiniteSet(AbsorbedIds(e)) /\ TakesUsable(c, b)
                 /\ Holding(e, BoxId(b, 1), d)
      BY <1>1, <1>2, <2>1, <3>1, <3>4, MergeKeeps
    <3>. QED
      BY <3>2, <3>3, <3>4
  <2>7. CASE b.tx \in Payouts(u)
    <3>1. PICK i, n : PayOf(u, b.tx, v, d, i, n)
      BY <1>3, <2>7, PayShape
    <3>2. \A id \in ToSet(b.tx.inputs) : id \in DOMAIN u
      <4>1. \A id \in ToSet(b.tx.inputs) : id \in {v, i, d}
        BY <3>1, PayParts
      <4>2. i \in DOMAIN u
        BY <3>1 DEF PayOf, WithScript
      <4>. QED
        BY <1>3, <4>1, <4>2
    <3>3. IsSeq(b.tx.outputs)
      <4>1. PayOutputs(u, b.tx.outputs, v, d, i, n)
        BY <3>1, PayParts
      <4>. QED
        BY <4>1 DEF PayOutputs
    <3>4. ASSUME Grown(c, b, e)
          PROVE  /\ IsFiniteSet(AbsorbedIds(e)) /\ TakesUsable(c, b)
                 /\ Holding(e, BoxId(b, 1), BoxId(b, 2))
      BY <1>1, <1>2, <2>1, <3>1, <3>4, PayoutKeeps
    <3>. QED
      BY <3>2, <3>3, <3>4
  <2>. QED
    BY <2>1, <2>2, <2>3, <2>4, <2>5, <2>6, <2>7
<1>. QED
  BY <1>6, <1>7 DEF Minable

\* Good: sound, and with every absorbed receipt mintable unless one may name 33 bytes that
\* are no point.
Good(c) == Sound(c) /\ ("garbage33" \notin Dests => ConsolidatedIsMintable(c))

LEMMA GenesisIsGood == Good(<<GenesisBlock>>)
<1>. DEFINE none == <<>>
            b == GenesisBlock
            e == <<GenesisBlock>>
            outs == GenesisBlock.tx.outputs
<1>1. IsSeq(none) /\ Len(none) = 0 /\ e = Append(none, b)
  BY NoneListed
<1>2. IsChain(none) /\ Refers(none) /\ (\A id : ~ Made(none, id)) /\ DOMAIN none = {}
  BY <1>1 DEF IsChain, Refers, Made
<1>3. b.tx.inputs = <<>> /\ IsBlock(b, 1) /\ \A id : id \notin ToSet(b.tx.inputs)
  BY GenesisOutputs, GenesisIsBlock, NoneListed
<1>4. /\ IsSeq(outs) /\ {1, 2, 3} \subseteq DOMAIN outs
      /\ outs[1] = Vault(V0) /\ outs[2] = Redeemed({}, "none") /\ outs[3] = StateBox(0, <<>>, 0)
      /\ \A i \in DOMAIN outs : i \notin {1, 2, 3} => \E n \in Int : outs[i] = Wallet(n)
  BY GenesisOutputs
<1>5. DOMAIN Utxo(none) = {}
  BY <1>2, UtxoIs
<1>6. AbsorbedIds(none) = {}
  BY <1>1, <1>2, AbsorbedIs
<1>. HIDE DEF none, b, e, outs
<1>7. Grown(none, b, e)
  <2>1. IsBlock(b, Len(none) + 1)
    BY <1>1, <1>3
  <2>. QED
    BY <1>1, <1>2, <1>3, <2>1 DEF Grown, Follows
<1>8. TakenBy(none, b) = {}
  BY <1>3 DEF TakenBy
<1>9. AbsorbedIds(e) = {}
  BY <1>6, <1>7, <1>8, GrownAbsorbed
<1>10. IsFiniteSet(AbsorbedIds(e)) /\ AbsorbedSum(e) = 0
  BY <1>9, FS_EmptySet, SumEmpty DEF AbsorbedSum
<1>11. Refers(e)
  BY <1>7, GrownUtxo
<1>12. IsChain(e)
  BY <1>7, GrownParts
<1>13. IsFiniteSet(DOMAIN Utxo(e))
  <2>1. IsFiniteSet(DOMAIN Utxo(none)) /\ IsSeq(b.tx.outputs)
    BY <1>4, <1>5, FS_EmptySet DEF b, outs
  <2>. QED
    BY <1>7, <2>1, UtxoFinite
<1>14. /\ outs[1].script = "PegVault" /\ outs[1].tokens[2].amount = V0
       /\ outs[2].script = "DoubleRedeem" /\ outs[2].R4 = {} /\ "R4" \in DOMAIN outs[2]
       /\ outs[3].script = "SideChainState"
       /\ \A i \in DOMAIN outs : i \notin {1, 2, 3} => outs[i].script = "depositor"
  <2>1. Vault(V0).script = "PegVault" /\ Vault(V0).tokens[2].amount = V0
    BY DEF Vault, Use, One
  <2>2. LET y == Redeemed({}, "none")
        IN  y.script = "DoubleRedeem" /\ y.R4 = {} /\ "R4" \in DOMAIN y
    BY DEF Redeemed
  <2>3. StateBox(0, <<>>, 0).script = "SideChainState"
    BY DEF StateBox
  <2>4. \A n : Wallet(n).script = "depositor"
    BY DEF Wallet
  <2>. QED
    BY <1>4, <2>1, <2>2, <2>3, <2>4
<1>15. \A x : \A id : id \in WithScript(Utxo(e), x) <=>
          \E i \in DOMAIN outs : id = BoxId(b, i) /\ outs[i].script = x
  <2>1. \A x : WithScript(Utxo(none), x) = {}
    BY <1>5 DEF WithScript
  <2>2. ASSUME NEW x
        PROVE  \A id : id \in WithScript(Utxo(e), x) <=>
                 \/ id \in WithScript(Utxo(none), x) /\ id \notin ToSet(b.tx.inputs)
                 \/ \E i \in DOMAIN outs : id = BoxId(b, i) /\ outs[i].script = x
    BY <1>7, GrownScripts DEF outs, b
  <2>. QED
    BY <2>1, <2>2
<1>16. WithScript(Utxo(e), "PegVault") = {BoxId(b, 1)}
  BY <1>4, <1>14, <1>15
<1>17. WithScript(Utxo(e), "DoubleRedeem") = {BoxId(b, 2)}
  BY <1>4, <1>14, <1>15
<1>18. WithScript(Utxo(e), "SideChainState") # {}
  BY <1>4, <1>14, <1>15
<1>19. /\ Utxo(e)[BoxId(b, 1)].tokens[2].amount = V0
       /\ Utxo(e)[BoxId(b, 2)].R4 = {}
  <2>1. Utxo(e)[BoxId(b, 1)] = Box(b, 1) /\ Utxo(e)[BoxId(b, 2)] = Box(b, 2)
    BY <1>4, <1>7, GrownUtxo DEF outs, b
  <2>2. Shaped(b.tx.outputs[1]) /\ Shaped(b.tx.outputs[2])
    BY <1>3, <1>4 DEF IsBlock, outs, b
  <2>3. Box(b, 1).tokens = b.tx.outputs[1].tokens
    BY <2>2, BoxKeeps
  <2>4. Box(b, 2).R4 = b.tx.outputs[2].R4
    BY <1>14, <2>2, BoxKeeps DEF outs, b
  <2>. QED
    BY <1>14, <2>1, <2>3, <2>4 DEF outs, b
<1>20. V0 \in Int
  BY PegInAssumption
<1>21. PaidSum({}) = 0
  BY SumEmpty DEF PaidSum
<1>22. Holding(e, BoxId(b, 1), BoxId(b, 2))
  <2>1. PaidSum(Utxo(e)[BoxId(b, 2)].R4) = 0
    BY <1>19, <1>21
  <2>2. IsFiniteSet(Utxo(e)[BoxId(b, 2)].R4) /\ Utxo(e)[BoxId(b, 2)].R4 \subseteq DOMAIN Burned
    BY <1>19, FS_EmptySet
  <2>3. Utxo(e)[BoxId(b, 1)].tokens[2].amount
          = V0 + AbsorbedSum(e) - PaidSum(Utxo(e)[BoxId(b, 2)].R4)
    BY <1>10, <1>19, <1>20, <2>1
  <2>. QED
    BY <1>16, <1>17, <1>18, <1>19, <1>20, <2>2, <2>3 DEF Holding
<1>23. ConsolidatedIsMintable(e)
  BY <1>9 DEF ConsolidatedIsMintable
<1>24. Sound(e)
  BY <1>10, <1>11, <1>12, <1>13, <1>22 DEF Sound
<1>. QED
  BY <1>23, <1>24 DEF Good, e

\* Every block but the first holds a transaction that the chain below it allows.
Lawful(c) ==
  /\ IsChain(c) /\ Len(c) >= 1 /\ c[1] = GenesisBlock
  /\ \A k \in 2 .. Len(c) : c[k].tx \in Minable(SubSeq(c, 1, k - 1))

LEMMA SamePrefix ==
  ASSUME NEW c, IsSeq(c), NEW e, IsSeq(e), NEW n \in Nat, n <= Len(c), n <= Len(e),
         \A i \in 1 .. n : c[i] = e[i]
  PROVE  SubSeq(c, 1, n) = SubSeq(e, 1, n)
<1>1. /\ IsSeq(SubSeq(c, 1, n)) /\ Len(SubSeq(c, 1, n)) = n
      /\ \A i \in 1 .. n : SubSeq(c, 1, n)[i] = c[i]
  BY SeqCut
<1>2. /\ IsSeq(SubSeq(e, 1, n)) /\ Len(SubSeq(e, 1, n)) = n
      /\ \A i \in 1 .. n : SubSeq(e, 1, n)[i] = e[i]
  BY SeqCut
<1>. QED
  BY <1>1, <1>2, SeqSame

LEMMA PrefixGrows ==
  ASSUME NEW c, IsChain(c), NEW n \in Nat, n < Len(c)
  PROVE  /\ SubSeq(c, 1, n + 1) = Append(SubSeq(c, 1, n), c[n + 1])
         /\ Len(SubSeq(c, 1, n)) = n
<1>. DEFINE p == SubSeq(c, 1, n)
            q == SubSeq(c, 1, n + 1)
            r == Append(p, c[n + 1])
<1>1. IsSeq(c) /\ Len(c) \in Nat
  BY SeqParts DEF IsChain
<1>2. IsSeq(p) /\ Len(p) = n /\ \A i \in 1 .. n : p[i] = c[i]
  BY <1>1, SeqCut
<1>3. IsSeq(q) /\ Len(q) = n + 1 /\ \A i \in 1 .. n + 1 : q[i] = c[i]
  <2>1. n + 1 \in Int /\ n + 1 <= Len(c) /\ n + 1 >= 0
    BY <1>1
  <2>. HIDE DEF q
  <2>2. /\ IsSeq(SubSeq(c, 1, n + 1)) /\ Len(SubSeq(c, 1, n + 1)) = n + 1
        /\ \A i \in 1 .. n + 1 : SubSeq(c, 1, n + 1)[i] = c[i]
    BY <1>1, <2>1, SeqCut
  <2>. QED
    BY <2>2 DEF q
<1>. HIDE DEF p, q
<1>4. IsSeq(r) /\ Len(r) = n + 1 /\ r[n + 1] = c[n + 1] /\ \A i \in 1 .. n : r[i] = p[i]
  <2>1. /\ IsSeq(r) /\ Len(r) = Len(p) + 1 /\ r[Len(p) + 1] = c[n + 1]
        /\ \A i \in 1 .. Len(p) : r[i] = p[i]
    BY <1>2, SeqGrown
  <2>. QED
    BY <1>2, <2>1
<1>. HIDE DEF r
<1>5. \A i \in 1 .. n + 1 : q[i] = r[i]
  BY <1>2, <1>3, <1>4
<1>6. q = r
  BY <1>3, <1>4, <1>5, SeqSame
<1>. QED
  BY <1>2, <1>6 DEF p, q, r

\* What a lawful chain holds is good.
LEMMA LawfulIsGood ==
  ASSUME NEW c, Lawful(c)
  PROVE  Good(c)
<1>1. /\ IsChain(c) /\ IsSeq(c) /\ Len(c) \in Nat /\ Len(c) >= 1 /\ c[1] = GenesisBlock
      /\ \A k \in 2 .. Len(c) : c[k].tx \in Minable(SubSeq(c, 1, k - 1))
      /\ \A k \in 1 .. Len(c) : IsBlock(c[k], k)
  BY SeqParts DEF Lawful, IsChain
<1>. DEFINE n == Len(c) - 1
            G == {i \in 0 .. n : Good(SubSeq(c, 1, i + 1))}
<1>2. n \in Nat
  BY <1>1
<1>3. 0 \in G
  <2>1. SubSeq(c, 1, 1) = <<GenesisBlock>>
    <3>1. /\ IsSeq(SubSeq(c, 1, 1)) /\ Len(SubSeq(c, 1, 1)) = 1
          /\ \A i \in 1 .. 1 : SubSeq(c, 1, 1)[i] = c[i]
      BY <1>1, SeqCut
    <3>2. IsSeq(<<GenesisBlock>>) /\ Len(<<GenesisBlock>>) = 1
          /\ <<GenesisBlock>>[1] = GenesisBlock
      BY OneListed
    <3>3. \A i \in 1 .. Len(SubSeq(c, 1, 1)) : SubSeq(c, 1, 1)[i] = <<GenesisBlock>>[i]
      <4>1. SubSeq(c, 1, 1)[1] = <<GenesisBlock>>[1]
        BY <1>1, <3>1, <3>2
      <4>2. \A i \in 1 .. Len(SubSeq(c, 1, 1)) : i = 1
        BY <3>1
      <4>. QED
        BY <4>1, <4>2
    <3>. QED
      BY <3>1, <3>2, <3>3, SeqSame
  <2>2. Good(SubSeq(c, 1, 0 + 1))
    <3>1. 0 + 1 = 1
      OBVIOUS
    <3>2. Good(SubSeq(c, 1, 1))
      BY <2>1, GenesisIsGood, Zenon
    <3>. QED
      BY <3>1, <3>2, Zenon
  <2>. QED
    BY <1>2, <2>2
<1>4. ASSUME NEW i \in 0 .. n - 1, i \in G PROVE i + 1 \in G
  <2>. DEFINE k == i + 1
              p == SubSeq(c, 1, k)
              b == c[k + 1]
              e == SubSeq(c, 1, k + 1)
  <2>1. k \in Nat /\ k < Len(c) /\ k + 1 \in 2 .. Len(c) /\ k + 1 - 1 = k /\ k + 1 \in 1 .. Len(c)
    BY <1>1
  <2>2. Good(p)
    BY <1>4
  <2>3. e = Append(p, b) /\ Len(p) = k
    BY <1>1, <2>1, PrefixGrows
  <2>4. b.tx \in Minable(p) /\ IsBlock(b, k + 1)
    <3>. HIDE DEF k
    <3>1. c[k + 1].tx \in Minable(SubSeq(c, 1, k + 1 - 1)) /\ IsBlock(c[k + 1], k + 1)
      BY <1>1, <2>1
    <3>2. k + 1 - 1 = k
      BY <2>1
    <3>. QED
      BY <3>1, <3>2
  <2>. HIDE DEF p, b, e
  <2>5. Sound(p) /\ IsBlock(b, Len(p) + 1)
    BY <2>2, <2>3, <2>4 DEF Good
  <2>6. Sound(e) /\ Grown(p, b, e) /\ TakesUsable(p, b)
    BY <2>3, <2>4, <2>5, SoundStep
  <2>7. ASSUME "garbage33" \notin Dests PROVE ConsolidatedIsMintable(e)
    <3>1. ConsolidatedIsMintable(p)
      BY <2>2, <2>7 DEF Good
    <3>. QED
      BY <2>6, <2>7, <3>1, MintableGrown
  <2>8. Good(e)
    BY <2>6, <2>7 DEF Good
  <2>9. i + 1 \in 0 .. n /\ i + 1 + 1 = k + 1
    BY <1>2
  <2>. QED
    BY <2>8, <2>9 DEF e
<1>5. n \in 0 .. n /\ n + 1 = Len(c)
  BY <1>1, <1>2
<1>. HIDE DEF n
<1>6. n \in G
  <2>. HIDE DEF G
  <2>1. \A i \in 0 .. n : i \in G
    BY <1>2, <1>3, <1>4, UpTo
  <2>. QED
    BY <1>5, <2>1
<1>7. SubSeq(c, 1, Len(c)) = c
  <2>1. /\ IsSeq(SubSeq(c, 1, Len(c))) /\ Len(SubSeq(c, 1, Len(c))) = Len(c)
        /\ \A i \in 1 .. Len(c) : SubSeq(c, 1, Len(c))[i] = c[i]
    BY <1>1, SeqCut
  <2>. QED
    BY <1>1, <2>1, SeqSame
<1>. QED
  BY <1>5, <1>6, <1>7

LEMMA LawfulGrows ==
  ASSUME NEW c, Lawful(c), NEW e, IsChain(e), NEW n \in 1 .. Len(c), n <= Len(e),
         \A i \in 1 .. n : e[i] = c[i],
         \A k \in 2 .. Len(e) : k > n => e[k].tx \in Minable(SubSeq(e, 1, k - 1))
  PROVE  Lawful(e)
<1>1. /\ IsSeq(c) /\ IsSeq(e) /\ Len(c) \in Nat /\ Len(e) \in Nat /\ c[1] = GenesisBlock
      /\ \A k \in 2 .. Len(c) : c[k].tx \in Minable(SubSeq(c, 1, k - 1))
  BY SeqParts DEF Lawful, IsChain
<1>2. ASSUME NEW k \in 2 .. Len(e), k <= n PROVE e[k].tx \in Minable(SubSeq(e, 1, k - 1))
  <2>1. k - 1 \in Nat /\ k - 1 <= Len(c) /\ k - 1 <= Len(e) /\ k \in 2 .. Len(c) /\ k \in 1 .. n
    BY <1>1, <1>2
  <2>2. \A i \in 1 .. k - 1 : c[i] = e[i]
    BY <1>1, <1>2
  <2>3. SubSeq(c, 1, k - 1) = SubSeq(e, 1, k - 1)
    BY <1>1, <2>1, <2>2, SamePrefix
  <2>4. c[k].tx \in Minable(SubSeq(c, 1, k - 1)) /\ e[k] = c[k]
    BY <1>1, <2>1
  <2>. QED
    BY <2>3, <2>4, Zenon
<1>3. e[1] = GenesisBlock /\ Len(e) >= 1
  BY <1>1
<1>4. \A k \in 2 .. Len(e) : e[k].tx \in Minable(SubSeq(e, 1, k - 1))
  BY <1>1, <1>2
<1>. QED
  BY <1>3, <1>4 DEF Lawful

LEMMA LawfulMine ==
  ASSUME Chains, Lawful(ergo), MineErgo
  PROVE  Lawful(ergo')
<1>1. PICK tx \in Minable(ergo) :
        ergo' = Append(ergo, [id |-> <<Len(ergo) + 1, Fork>>, tx |-> tx])
  BY MineIs
<1>2. /\ IsSeq(ergo) /\ Len(ergo) \in Nat /\ Len(ergo) >= 1
  BY SeqParts DEF Lawful, IsChain
<1>3. IsChain(ergo') /\ IsSeq(ergo')
  BY ChainsMine DEF Chains, IsChain
<1>. DEFINE b == [id |-> <<Len(ergo) + 1, Fork>>, tx |-> tx]
            n == Len(ergo)
            e == ergo'
<1>4. b.tx = tx
  OBVIOUS
<1>. HIDE DEF b
<1>5. /\ Len(e) = n + 1 /\ e[n + 1] = b /\ \A i \in 1 .. n : e[i] = ergo[i]
  <2>1. ergo' = Append(ergo, b)
    BY <1>1 DEF b
  <2>2. /\ Len(Append(ergo, b)) = Len(ergo) + 1 /\ Append(ergo, b)[Len(ergo) + 1] = b
        /\ \A i \in 1 .. Len(ergo) : Append(ergo, b)[i] = ergo[i]
    BY <1>2, SeqGrown
  <2>. QED
    BY <2>1, <2>2
<1>6. SubSeq(e, 1, n) = ergo
  <2>1. SubSeq(ergo, 1, n) = SubSeq(e, 1, n)
    BY <1>2, <1>3, <1>5, SamePrefix
  <2>2. SubSeq(ergo, 1, n) = ergo
    <3>1. /\ IsSeq(SubSeq(ergo, 1, n)) /\ Len(SubSeq(ergo, 1, n)) = n
          /\ \A i \in 1 .. n : SubSeq(ergo, 1, n)[i] = ergo[i]
      BY <1>2, SeqCut
    <3>. QED
      BY <1>2, <3>1, SeqSame
  <2>. QED
    BY <2>1, <2>2
<1>7. ASSUME NEW k \in 2 .. Len(e), k > n PROVE e[k].tx \in Minable(SubSeq(e, 1, k - 1))
  <2>1. k = n + 1 /\ k - 1 = n
    BY <1>2, <1>5, <1>7
  <2>2. e[k].tx = tx
    BY <1>4, <1>5, <2>1
  <2>3. SubSeq(e, 1, k - 1) = ergo
    BY <1>6, <2>1, Zenon
  <2>. QED
    BY <2>2, <2>3, Zenon
<1>8. n \in 1 .. Len(ergo) /\ n <= Len(e)
  BY <1>2, <1>5
<1>9. \A i \in 1 .. n : e[i] = ergo[i]
  BY <1>5
<1>10. \A k \in 2 .. Len(e) : k > n => e[k].tx \in Minable(SubSeq(e, 1, k - 1))
  BY <1>7
<1>11. IsChain(e)
  BY <1>3
<1>. HIDE DEF n, e
<1>12. Lawful(e)
  BY <1>8, <1>9, <1>10, <1>11, LawfulGrows
<1>. QED
  BY <1>12 DEF e

LEMMA LawfulReorg ==
  ASSUME Chains, Lawful(ergo), ReorgErgo
  PROVE  Lawful(ergo')
<1>1. PICK d \in 1 .. MaxReorg : \E tx \in Minable(SubSeq(ergo, 1, Len(ergo) - d)) :
        /\ Len(ergo) > d /\ IsSeq(ergo') /\ Len(ergo') = Len(ergo) + 1
        /\ \A h \in 1 .. Len(ergo) - d : ergo'[h] = ergo[h]
        /\ \A h \in Len(ergo) - d + 1 .. Len(ergo) + 1 :
              ergo'[h] = NewBlock(h, IF h = Len(ergo) - d + 1 THEN tx ELSE NoTx)
  BY ReorgIs
<1>. DEFINE n == Len(ergo) - d
            e == ergo'
<1>2. PICK tx \in Minable(SubSeq(ergo, 1, n)) :
        /\ Len(ergo) > d /\ IsSeq(e) /\ Len(e) = Len(ergo) + 1
        /\ \A h \in 1 .. n : e[h] = ergo[h]
        /\ \A h \in n + 1 .. Len(ergo) + 1 :
              e[h] = NewBlock(h, IF h = n + 1 THEN tx ELSE NoTx)
  BY <1>1
<1>3. IsSeq(ergo) /\ Len(ergo) \in Nat /\ d \in Nat \ {0}
  BY SeqParts, ChainsTypes DEF Lawful, IsChain
<1>4. n \in 1 .. Len(ergo) /\ n \in Nat /\ n <= Len(e)
  BY <1>2, <1>3
<1>5. IsChain(e)
  BY ChainsReorg DEF Chains
<1>6. \A h : \A t : NewBlock(h, t).tx = t
  BY DEF NewBlock
<1>. HIDE DEF n, e
<1>7. SubSeq(ergo, 1, n) = SubSeq(e, 1, n)
  <2>1. \A i \in 1 .. n : ergo[i] = e[i]
    BY <1>2
  <2>2. n <= Len(ergo)
    BY <1>3, <1>4
  <2>. QED
    BY <1>2, <1>3, <1>4, <2>1, <2>2, SamePrefix
<1>8. ASSUME NEW k \in 2 .. Len(e), k > n PROVE e[k].tx \in Minable(SubSeq(e, 1, k - 1))
  <2>1. k \in n + 1 .. Len(ergo) + 1
    BY <1>2, <1>3, <1>4, <1>8
  <2>2. CASE k = n + 1
    <3>1. e[k].tx = tx
      BY <1>2, <1>6, <2>1, <2>2
    <3>2. k - 1 = n
      BY <1>4, <2>2
    <3>3. SubSeq(e, 1, k - 1) = SubSeq(ergo, 1, n)
      BY <1>7, <3>2, Zenon
    <3>. QED
      BY <3>1, <3>3, Zenon
  <2>3. CASE k # n + 1
    <3>1. e[k].tx = NoTx
      BY <1>2, <1>6, <2>1, <2>3
    <3>. QED
      BY <3>1, NoTxMinable
  <2>. QED
    BY <2>2, <2>3
<1>9. \A k \in 2 .. Len(e) : k > n => e[k].tx \in Minable(SubSeq(e, 1, k - 1))
  BY <1>8
<1>10. \A i \in 1 .. n : e[i] = ergo[i]
  BY <1>2
<1>11. Lawful(e)
  BY <1>4, <1>5, <1>9, <1>10, LawfulGrows
<1>. QED
  BY <1>11 DEF e

LEMMA LawfulAlways == Spec => [](Chains /\ Lawful(ergo))
<1>1. Init => Chains /\ Lawful(ergo)
  <2>1. ASSUME Init PROVE Lawful(ergo)
    <3>1. ergo = <<GenesisBlock>>
      BY <2>1 DEF Init
    <3>2. Len(<<GenesisBlock>>) = 1 /\ <<GenesisBlock>>[1] = GenesisBlock
      OBVIOUS
    <3>3. \A k \in 2 .. 1 : FALSE
      OBVIOUS
    <3>. QED
      BY <3>1, <3>2, <3>3, GenesisIsChain DEF Lawful
  <2>. QED
    BY <2>1, ChainsInit
<1>2. Chains /\ Lawful(ergo) /\ [Next]_vars => (Chains /\ Lawful(ergo))'
  <2>. SUFFICES ASSUME Chains, Lawful(ergo), [Next]_vars PROVE Chains' /\ Lawful(ergo')
    OBVIOUS
  <2>1. Chains'
    BY ChainsNext
  <2>2. CASE ergo' = ergo
    BY <2>1, <2>2
  <2>3. MintStep \/ Follow \/ UNCHANGED vars => ergo' = ergo
    BY MintStepKeeps DEF Follow, vars, ergoVars
  <2>4. Next => MineErgo \/ ReorgErgo \/ Follow \/ MintStep
    BY DEF Next, MintStep
  <2>. QED
    BY <2>1, <2>2, <2>3, <2>4, LawfulMine, LawfulReorg
<1>. QED
  BY <1>1, <1>2, PTL DEF Spec

--------------------------------------------------------------------------------
(* The theorems about the vault *)

LEMMA HoldingIsLedger ==
  ASSUME NEW c, NEW v, NEW d, Holding(c, v, d)
  PROVE  VaultLedger(c)
<1>. DEFINE u == Utxo(c)
            A == AbsorbedIds(c)
            R == u[d].R4
            f == [id \in A |-> AmountOf(c, id)]
            g == [b \in R |-> Burned[b] - VaultFee(Burned[b])]
<1>1. Only(u, "PegVault") = v /\ Only(u, "DoubleRedeem") = d
  BY OnlyOne DEF Holding
<1>2. DOMAIN f = A /\ DOMAIN g = R
  OBVIOUS
<1>3. g = [b \in R |-> Owed(b)]
  BY DEF Owed
<1>4. AbsorbedSum(c) = SumFunctionOnSet(f, A) /\ PaidSum(R) = SumFunctionOnSet(g, R)
  BY <1>3, Zenon DEF AbsorbedSum, PaidSum
<1>5. SumFunction(f) = AbsorbedSum(c) /\ SumFunction(g) = PaidSum(R)
  BY <1>2, <1>4, Zenon DEF SumFunction
<1>6. u[v].tokens[2].amount = V0 + AbsorbedSum(c) - PaidSum(R)
  BY DEF Holding
<1>7. u[v].tokens[2].amount = V0 + SumFunction(f) - SumFunction(g)
  BY <1>5, <1>6, Zenon
<1>. QED
  BY <1>1, <1>7, Zenon DEF VaultLedger

\* The vault of the Ergo chain holds what it started with and what it absorbed, less one
\* payout for each redeemed burn, whatever was locked, merged, refunded, posted and paid,
\* on whatever branch (PegVault.es, DoubleRedeem.es).
THEOREM VaultLedgerCorrect == Spec => []VaultLedger(ergo)
<1>1. ASSUME Lawful(ergo) PROVE VaultLedger(ergo)
  <2>1. PICK v, d : Holding(ergo, v, d)
    BY <1>1, LawfulIsGood DEF Good, Sound
  <2>. QED
    BY <2>1, HoldingIsLedger
<1>. QED
  BY <1>1, LawfulAlways, PTL

\* With it, every receipt the vault absorbed can be minted, provided no receipt names 33
\* bytes that are no point: DepositReceipt.es looks at the length alone.
THEOREM VaultIsAccountedCorrect ==
  ASSUME "garbage33" \notin Dests
  PROVE  Spec => []VaultIsAccounted
<1>1. ASSUME Lawful(ergo) PROVE VaultIsAccounted
  <2>1. Good(ergo)
    BY <1>1, LawfulIsGood
  <2>2. PICK v, d : Holding(ergo, v, d)
    BY <2>1 DEF Good, Sound
  <2>3. VaultLedger(ergo)
    BY <2>2, HoldingIsLedger
  <2>4. ConsolidatedIsMintable(ergo)
    BY <2>1 DEF Good
  <2>. QED
    BY <2>3, <2>4 DEF VaultIsAccounted
<1>. QED
  BY <1>1, LawfulAlways, PTL
================================================================================
