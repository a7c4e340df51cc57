--------------------------- MODULE AnchorWatchProofs ---------------------------
(***************************************************************************)
(* Proofs about AnchorWatch for every Ergo header tree, every page size,   *)
(* every window and every reorg bound.                                     *)
(***************************************************************************)
EXTENDS AnchorWatch, MmForkChoiceProofs

--------------------------------------------------------------------------------
(* The Ergo header tree *)

LEMMA HeightType ==
  ASSUME NEW e \in Header
  PROVE  Height[e] \in Nat /\ START \in Nat /\ Height[e] \in ErgoHeight
BY ErgoAssumption, ParamAssumption

\* A header stands one above its parent, or at the root height.
LEMMA ErgoStep ==
  ASSUME NEW e \in Header
  PROVE  \/ /\ ErgoParent[e] = NoHeader
            /\ Height[e] = START
            /\ ErgoAnc[e] = {e}
         \/ /\ ErgoParent[e] \in Header /\ ErgoParent[e] # NoHeader
            /\ Height[e] = Height[ErgoParent[e]] + 1
            /\ ErgoAnc[e] = {e} \cup ErgoAnc[ErgoParent[e]]
<1>1. CASE ErgoParent[e] = NoHeader
  BY <1>1, ErgoAssumption
<1>2. CASE ErgoParent[e] # NoHeader
  BY <1>2, ErgoAssumption
<1>. QED
  BY <1>1, <1>2

\* A property of headers that passes from parent to child holds of all headers:
\* a lowest header without it would have a parent without it.
LEMMA Lowest ==
  ASSUME NEW T \in SUBSET Header, T # {}
  PROVE  \E e \in T : ErgoParent[e] = NoHeader \/ ErgoParent[e] \notin T
<1>. DEFINE H == {Height[e] : e \in T}
<1>1. H \in SUBSET Nat /\ H # {}
  BY HeightType
<1>2. PICK h \in H : \A j \in H : h <= j
  BY <1>1, LeastNat
<1>3. PICK e \in T : Height[e] = h
  OBVIOUS
<1>4. ASSUME ErgoParent[e] # NoHeader, ErgoParent[e] \in T PROVE FALSE
  <2>1. Height[e] = Height[ErgoParent[e]] + 1 /\ Height[ErgoParent[e]] \in Nat
    BY <1>3, <1>4, ErgoStep, HeightType
  <2>2. h <= Height[ErgoParent[e]]
    BY <1>2, <1>4
  <2>. QED
    BY <1>3, <2>1, <2>2
<1>. QED
  BY <1>4

\* The headers below a header are lower, down to the root height.
LEMMA ErgoHeights ==
  ASSUME NEW e \in Header
  PROVE  /\ e \in ErgoAnc[e] /\ ErgoAnc[e] \subseteq Header
         /\ Height[e] >= START
         /\ \A d \in ErgoAnc[e] : Height[d] < Height[e] \/ d = e
<1>. DEFINE T == {f \in Header : ~ \A d \in ErgoAnc[f] : Height[d] < Height[f] \/ d = f}
            U == {f \in Header : ~ (Height[f] >= START)}
<1>1. T = {}
  <2>. SUFFICES ASSUME T # {} PROVE FALSE
    OBVIOUS
  <2>1. PICK f \in T : ErgoParent[f] = NoHeader \/ ErgoParent[f] \notin T
    BY Lowest
  <2>2. CASE ErgoParent[f] = NoHeader
    BY <2>2, ErgoStep
  <2>3. CASE ErgoParent[f] # NoHeader
    <3>. DEFINE p == ErgoParent[f]
    <3>1. /\ p \in Header /\ Height[f] = Height[p] + 1 /\ ErgoAnc[f] = {f} \cup ErgoAnc[p]
          /\ p \notin T
      BY <2>1, <2>3, ErgoStep
    <3>2. ASSUME NEW d \in ErgoAnc[p] PROVE Height[d] < Height[f]
      <4>1. Height[d] < Height[p] \/ d = p
        BY <3>1
      <4>2. Height[d] \in Nat /\ Height[p] \in Nat
        BY <3>1, HeightType, ErgoAssumption
      <4>. QED
        BY <3>1, <4>1, <4>2
    <3>. QED
      BY <3>1, <3>2
  <2>. QED
    BY <2>2, <2>3
<1>2. U = {}
  <2>. SUFFICES ASSUME U # {} PROVE FALSE
    OBVIOUS
  <2>1. PICK f \in U : ErgoParent[f] = NoHeader \/ ErgoParent[f] \notin U
    BY Lowest
  <2>2. CASE ErgoParent[f] = NoHeader
    BY <2>2, ErgoStep, HeightType
  <2>3. CASE ErgoParent[f] # NoHeader
    <3>1. /\ ErgoParent[f] \in Header /\ Height[f] = Height[ErgoParent[f]] + 1
          /\ Height[ErgoParent[f]] >= START
      BY <2>1, <2>3, ErgoStep
    <3>. QED
      BY <3>1, HeightType
  <2>. QED
    BY <2>2, <2>3
<1>. QED
  BY <1>1, <1>2, ErgoAssumption

\* The headers below a header below e are below e.
LEMMA ErgoTransitive ==
  ASSUME NEW e \in Header, NEW d \in ErgoAnc[e]
  PROVE  ErgoAnc[d] \subseteq ErgoAnc[e]
<1>. DEFINE T == {f \in Header : ~ \A c \in ErgoAnc[f] : ErgoAnc[c] \subseteq ErgoAnc[f]}
<1>. SUFFICES ASSUME T # {} PROVE FALSE
  OBVIOUS
<1>1. PICK f \in T : ErgoParent[f] = NoHeader \/ ErgoParent[f] \notin T
  BY Lowest
<1>2. CASE ErgoParent[f] = NoHeader
  BY <1>2, ErgoStep
<1>3. CASE ErgoParent[f] # NoHeader
  <2>1. /\ ErgoParent[f] \in Header /\ ErgoAnc[f] = {f} \cup ErgoAnc[ErgoParent[f]]
        /\ ErgoParent[f] \notin T
    BY <1>1, <1>3, ErgoStep
  <2>. QED
    BY <2>1
<1>. QED
  BY <1>2, <1>3

\* Of two headers below e the lower one is below the other.
LEMMA ErgoChain ==
  ASSUME NEW e \in Header, NEW c \in ErgoAnc[e], NEW d \in ErgoAnc[e],
         Height[c] <= Height[d]
  PROVE  c \in ErgoAnc[d]
<1>. DEFINE Good(f) == \A x \in ErgoAnc[f], y \in ErgoAnc[f] :
                         Height[x] <= Height[y] => x \in ErgoAnc[y]
            T == {f \in Header : ~ Good(f)}
<1>. SUFFICES ASSUME T # {} PROVE FALSE
  OBVIOUS
<1>1. PICK f \in T : ErgoParent[f] = NoHeader \/ ErgoParent[f] \notin T
  BY Lowest
<1>2. CASE ErgoParent[f] = NoHeader
  BY <1>2, ErgoStep
<1>3. CASE ErgoParent[f] # NoHeader
  <2>. DEFINE p == ErgoParent[f]
  <2>1. /\ p \in Header /\ ErgoAnc[f] = {f} \cup ErgoAnc[p] /\ Height[f] = Height[p] + 1
        /\ Good(p)
    BY <1>1, <1>3, ErgoStep
  <2>2. ASSUME NEW x \in ErgoAnc[f], NEW y \in ErgoAnc[f], Height[x] <= Height[y]
        PROVE  x \in ErgoAnc[y]
    <3>1. CASE y = f
      BY <3>1
    <3>2. CASE y # f
      <4>1. y \in ErgoAnc[p]
        BY <2>1, <3>2
      <4>2. Height[y] < Height[f] /\ Height[x] \in Nat /\ Height[y] \in Nat /\ Height[f] \in Nat
        BY <3>2, ErgoHeights, HeightType
      <4>3. x # f
        BY <2>2, <4>2
      <4>. QED
        BY <2>1, <2>2, <4>1, <4>3
    <3>. QED
      BY <3>1, <3>2
  <2>. QED
    BY <2>2
<1>. QED
  BY <1>2, <1>3

\* Below a header there is one at every height down to the root height.
LEMMA ErgoAt ==
  ASSUME NEW e \in Header, NEW h \in Nat, START <= h, h <= Height[e]
  PROVE  \E d \in ErgoAnc[e] : Height[d] = h
<1>. DEFINE T == {f \in Header : ~ (h <= Height[f] => \E d \in ErgoAnc[f] : Height[d] = h)}
<1>. SUFFICES ASSUME T # {} PROVE FALSE
  OBVIOUS
<1>1. PICK f \in T : ErgoParent[f] = NoHeader \/ ErgoParent[f] \notin T
  BY Lowest
<1>2. Height[f] \in Nat /\ START \in Nat /\ f \in ErgoAnc[f] /\ h # Height[f]
  BY HeightType, ErgoHeights
<1>3. CASE ErgoParent[f] = NoHeader
  BY <1>2, <1>3, ErgoStep
<1>4. CASE ErgoParent[f] # NoHeader
  <2>1. /\ ErgoParent[f] \in Header /\ Height[f] = Height[ErgoParent[f]] + 1
        /\ ErgoAnc[f] = {f} \cup ErgoAnc[ErgoParent[f]] /\ ErgoParent[f] \notin T
    BY <1>1, <1>4, ErgoStep
  <2>2. Height[ErgoParent[f]] \in Nat
    BY <2>1, HeightType
  <2>. QED
    BY <1>2, <2>1, <2>2
<1>. QED
  BY <1>3, <1>4

\* Two headers of one chain at one height are the same.
LEMMA ErgoOnce ==
  ASSUME NEW e \in Header, NEW c \in ErgoAnc[e], NEW d \in ErgoAnc[e],
         Height[c] = Height[d]
  PROVE  c = d
<1>1. c \in Header /\ d \in Header
  BY ErgoHeights
<1>2. Height[c] \in Nat /\ Height[d] \in Nat
  BY <1>1, HeightType
<1>3. c \in ErgoAnc[d]
  BY <1>2, ErgoChain
<1>. QED
  BY <1>1, <1>2, <1>3, ErgoHeights

--------------------------------------------------------------------------------
(* Lists *)

Entries(s) == {s[i] : i \in DOMAIN s}

LEMMA EntriesType ==
  ASSUME NEW S, NEW s \in Seq(S)
  PROVE  /\ Entries(s) \subseteq S
         /\ (\A x \in Entries(s) : x \in S) => s \in Seq(S)
BY ElementOfSeq DEF Entries

LEMMA EntriesEmpty == Entries(<<>>) = {}
BY DEF Entries

LEMMA EntriesTail ==
  ASSUME NEW S, NEW s \in Seq(S), s # <<>>
  PROVE  /\ Head(s) \in S /\ Tail(s) \in Seq(S)
         /\ Entries(s) = {Head(s)} \cup Entries(Tail(s))
<1>1. /\ Head(s) \in S /\ Tail(s) \in Seq(S) /\ Len(Tail(s)) = Len(s) - 1
      /\ \A i \in 1 .. Len(Tail(s)) : Tail(s)[i] = s[i + 1]
      /\ Head(s) = s[1] /\ Len(s) \in Nat \ {0}
      /\ DOMAIN s = 1 .. Len(s) /\ DOMAIN Tail(s) = 1 .. Len(Tail(s))
  BY HeadTailProperties, LenProperties, EmptySeq
<1>2. ASSUME NEW i \in DOMAIN s PROVE s[i] \in {Head(s)} \cup Entries(Tail(s))
  <2>1. CASE i = 1
    BY <1>1, <2>1
  <2>2. CASE i # 1
    <3>1. i - 1 \in DOMAIN Tail(s) /\ Tail(s)[i - 1] = s[i]
      BY <1>1, <2>2
    <3>. QED
      BY <3>1 DEF Entries
  <2>. QED
    BY <2>1, <2>2
<1>3. ASSUME NEW i \in DOMAIN Tail(s) PROVE Tail(s)[i] \in Entries(s)
  <2>1. i + 1 \in DOMAIN s /\ Tail(s)[i] = s[i + 1]
    BY <1>1
  <2>. QED
    BY <2>1 DEF Entries
<1>4. Head(s) \in Entries(s)
  BY <1>1 DEF Entries
<1>. QED
  BY <1>1, <1>2, <1>3, <1>4 DEF Entries

LEMMA EntriesConcat ==
  ASSUME NEW S, NEW s \in Seq(S), NEW t \in Seq(S)
  PROVE  s \o t \in Seq(S) /\ Entries(s \o t) = Entries(s) \cup Entries(t)
<1>1. /\ s \o t \in Seq(S) /\ Len(s \o t) = Len(s) + Len(t)
      /\ \A i \in 1 .. Len(s) + Len(t) :
           (s \o t)[i] = IF i <= Len(s) THEN s[i] ELSE t[i - Len(s)]
      /\ Len(s) \in Nat /\ Len(t) \in Nat
      /\ DOMAIN s = 1 .. Len(s) /\ DOMAIN t = 1 .. Len(t)
      /\ DOMAIN (s \o t) = 1 .. Len(s) + Len(t)
  BY ConcatProperties, LenProperties
<1>2. ASSUME NEW i \in DOMAIN (s \o t) PROVE (s \o t)[i] \in Entries(s) \cup Entries(t)
  <2>1. CASE i <= Len(s)
    BY <1>1, <2>1 DEF Entries
  <2>2. CASE ~ (i <= Len(s))
    <3>1. i - Len(s) \in DOMAIN t /\ (s \o t)[i] = t[i - Len(s)]
      BY <1>1, <2>2
    <3>. QED
      BY <3>1 DEF Entries
  <2>. QED
    BY <2>1, <2>2
<1>3. ASSUME NEW i \in DOMAIN s PROVE s[i] \in Entries(s \o t)
  <2>1. i \in DOMAIN (s \o t) /\ (s \o t)[i] = s[i]
    BY <1>1
  <2>. QED
    BY <2>1 DEF Entries
<1>4. ASSUME NEW i \in DOMAIN t PROVE t[i] \in Entries(s \o t)
  <2>1. i + Len(s) \in DOMAIN (s \o t) /\ (s \o t)[i + Len(s)] = t[i]
    BY <1>1
  <2>. QED
    BY <2>1 DEF Entries
<1>. QED
  BY <1>1, <1>2, <1>3, <1>4 DEF Entries

LEMMA EntriesAppend ==
  ASSUME NEW S, NEW s \in Seq(S), NEW x \in S
  PROVE  Append(s, x) \in Seq(S) /\ Entries(Append(s, x)) = Entries(s) \cup {x}
<1>1. /\ Append(s, x) \in Seq(S) /\ Len(s) \in Nat /\ DOMAIN s = 1 .. Len(s)
      /\ DOMAIN Append(s, x) = 1 .. Len(s) + 1
      /\ Append(s, x)[Len(s) + 1] = x
      /\ \A i \in 1 .. Len(s) : Append(s, x)[i] = s[i]
  BY LenProperties
<1>. QED
  BY <1>1 DEF Entries

LEMMA EntriesRecent ==
  ASSUME NEW S, NEW s \in Seq(S)
  PROVE  /\ Recent(s) \in Seq(S)
         /\ Entries(Recent(s)) = {u \in Entries(s) : AboveWindow(u)}
<1>. DEFINE K == {i \in DOMAIN s : AboveWindow(s[i])}
<1>. HIDE DEF K
<1>1. /\ Picked(s, K) \in Seq(S)
      /\ \A x : (\E i \in DOMAIN Picked(s, K) : Picked(s, K)[i] = x)
                  <=> \E i \in DOMAIN s : i \in K /\ s[i] = x
  BY PickedHolds, SMTT(30)
<1>2. Recent(s) = Picked(s, K)
  BY DEF Recent, K
<1>3. \A x : x \in Entries(Picked(s, K)) <=> \E i \in DOMAIN Picked(s, K) : Picked(s, K)[i] = x
  BY DEF Entries
<1>4. \A x : x \in {u \in Entries(s) : AboveWindow(u)}
               <=> \E i \in DOMAIN s : i \in K /\ s[i] = x
  BY DEF Entries, K
<1>5. \A x : x \in Entries(Picked(s, K)) <=> x \in {u \in Entries(s) : AboveWindow(u)}
  BY <1>1, <1>3, <1>4
<1>. QED
  BY <1>1, <1>2, <1>5

--------------------------------------------------------------------------------
(* What the buffers, the pass and the pending calls hold *)

Entry(S) == [header : S, best : BOOLEAN]

\* Entries whose header carries a commitment.
Committed(S) == \A u \in S : Commits[u.header] # NoBlock

\* Every list holds followed headers, and what waits for its Aegis block or its
\* parent carries a commitment; a call is about a block and an Ergo height.
BufferInv ==
  /\ ergoTip \in Header \cup {NoHeader}
  /\ served \subseteq Block
  /\ followed \subseteq Header
  /\ followTip \in followed \cup {NoHeader}
  /\ followed # {} => followTip # NoHeader
  /\ unscanned \in Seq(Entry(followed))
  /\ unresolved \in Seq(Entry(followed)) /\ Committed(Entries(unresolved))
  /\ pass \in {"idle", "rescan", "resolve", "fetch", "apply"}
  /\ pass \in {"rescan", "resolve"} => todo \in Seq(Entry(followed))
  /\ pass = "resolve" => Committed(Entries(todo))
  /\ pass = "apply" => todo \in Seq(Header)
  /\ calls \in Seq(OpType)

\* The calls made for a header are about its commitment.
LEMMA FeedType ==
  ASSUME NEW e \in Header, Commits[e] # NoBlock
  PROVE  /\ SyncFeed(e) \in Seq(OpType)
         /\ \A u : u.header = e => WatchFeed(u) \in Seq(OpType)
<1>1. Commits[e] \in Block /\ Height[e] \in ErgoHeight
  BY ErgoAssumption
<1>2. FeedShare(e) \in OpType /\ FeedAnchor(e) \in OpType /\ FeedBody(e) \in OpType
  BY <1>1 DEF FeedShare, FeedAnchor, FeedBody, OpType
<1>. HIDE DEF OpType
<1>. QED
  BY <1>2 DEF SyncFeed, WatchFeed

\* Scanning an entry makes calls about it, keeps it, or drops it.
LEMMA ResolveType ==
  ASSUME BufferInv, NEW S \in SUBSET Header, unresolved \in Seq(Entry(S)),
         NEW u \in Entry(S), NEW tip, Commits[u.header] # NoBlock, ResolveAndFeed(u, tip)
  PROVE  /\ unresolved' \in Seq(Entry(S)) /\ Committed(Entries(unresolved'))
         /\ calls' \in Seq(OpType)
<1>1. u.header \in Header
  BY DEF Entry
<1>2. CASE Deferred(Commits[u.header])
  <2>1. unresolved' = Append(unresolved, u) /\ calls' = <<>>
    BY <1>2 DEF ResolveAndFeed
  <2>2. /\ unresolved' \in Seq(Entry(S))
        /\ Entries(unresolved') = Entries(unresolved) \cup {u}
    BY <2>1, EntriesAppend
  <2>3. calls' \in Seq(OpType)
    BY <2>1
  <2>. QED
    BY <2>2, <2>3 DEF BufferInv, Committed
<1>3. CASE ~ Deferred(Commits[u.header])
  <2>1. unresolved' = unresolved /\ (calls' = WatchFeed(u) \/ calls' = <<>>)
    BY <1>3 DEF ResolveAndFeed
  <2>2. WatchFeed(u) \in Seq(OpType) /\ <<>> \in Seq(OpType)
    BY <1>1, FeedType
  <2>. HIDE DEF OpType
  <2>. QED
    BY <2>1, <2>2 DEF BufferInv
<1>. QED
  BY <1>2, <1>3

LEMMA ScanType ==
  ASSUME BufferInv, NEW S \in SUBSET Header, unresolved \in Seq(Entry(S)),
         NEW u \in Entry(S), NEW tip, Scan(u, tip)
  PROVE  /\ unresolved' \in Seq(Entry(S)) /\ Committed(Entries(unresolved'))
         /\ calls' \in Seq(OpType)
<1>1. CASE Commits[u.header] = NoBlock
  BY <1>1 DEF Scan, BufferInv
<1>2. CASE Commits[u.header] # NoBlock
  BY <1>2, ResolveType DEF Scan
<1>. QED
  BY <1>1, <1>2

\* A page of the Ergo node's best chain, ascending from the follower's next height.
LEMMA BatchType ==
  ASSUME BufferInv
  PROVE  LET from == IF followTip = NoHeader THEN START ELSE TipHeight + 1
         IN /\ Batch \in Seq(Header)
            /\ from \in Nat
            /\ \A i \in DOMAIN Batch :
                 Batch[i] \in BestChain(ergoTip) /\ Height[Batch[i]] = from + i - 1
<1>. DEFINE from == IF followTip = NoHeader THEN START ELSE TipHeight + 1
            best == IF ergoTip = NoHeader THEN START - 1 ELSE Height[ergoTip]
            n == MinOf(from + PAGE - 1, best) - from + 1
            at(i) == CHOOSE e \in BestChain(ergoTip) : Height[e] = from + i - 1
<1>1. Batch = [i \in 1 .. n |-> at(i)]
  BY DEF Batch
<1>2. from \in Nat /\ from >= START /\ START \in Nat
  <2>1. followTip # NoHeader => TipHeight \in Nat /\ TipHeight >= START
    BY HeightType, ErgoHeights DEF BufferInv, TipHeight
  <2>. QED
    BY <2>1, ErgoAssumption
<1>3. best \in Int /\ n \in Int /\ n <= best - from + 1
  <2>1. best \in Int
    BY HeightType, ErgoAssumption DEF BufferInv
  <2>. HIDE DEF from, best
  <2>. QED
    BY <1>2, <2>1, ErgoAssumption DEF MinOf
<1>4. ASSUME NEW i \in 1 .. n
      PROVE  at(i) \in BestChain(ergoTip) /\ at(i) \in Header /\ Height[at(i)] = from + i - 1
  <2>1. from + i - 1 \in Nat /\ START <= from + i - 1 /\ from + i - 1 <= best
    <3>. HIDE DEF from, best, n
    <3>. QED
      BY <1>2, <1>3
  <2>2. ergoTip \in Header
    <3>1. CASE ergoTip = NoHeader
      <4>1. best = START - 1
        BY <3>1
      <4>. HIDE DEF from, best
      <4>. QED
        BY <1>2, <2>1, <4>1
    <3>. QED
      BY <3>1 DEF BufferInv
  <2>3. \E d \in ErgoAnc[ergoTip] : Height[d] = from + i - 1
    <3>1. best = Height[ergoTip]
      BY <2>2, ErgoAssumption
    <3>. HIDE DEF from, best
    <3>. QED
      BY <2>1, <2>2, <3>1, ErgoAt
  <2>4. \E d \in BestChain(ergoTip) : Height[d] = from + i - 1
    BY <2>2, <2>3, ErgoAssumption DEF BestChain
  <2>5. at(i) \in BestChain(ergoTip) /\ Height[at(i)] = from + i - 1
    BY <2>4
  <2>. QED
    BY <2>2, <2>5, ErgoHeights, ErgoAssumption DEF BestChain
<1>. HIDE DEF at, n, best
<1>5. Batch \in Seq(Header) /\ DOMAIN Batch = 1 .. n
  <2>. DEFINE m == IF n >= 0 THEN n ELSE 0
  <2>1. m \in Nat /\ 1 .. m = 1 .. n
    BY <1>3
  <2>. HIDE DEF m
  <2>2. Batch = [i \in 1 .. m |-> at(i)] /\ \A i \in 1 .. m : at(i) \in Header
    BY <1>1, <1>4, <2>1
  <2>3. [i \in 1 .. m |-> at(i)] \in Seq(Header)
    BY <2>1, <2>2, IsASeq
  <2>. QED
    BY <2>1, <2>2, <2>3
<1>. QED
  BY <1>1, <1>2, <1>4, <1>5

LEMMA BufferInit == WatchInit => BufferInv
BY EntriesEmpty DEF WatchInit, BufferInv, Committed

LEMMA BufferStep == BufferInv /\ [WatchNext]_watchVars => BufferInv'
<1>. SUFFICES ASSUME BufferInv, [WatchNext]_watchVars PROVE BufferInv'
  OBVIOUS
<1>. USE DEF BufferInv
<1>1. CASE UNCHANGED watchVars
  BY <1>1 DEF watchVars, ergoVars, followVars, bufferVars, passVars, Entry, Committed, Entries
<1>2. ASSUME NEW e \in Header, ErgoMoves(e) PROVE BufferInv'
  BY <1>2 DEF ErgoMoves, followVars, bufferVars, passVars, Entry, Committed, Entries
<1>3. ASSUME NEW e \in Header, SyncOne(e) PROVE BufferInv'
  <2>1. Commits[e] # NoBlock
    BY <1>3, ErgoAssumption DEF SyncOne
  <2>2. calls' \in Seq(OpType)
    BY <1>3, <2>1, FeedType DEF SyncOne
  <2>. QED
    BY <1>3, <2>2 DEF SyncOne, ergoVars, followVars, bufferVars, passVars, Entry, Committed, Entries
<1>4. ASSUME NEW b \in Block, Serve(b) PROVE BufferInv'
  BY <1>4 DEF Serve, followVars, bufferVars, passVars, Entry, Committed, Entries
<1>5. ASSUME NEW b \in Block, ApproveSettled(b) PROVE BufferInv'
  BY <1>5 DEF ApproveSettled, ergoVars, followVars, bufferVars, passVars, Entry, Committed, Entries
<1>6. CASE Call
  <2>1. calls' \in Seq(OpType)
    BY <1>6, HeadTailProperties DEF Call
  <2>. QED
    BY <1>6, <2>1 DEF Call, ergoVars, followVars, bufferVars, passVars, Entry, Committed, Entries
<1>7. CASE ForkChoiceStep
  BY <1>7 DEF ForkChoiceStep, ergoVars, followVars, bufferVars, passVars, Entry, Committed, Entries
<1>8. CASE BeginDrive
  <2>1. CASE followTip = NoHeader
    BY <1>8, <2>1 DEF BeginDrive, ergoVars, followVars, bufferVars, Entry, Committed, Entries
  <2>2. CASE followTip # NoHeader
    <3>1. /\ pass' = "rescan" /\ todo' = Recent(unscanned) /\ unscanned' = <<>>
          /\ unresolved' = Recent(unresolved)
          /\ UNCHANGED <<ergoVars, followVars, calls>>
      BY <1>8, <2>2 DEF BeginDrive
    <3>2. /\ Recent(unscanned) \in Seq(Entry(followed))
          /\ Recent(unresolved) \in Seq(Entry(followed))
          /\ Entries(Recent(unresolved)) \subseteq Entries(unresolved)
      BY EntriesRecent
    <3>3. unscanned' \in Seq(Entry(followed)) /\ Committed(Entries(unresolved'))
      BY <3>1, <3>2 DEF Committed
    <3>. QED
      BY <3>1, <3>2, <3>3 DEF ergoVars, followVars
  <2>. QED
    BY <2>1, <2>2
<1>9. CASE Rescan
  <2>1. /\ todo # <<>> /\ todo \in Seq(Entry(followed)) /\ pass = "rescan"
        /\ Scan(Head(todo), followTip) /\ todo' = Tail(todo)
        /\ UNCHANGED <<ergoVars, followVars, unscanned, pass>>
    BY <1>9 DEF Rescan
  <2>2. Head(todo) \in Entry(followed) /\ Tail(todo) \in Seq(Entry(followed))
    BY <2>1, EntriesTail
  <2>3. /\ unresolved' \in Seq(Entry(followed)) /\ Committed(Entries(unresolved'))
        /\ calls' \in Seq(OpType)
    BY <2>1, <2>2, ScanType
  <2>. QED
    BY <2>1, <2>2, <2>3 DEF ergoVars, followVars
<1>10. CASE RescanFails
  <2>1. /\ todo \in Seq(Entry(followed)) /\ unscanned' = unscanned \o todo
        /\ pass' = "idle" /\ UNCHANGED <<ergoVars, followVars, unresolved, calls>>
    BY <1>10 DEF RescanFails
  <2>2. unscanned' \in Seq(Entry(followed))
    BY <2>1, EntriesConcat
  <2>. QED
    BY <2>1, <2>2 DEF ergoVars, followVars, Committed, Entries
<1>11. CASE RescanDone
  <2>1. /\ pass' = "resolve" /\ todo' = unresolved /\ unresolved' = <<>>
        /\ UNCHANGED <<ergoVars, followVars, unscanned, calls>>
    BY <1>11 DEF RescanDone
  <2>2. unresolved' \in Seq(Entry(followed)) /\ Committed(Entries(unresolved'))
    BY <2>1, EntriesEmpty DEF Committed
  <2>. QED
    BY <2>1, <2>2 DEF ergoVars, followVars
<1>12. CASE Resolve
  <2>1. /\ todo # <<>> /\ todo \in Seq(Entry(followed)) /\ pass = "resolve"
        /\ ResolveAndFeed(Head(todo), followTip) /\ todo' = Tail(todo)
        /\ UNCHANGED <<ergoVars, followVars, unscanned, pass>>
    BY <1>12 DEF Resolve
  <2>2. /\ Head(todo) \in Entry(followed) /\ Tail(todo) \in Seq(Entry(followed))
        /\ Entries(todo) = {Head(todo)} \cup Entries(Tail(todo))
    BY <2>1, EntriesTail
  <2>3. Commits[Head(todo).header] # NoBlock /\ Committed(Entries(Tail(todo)))
    BY <2>1, <2>2 DEF Committed
  <2>4. /\ unresolved' \in Seq(Entry(followed)) /\ Committed(Entries(unresolved'))
        /\ calls' \in Seq(OpType)
    BY <2>1, <2>2, <2>3, ResolveType
  <2>. QED
    BY <2>1, <2>2, <2>3, <2>4 DEF ergoVars, followVars
<1>13. CASE ResolveDone
  BY <1>13 DEF ResolveDone, ergoVars, followVars, bufferVars, Committed, Entries
<1>14. CASE Fetch
  <2>1. Batch \in Seq(Header)
    BY BatchType
  <2>. QED
    BY <1>14, <2>1 DEF Fetch, ergoVars, followVars, bufferVars, Committed, Entries
<1>15. CASE FetchFails
  BY <1>15 DEF FetchFails, ergoVars, followVars, bufferVars, Committed, Entries
<1>16. CASE Apply \/ ApplyUnscanned
  <2>. DEFINE e == Head(todo)
              u == Item(e, HeavierTip(e))
              S == followed \cup {e}
  <2>1. /\ todo # <<>> /\ pass = "apply" /\ Follow(e)
        /\ UNCHANGED <<ergoVars>>
    BY <1>16 DEF Apply, ApplyUnscanned
  <2>2. e \in Header /\ Tail(todo) \in Seq(Header)
    BY <2>1, EntriesTail
  <2>3. /\ followed' = S /\ followTip' \in followed' \cup {NoHeader}
        /\ S \in SUBSET Header
        /\ followTip' # NoHeader
    BY <2>1, <2>2, ErgoAssumption DEF Follow, NextTip, HeavierTip
  <2>4. u \in Entry(S)
    BY DEF Item, HeavierTip, Entry
  <2>5. /\ unresolved \in Seq(Entry(S)) /\ unscanned \in Seq(Entry(S))
    <3>1. Entry(followed) \subseteq Entry(S)
      BY DEF Entry
    <3>. HIDE DEF S
    <3>. QED
      BY <3>1, SeqMonotonic
  <2>. HIDE DEF S, u, e
  <2>6. CASE Apply
    <3>1. /\ Scan(u, NextTip(e)) /\ todo' = Tail(todo) /\ UNCHANGED <<unscanned, pass>>
      BY <2>6 DEF Apply, u, e
    <3>2. /\ unresolved' \in Seq(Entry(S)) /\ Committed(Entries(unresolved'))
          /\ calls' \in Seq(OpType)
      BY <2>3, <2>4, <2>5, <3>1, ScanType
    <3>. QED
      BY <2>1, <2>2, <2>3, <2>5, <3>1, <3>2 DEF ergoVars
  <2>7. CASE ApplyUnscanned
    <3>1. /\ unscanned' = Append(unscanned, u) /\ pass' = "idle"
          /\ UNCHANGED <<unresolved, calls>>
      BY <2>7 DEF ApplyUnscanned, u, e
    <3>2. unscanned' \in Seq(Entry(S))
      BY <2>4, <2>5, <3>1, EntriesAppend
    <3>. QED
      BY <2>1, <2>2, <2>3, <2>5, <3>1, <3>2 DEF ergoVars, Committed, Entries
  <2>. QED
    BY <1>16, <2>6, <2>7
<1>17. CASE ApplyFails
  BY <1>17 DEF ApplyFails, ergoVars, followVars, bufferVars, Committed, Entries
<1>18. CASE ApplyDone
  BY <1>18 DEF ApplyDone, ergoVars, followVars, bufferVars, Committed, Entries
<1>. QED
  BY <1>1, <1>2, <1>3, <1>4, <1>5, <1>6, <1>7, <1>8, <1>9, <1>10, <1>11, <1>12, <1>13,
     <1>14, <1>15, <1>16, <1>17, <1>18 DEF WatchNext, PassSteps, Failures

--------------------------------------------------------------------------------
(* The watch drives the fork choice *)

\* A step of the watch is a step of the fork choice or leaves it alone.
LEMMA WatchStep == BufferInv /\ [WatchNext]_watchVars => [Next]_vars
<1>. SUFFICES ASSUME BufferInv, WatchNext, ~ UNCHANGED vars PROVE Next
  BY DEF watchVars
<1>1. ASSUME NEW b \in Block, ApproveSettled(b) PROVE Next
  BY <1>1 DEF ApproveSettled, Next, Calls
<1>2. CASE Call
  <2>. DEFINE c == Head(calls)
  <2>1. c \in OpType
    BY <1>2, HeadTailProperties DEF Call, BufferInv
  <2>2. c.id \in Block /\ c.height \in ErgoHeight /\ "good" \in Bodies
    BY <2>1, ErgoAssumption DEF OpType
  <2>3. \/ IngestNewShare(c.id, c.height) \/ IngestKnownShare(c.id, c.height)
        \/ RecordAnchor(c.id, c.height)
        \/ IngestBody(c.id, "good") \/ IngestDeadBody(c.id, "good")
    BY <1>2 DEF Call, IngestOldShare, IngestOldBody
  <2>. HIDE DEF c
  <2>. QED
    BY <2>2, <2>3 DEF Next, Calls
<1>3. CASE ForkChoiceStep
  BY <1>3 DEF ForkChoiceStep, Next
<1>4. CASE PassSteps \/ Failures
  BY <1>4 DEF PassSteps, Failures, BeginDrive, Rescan, RescanDone, Resolve, ResolveDone,
     Fetch, Apply, ApplyFails, ApplyDone, RescanFails, FetchFails, ApplyUnscanned
<1>5. ASSUME NEW e \in Header, ErgoMoves(e) \/ SyncOne(e) PROVE FALSE
  BY <1>5 DEF ErgoMoves, SyncOne
<1>6. ASSUME NEW b \in Block, Serve(b) PROVE FALSE
  BY <1>6 DEF Serve
<1>. QED
  BY <1>1, <1>2, <1>3, <1>4, <1>5, <1>6 DEF WatchNext

\* Whatever the Ergo node, the archive and the seeds do, the fork choice the
\* watch drives runs as MmForkChoice says: every theorem about its calls in any
\* order holds under the anchor watch, the follower and the seed schedule.
THEOREM WatchDrivesForkChoice == WatchSpec => Spec
<1>1. WatchSpec => []BufferInv
  BY BufferInit, BufferStep, PTL DEF WatchSpec
<1>2. WatchInit => Init
  BY DEF WatchInit
<1>. QED
  BY <1>1, <1>2, WatchStep, PTL DEF WatchSpec, Spec

--------------------------------------------------------------------------------
(* Reorgs of bounded depth *)

\* The headers of e's chain from height h up: one per height.
Above(e, h) == {c \in ErgoAnc[e] : Height[c] >= h}

LEMMA AboveCard ==
  ASSUME NEW e \in Header, NEW h \in Nat, START <= h, h <= Height[e]
  PROVE  IsFiniteSet(Above(e, h)) /\ Cardinality(Above(e, h)) = Height[e] - h + 1
<1>. DEFINE Good(f) == /\ IsFiniteSet(Above(f, h))
                       /\ Cardinality(Above(f, h)) = Height[f] - h + 1
            T == {f \in Header : h <= Height[f] /\ ~ Good(f)}
<1>. SUFFICES ASSUME T # {} PROVE FALSE
  OBVIOUS
<1>1. PICK f \in T : ErgoParent[f] = NoHeader \/ ErgoParent[f] \notin T
  BY Lowest
<1>2. /\ f \in Header /\ Height[f] \in Nat /\ h <= Height[f] /\ START \in Nat
      /\ f \in ErgoAnc[f] /\ \A d \in ErgoAnc[f] : d \in Header /\ Height[d] \in Nat
      /\ ~ Good(f)
  BY HeightType, ErgoHeights
<1>3. CASE Height[f] = h
  <2>1. Above(f, h) = {f}
    <3>1. \A d \in ErgoAnc[f] : d # f => Height[d] < h
      BY <1>2, <1>3, ErgoHeights
    <3>. QED
      BY <1>2, <1>3, <3>1 DEF Above
  <2>2. IsFiniteSet({f}) /\ Cardinality({f}) = 1
    BY FS_Singleton
  <2>3. Height[f] - h + 1 = 1
    BY <1>2, <1>3
  <2>. QED
    BY <1>2, <2>1, <2>2, <2>3
<1>4. CASE Height[f] # h
  <2>. DEFINE p == ErgoParent[f]
  <2>1. /\ p \in Header /\ p # NoHeader /\ Height[f] = Height[p] + 1
        /\ ErgoAnc[f] = {f} \cup ErgoAnc[p]
    BY <1>2, <1>4, ErgoStep
  <2>2. Height[p] \in Nat /\ h <= Height[p]
    BY <1>2, <1>4, <2>1, HeightType
  <2>3. Good(p)
    BY <1>1, <2>1, <2>2
  <2>4. Above(f, h) = Above(p, h) \cup {f}
    BY <1>2, <2>1 DEF Above
  <2>5. f \notin Above(p, h)
    <3>1. \A d \in ErgoAnc[p] : Height[d] < Height[p] \/ d = p
      BY <2>1, ErgoHeights
    <3>. QED
      BY <1>2, <2>1, <2>2, <3>1 DEF Above
  <2>6. /\ IsFiniteSet(Above(f, h))
        /\ Cardinality(Above(f, h)) = Cardinality(Above(p, h)) + 1
    BY <2>3, <2>4, <2>5, FS_AddElement
  <2>. QED
    BY <1>2, <2>1, <2>2, <2>3, <2>6
<1>. QED
  BY <1>3, <1>4

\* A reorg that takes at most MaxReorg headers off a chain leaves those MaxReorg
\* or more below its tip.
LEMMA ReorgKeeps ==
  ASSUME NEW t \in Header, NEW e \in Header,
         Cardinality(ErgoAnc[t] \ ErgoAnc[e]) <= MaxReorg,
         NEW d \in ErgoAnc[t], Height[d] + MaxReorg <= Height[t]
  PROVE  d \in ErgoAnc[e]
<1>. SUFFICES ASSUME d \notin ErgoAnc[e] PROVE FALSE
  OBVIOUS
<1>1. /\ d \in Header /\ Height[d] \in Nat /\ Height[t] \in Nat /\ MaxReorg \in Nat
      /\ START \in Nat /\ START <= Height[d] /\ START <= Height[t]
  BY ErgoHeights, HeightType, ErgoAssumption
<1>2. Above(t, Height[d]) \subseteq ErgoAnc[t] \ ErgoAnc[e]
  <2>1. ASSUME NEW c \in Above(t, Height[d]), c \in ErgoAnc[e] PROVE FALSE
    <3>1. c \in ErgoAnc[t] /\ c \in Header /\ Height[c] \in Nat /\ Height[d] <= Height[c]
      BY <1>1, ErgoHeights, HeightType DEF Above
    <3>2. d \in ErgoAnc[c]
      BY <3>1, ErgoChain
    <3>. QED
      BY <2>1, <3>2, ErgoTransitive
  <2>. QED
    BY <2>1 DEF Above
<1>3. IsFiniteSet(ErgoAnc[t] \ ErgoAnc[e])
  <2>1. Above(t, START) = ErgoAnc[t]
    BY ErgoHeights DEF Above
  <2>2. IsFiniteSet(ErgoAnc[t])
    BY <1>1, <2>1, AboveCard
  <2>. QED
    BY <2>2, FS_Subset
<1>4. Cardinality(Above(t, Height[d])) = Height[t] - Height[d] + 1
  BY <1>1, AboveCard
<1>5. /\ Cardinality(Above(t, Height[d])) <= Cardinality(ErgoAnc[t] \ ErgoAnc[e])
      /\ Cardinality(ErgoAnc[t] \ ErgoAnc[e]) \in Nat
  BY <1>2, <1>3, FS_Subset, FS_CardinalityType
<1>. QED
  BY <1>1, <1>4, <1>5

--------------------------------------------------------------------------------
(* The follower, its anchors and the settled reference *)

\* The height the follower has reached.
Reached == IF followTip = NoHeader THEN START - 1 ELSE TipHeight

\* The Ergo node knows x, and keeps what lies MaxReorg headers below it.
Seen(x) ==
  /\ ergoTip # NoHeader
  /\ Height[x] <= Height[ergoTip]
  /\ \A e \in ErgoAnc[x] : Height[e] + MaxReorg <= Height[x] => e \in BestChain(ergoTip)

\* The follower holds one chain, fetched in the order of its heights, and an
\* anchor comes from a header of that chain.
FollowInv ==
  /\ followed = BestChain(followTip)
  /\ followTip # NoHeader => Seen(followTip)
  /\ pass = "apply" =>
       \A i \in DOMAIN todo : Height[todo[i]] = Reached + i /\ Seen(todo[i])
  /\ \A c \in Entries(calls) :
       c.op = "anchor" => \E e \in followed : Commits[e] = c.id /\ Height[e] = c.height
  /\ \A b \in DOMAIN anchors :
       \E e \in followed : Commits[e] = b /\ Height[e] = anchors[b]

\* What is approved has its inclusion deeper in the Ergo node's chain than a
\* reorg reaches.
SettledInv ==
  \A a \in approved :
    \E e \in BestChain(ergoTip) :
      /\ Commits[e] # NoBlock
      /\ a.id \in Anc(Commits[e])
      /\ Height[e] + MaxReorg <= Height[ergoTip]

\* The page that is fetched continues the followed chain with headers of the
\* Ergo node's chain.
LEMMA BatchSeen ==
  ASSUME BufferInv
  PROVE  \A i \in DOMAIN Batch : Height[Batch[i]] = Reached + i /\ Seen(Batch[i])
<1>. SUFFICES ASSUME NEW i \in DOMAIN Batch
              PROVE  Height[Batch[i]] = Reached + i /\ Seen(Batch[i])
  OBVIOUS
<1>. DEFINE from == IF followTip = NoHeader THEN START ELSE TipHeight + 1
            x == Batch[i]
<1>1. x \in BestChain(ergoTip) /\ Height[x] = from + i - 1 /\ Batch \in Seq(Header)
  BY BatchType
<1>2. i \in Nat
  <2>1. DOMAIN Batch = 1 .. Len(Batch) /\ Len(Batch) \in Nat
    BY <1>1, LenProperties
  <2>. QED
    BY <2>1
<1>3. from = Reached + 1 /\ Reached \in Int
  <2>1. followTip # NoHeader => TipHeight \in Nat
    BY HeightType DEF BufferInv, TipHeight
  <2>2. START \in Nat
    BY ErgoAssumption
  <2>. QED
    BY <2>1, <2>2 DEF Reached
<1>4. Height[x] = Reached + i
  <2>. HIDE DEF from, x
  <2>. QED
    BY <1>1, <1>2, <1>3
<1>5. ergoTip # NoHeader /\ ergoTip \in Header /\ x \in ErgoAnc[ergoTip] /\ x \in Header
  BY <1>1, ErgoHeights DEF BestChain, BufferInv
<1>6. Height[x] <= Height[ergoTip]
  BY <1>5, ErgoHeights, HeightType
<1>7. ErgoAnc[x] \subseteq BestChain(ergoTip)
  BY <1>5, ErgoTransitive DEF BestChain
<1>. QED
  BY <1>4, <1>5, <1>6, <1>7 DEF Seen

\* What the Ergo node has seen it has seen after a reorg too.
LEMMA SeenKept ==
  ASSUME BufferInv, NEW e \in Header, ErgoMoves(e), NEW x \in Header, Seen(x)
  PROVE  Seen(x)'
<1>1. /\ ergoTip \in Header /\ ergoTip' = e /\ e # NoHeader
      /\ Height[e] > Height[ergoTip]
      /\ Cardinality(ErgoAnc[ergoTip] \ ErgoAnc[e]) <= MaxReorg
  BY ErgoAssumption DEF ErgoMoves, Seen, BufferInv, BestChain
<1>2. Height[x] \in Nat /\ Height[e] \in Nat /\ Height[ergoTip] \in Nat /\ MaxReorg \in Nat
  BY <1>1, HeightType, ErgoAssumption
<1>3. Height[x] <= Height[ergoTip']
  BY <1>1, <1>2 DEF Seen
<1>4. ASSUME NEW d \in ErgoAnc[x], Height[d] + MaxReorg <= Height[x]
      PROVE  d \in ErgoAnc[e]
  <2>1. d \in ErgoAnc[ergoTip]
    BY <1>1, <1>4, ErgoAssumption DEF Seen, BestChain
  <2>2. Height[d] \in Nat
    BY ErgoHeights, HeightType
  <2>3. Height[d] + MaxReorg <= Height[ergoTip]
    BY <1>2, <1>4, <2>2 DEF Seen
  <2>. QED
    BY <1>1, <2>1, <2>3, ReorgKeeps
<1>. QED
  BY <1>1, <1>3, <1>4, ErgoAssumption DEF Seen, BestChain

\* A header of the next height that is accepted extends the tip.
LEMMA FollowExtends ==
  ASSUME BufferInv, FollowInv, NEW e \in Header, Height[e] = Reached + 1, Follow(e)
  PROVE  /\ followTip' = e /\ HeavierTip(e) /\ NextTip(e) = e
         /\ followed' = followed \cup {e}
         /\ followed' = BestChain(followTip')
         /\ \A d \in followed : Height[d] < Height[e]
<1>. USE DEF FollowInv, BufferInv
<1>1. Height[e] \in Nat /\ START \in Nat /\ e # NoHeader
  BY HeightType, ErgoAssumption
<1>2. HeavierTip(e)
  BY <1>1, HeightType DEF HeavierTip, Reached, TipHeight
<1>3. followed' = followed \cup {e} /\ followTip' = e /\ NextTip(e) = e
  BY <1>2 DEF Follow, NextTip
<1>4. CASE followTip = NoHeader
  <2>1. followed = {} /\ Height[e] = START
    BY <1>1, <1>4 DEF Reached, BestChain
  <2>2. ErgoAnc[e] = {e}
    <3>1. CASE ErgoParent[e] # NoHeader
      <4>1. /\ ErgoParent[e] \in Header /\ Height[e] = Height[ErgoParent[e]] + 1
            /\ Height[ErgoParent[e]] >= START /\ Height[ErgoParent[e]] \in Nat
        BY <3>1, ErgoStep, ErgoHeights, HeightType
      <4>. QED
        BY <1>1, <2>1, <4>1
    <3>. QED
      BY <3>1, ErgoStep
  <2>. QED
    BY <1>1, <1>2, <1>3, <2>1, <2>2 DEF BestChain
<1>5. CASE followTip # NoHeader
  <2>1. /\ followTip \in Header /\ followed = ErgoAnc[followTip] /\ followTip \in followed
        /\ Height[e] = Height[followTip] + 1 /\ Height[followTip] \in Nat
    BY <1>5, HeightType, ErgoHeights DEF BestChain, Reached, TipHeight
  <2>2. ErgoParent[e] \in followed
    BY <2>1 DEF Follow, Accepted
  <2>3. /\ ErgoParent[e] \in Header /\ ErgoParent[e] # NoHeader
        /\ Height[e] = Height[ErgoParent[e]] + 1
        /\ ErgoAnc[e] = {e} \cup ErgoAnc[ErgoParent[e]]
        /\ Height[ErgoParent[e]] \in Nat
    BY <2>1, <2>2, ErgoStep, HeightType, ErgoAssumption
  <2>4. ErgoParent[e] = followTip
    BY <2>1, <2>2, <2>3, ErgoHeights
  <2>5. \A d \in followed : Height[d] < Height[e]
    <3>1. \A d \in followed : Height[d] < Height[followTip] \/ d = followTip
      BY <2>1, ErgoHeights
    <3>2. \A d \in followed : Height[d] \in Nat
      BY HeightType
    <3>. QED
      BY <2>1, <3>1, <3>2
  <2>. QED
    BY <1>1, <1>2, <1>3, <2>1, <2>3, <2>4, <2>5 DEF BestChain
<1>. QED
  BY <1>4, <1>5

\* The anchor calls that are made for an entry are about its header.
LEMMA FeedAnchors ==
  ASSUME NEW u, NEW c,
         c \in Entries(WatchFeed(u)) \/ c \in Entries(SyncFeed(u.header)), c.op = "anchor"
  PROVE  c.id = Commits[u.header] /\ c.height = Height[u.header]
<1>1. CASE c \in Entries(SyncFeed(u.header))
  BY <1>1 DEF Entries, SyncFeed, FeedShare, FeedBody
<1>2. CASE c \in Entries(WatchFeed(u))
  BY <1>2 DEF Entries, WatchFeed, FeedShare, FeedBody, FeedAnchor
<1>. QED
  BY <1>1, <1>2

LEMMA ScanAnchors ==
  ASSUME NEW S, NEW u, u.header \in S, NEW tip, calls = <<>>,
         Scan(u, tip) \/ ResolveAndFeed(u, tip)
  PROVE  \A c \in Entries(calls') :
           c.op = "anchor" => \E e \in S : Commits[e] = c.id /\ Height[e] = c.height
<1>1. calls' = <<>> \/ calls' = WatchFeed(u)
  BY DEF Scan, ResolveAndFeed
<1>. QED
  BY <1>1, FeedAnchors, EntriesEmpty

\* A step that leaves the follower, the anchors and the Ergo node alone.
LEMMA FollowFrame ==
  ASSUME FollowInv, UNCHANGED <<ergoTip, followVars, anchors>>,
         pass' = "apply" => UNCHANGED <<pass, todo>>,
         \A c \in Entries(calls') :
           c.op = "anchor" => \E e \in followed : Commits[e] = c.id /\ Height[e] = c.height
  PROVE  FollowInv'
BY DEF FollowInv, followVars, BestChain, Seen, Reached, TipHeight

LEMMA FollowInit == WatchInit => FollowInv
BY EntriesEmpty DEF WatchInit, Init, FollowInv, BestChain

\* The head of the page of an application, and what its tail then is.
LEMMA PageStep ==
  ASSUME BufferInv, FollowInv, pass = "apply", todo # <<>>
  PROVE  /\ Head(todo) \in Header /\ Height[Head(todo)] = Reached + 1 /\ Seen(Head(todo))
         /\ Tail(todo) \in Seq(Header)
         /\ \A i \in DOMAIN Tail(todo) :
              Height[Tail(todo)[i]] = Reached + 1 + i /\ Seen(Tail(todo)[i])
<1>1. todo \in Seq(Header)
  BY DEF BufferInv
<1>2. /\ Head(todo) \in Header /\ Tail(todo) \in Seq(Header)
      /\ Len(Tail(todo)) = Len(todo) - 1 /\ Len(todo) \in Nat \ {0}
      /\ DOMAIN todo = 1 .. Len(todo) /\ DOMAIN Tail(todo) = 1 .. Len(Tail(todo))
      /\ \A i \in 1 .. Len(Tail(todo)) : Tail(todo)[i] = todo[i + 1]
      /\ Head(todo) = todo[1]
  BY <1>1, HeadTailProperties, LenProperties, EmptySeq
<1>3. 1 \in DOMAIN todo /\ \A i \in DOMAIN Tail(todo) : i + 1 \in DOMAIN todo /\ i \in Nat
  BY <1>2
<1>4. Reached \in Int
  BY HeightType, ErgoAssumption DEF Reached, TipHeight, BufferInv
<1>5. ASSUME NEW i \in DOMAIN Tail(todo)
      PROVE  Height[Tail(todo)[i]] = Reached + 1 + i /\ Seen(Tail(todo)[i])
  <2>1. Tail(todo)[i] = todo[i + 1] /\ i + 1 \in DOMAIN todo /\ i \in Nat
    BY <1>2, <1>3
  <2>2. Height[todo[i + 1]] = Reached + (i + 1) /\ Seen(todo[i + 1])
    BY <2>1 DEF FollowInv
  <2>. QED
    BY <1>4, <2>1, <2>2
<1>. QED
  BY <1>2, <1>3, <1>5 DEF FollowInv

LEMMA FollowStep == BufferInv /\ FollowInv /\ [WatchNext]_watchVars => FollowInv'
<1>. SUFFICES ASSUME BufferInv, FollowInv, [WatchNext]_watchVars PROVE FollowInv'
  OBVIOUS
<1>1. CASE UNCHANGED watchVars
  BY <1>1, FollowFrame DEF watchVars, vars, ergoVars, passVars, FollowInv
<1>2. ASSUME NEW e \in Header, ErgoMoves(e) PROVE FollowInv'
  <2>1. UNCHANGED <<anchors, followed, followTip, pass, todo, calls>>
    BY <1>2 DEF ErgoMoves, vars, followVars, passVars
  <2>2. ASSUME followTip # NoHeader PROVE Seen(followTip)'
    <3>1. PICK x \in Header : x = followTip /\ Seen(x)
      BY <2>2 DEF FollowInv, BufferInv
    <3>2. Seen(x)'
      BY <1>2, <3>1, SeenKept
    <3>. QED
      BY <2>1, <3>1, <3>2 DEF Seen, BestChain
  <2>3. ASSUME pass = "apply", NEW i \in DOMAIN todo PROVE Seen(todo[i])'
    <3>1. PICK x \in Header : x = todo[i] /\ Seen(x)
      BY <2>3, ElementOfSeq, LenProperties DEF BufferInv, FollowInv
    <3>2. Seen(x)'
      BY <1>2, <3>1, SeenKept
    <3>. QED
      BY <2>1, <3>1, <3>2 DEF Seen, BestChain
  <2>. QED
    BY <2>1, <2>2, <2>3 DEF FollowInv, BestChain, Seen, Reached, TipHeight
<1>3. ASSUME NEW e \in Header, SyncOne(e) PROVE FollowInv'
  <2>1. /\ UNCHANGED <<anchors, ergoTip, followVars, pass, todo>>
        /\ calls' = SyncFeed(e)
    BY <1>3 DEF SyncOne, vars, ergoVars, passVars
  <2>2. \A c \in Entries(calls') : c.op # "anchor"
    BY <2>1 DEF Entries, SyncFeed, FeedShare, FeedBody
  <2>. QED
    BY <2>1, <2>2, FollowFrame
<1>4. ASSUME NEW b \in Block, Serve(b) \/ ApproveSettled(b) PROVE FollowInv'
  BY <1>4, FollowFrame DEF Serve, ApproveSettled, Approve, vars, ergoVars, passVars, FollowInv
<1>5. CASE Call
  <2>. DEFINE c == Head(calls)
  <2>1. /\ c \in OpType /\ Tail(calls) \in Seq(OpType)
        /\ Entries(calls) = {c} \cup Entries(Tail(calls))
    BY <1>5, EntriesTail DEF Call, BufferInv
  <2>2. /\ UNCHANGED <<ergoTip, followed, followTip, pass, todo>>
        /\ calls' = Tail(calls)
    BY <1>5 DEF Call, ergoVars, followVars, passVars
  <2>3. ASSUME c.op # "anchor" PROVE UNCHANGED anchors
    BY <1>5, <2>3 DEF Call, IngestNewShare, IngestKnownShare, IngestOldShare, IngestBody,
       IngestDeadBody, IngestOldBody, vars
  <2>4. ASSUME c.op = "anchor"
        PROVE  \A b \in DOMAIN anchors' :
                 \E e \in followed : Commits[e] = b /\ Height[e] = anchors'[b]
    <3>1. anchors' = Lower(anchors, c.id, c.height)
      BY <1>5, <2>4 DEF Call, RecordAnchor
    <3>2. \E e \in followed : Commits[e] = c.id /\ Height[e] = c.height
      BY <2>1, <2>4 DEF FollowInv
    <3>. QED
      BY <3>1, <3>2 DEF Lower, Put, FollowInv
  <2>5. \A b \in DOMAIN anchors' :
          \E e \in followed : Commits[e] = b /\ Height[e] = anchors'[b]
    BY <2>3, <2>4 DEF FollowInv
  <2>. QED
    BY <2>1, <2>2, <2>5 DEF FollowInv, BestChain, Seen, Reached, TipHeight
<1>6. CASE ForkChoiceStep
  <2>1. UNCHANGED anchors
    BY <1>6 DEF ForkChoiceStep, Steps, SkipUnready, Activate, RejectPermanent,
       RejectTransient, RefreshCanonical
  <2>. QED
    BY <1>6, <2>1, FollowFrame DEF ForkChoiceStep, ergoVars, passVars, FollowInv
<1>7. CASE BeginDrive
  BY <1>7, FollowFrame DEF BeginDrive, vars, ergoVars, FollowInv
<1>8. CASE Rescan
  <2>1. /\ Head(todo) \in Entry(followed) /\ calls = <<>>
        /\ UNCHANGED <<anchors, ergoTip, followVars, pass>> /\ pass = "rescan"
        /\ Scan(Head(todo), followTip)
    BY <1>8, EntriesTail DEF Rescan, Free, BufferInv, vars, ergoVars
  <2>2. Head(todo).header \in followed
    BY <2>1 DEF Entry
  <2>. QED
    BY <2>1, <2>2, ScanAnchors, FollowFrame
<1>9. CASE Resolve
  <2>1. /\ Head(todo) \in Entry(followed) /\ calls = <<>>
        /\ UNCHANGED <<anchors, ergoTip, followVars, pass>> /\ pass = "resolve"
        /\ ResolveAndFeed(Head(todo), followTip)
    BY <1>9, EntriesTail DEF Resolve, Free, BufferInv, vars, ergoVars
  <2>2. Head(todo).header \in followed
    BY <2>1 DEF Entry
  <2>. QED
    BY <2>1, <2>2, ScanAnchors, FollowFrame
<1>10. CASE RescanFails \/ RescanDone \/ ResolveDone \/ FetchFails \/ ApplyFails \/ ApplyDone
  BY <1>10, FollowFrame DEF RescanFails, RescanDone, ResolveDone, FetchFails, ApplyFails,
     ApplyDone, vars, ergoVars, FollowInv
<1>11. CASE Fetch
  <2>1. /\ UNCHANGED <<anchors, ergoTip, followed, followTip, calls>>
        /\ todo' = Batch
    BY <1>11 DEF Fetch, vars, ergoVars, followVars
  <2>2. \A i \in DOMAIN Batch : Height[Batch[i]] = Reached + i /\ Seen(Batch[i])
    BY BatchSeen
  <2>. QED
    BY <2>1, <2>2 DEF FollowInv, BestChain, Seen, Reached, TipHeight
<1>12. CASE Apply \/ ApplyUnscanned
  <2>. DEFINE e == Head(todo)
              u == Item(e, HeavierTip(e))
  <2>1. /\ Follow(e) /\ pass = "apply" /\ todo # <<>> /\ calls = <<>>
        /\ UNCHANGED <<anchors, ergoTip>>
    BY <1>12 DEF Apply, ApplyUnscanned, Free, vars, ergoVars
  <2>2. /\ e \in Header /\ Height[e] = Reached + 1 /\ Seen(e)
        /\ \A i \in DOMAIN Tail(todo) :
             Height[Tail(todo)[i]] = Reached + 1 + i /\ Seen(Tail(todo)[i])
    BY <2>1, PageStep
  <2>3. /\ followTip' = e /\ followed' = followed \cup {e} /\ followed' = BestChain(followTip')
        /\ e # NoHeader
    BY <2>1, <2>2, FollowExtends, ErgoAssumption
  <2>4. Reached' = Reached + 1
    BY <2>2, <2>3 DEF Reached, TipHeight
  <2>5. \A c \in Entries(calls') : c.op = "anchor" =>
          \E d \in followed' : Commits[d] = c.id /\ Height[d] = c.height
    <3>1. CASE Apply
      <4>1. Scan(u, NextTip(e)) /\ u.header \in followed'
        BY <2>3, <3>1 DEF Apply, Item
      <4>. HIDE DEF u
      <4>. QED
        BY <2>1, <4>1, ScanAnchors
    <3>2. CASE ApplyUnscanned
      BY <2>1, <3>2, EntriesEmpty DEF ApplyUnscanned
    <3>. QED
      BY <1>12, <3>1, <3>2
  <2>6. pass' = "apply" => todo' = Tail(todo)
    BY <1>12 DEF Apply, ApplyUnscanned
  <2>. HIDE DEF e, u
  <2>7. ASSUME pass' = "apply", NEW i \in DOMAIN todo'
        PROVE  Height[todo'[i]] = Reached' + i /\ Seen(todo[i])'
    <3>1. todo' = Tail(todo) /\ i \in DOMAIN Tail(todo)
      BY <2>6, <2>7
    <3>2. Height[todo'[i]] = Reached + 1 + i /\ Seen(Tail(todo)[i])
      BY <2>2, <3>1
    <3>. QED
      BY <2>1, <2>4, <3>1, <3>2 DEF Seen, BestChain
  <2>8. Seen(followTip)'
    <3>1. Seen(e) /\ followTip' = e /\ ergoTip' = ergoTip
      BY <2>1, <2>2, <2>3
    <3>. QED
      BY <3>1 DEF Seen, BestChain
  <2>. QED
    BY <2>1, <2>3, <2>5, <2>7, <2>8 DEF FollowInv, BestChain
<1>. QED
  BY <1>1, <1>2, <1>3, <1>4, <1>5, <1>6, <1>7, <1>8, <1>9, <1>10, <1>11, <1>12
  DEF WatchNext, PassSteps, Failures

\* An anchor is an inclusion on the chain the follower is on (record_anchor only
\* when on_best_chain), and that is the one chain it ever held.
THEOREM AnchorInclusionCorrect == WatchSpec => []AnchorIsInclusion
<1>1. WatchSpec => [](BufferInv /\ FollowInv)
  BY BufferInit, BufferStep, FollowInit, FollowStep, PTL DEF WatchSpec
<1>2. FollowInv => AnchorIsInclusion
  BY DEF FollowInv, AnchorIsInclusion
<1>. QED
  BY <1>1, <1>2, PTL

\* What settled_is_final approves has its inclusion N_MINT or more headers below
\* the follower's tip, hence at least MaxReorg below the Ergo node's.
LEMMA SettledMade ==
  ASSUME MaxReorg <= N_MINT, BufferInv, FollowInv, TypeOK, NEW b \in Block, ApproveSettled(b)
  PROVE  SettledInv'
<1>1. PICK h \in ErgoHeight : SettledHeight(h) /\ Approve(b, h)
  BY DEF ApproveSettled
<1>2. PICK s \in nodes : /\ s \in Anc(canonical) \cap DOMAIN anchors
                         /\ anchors[s] <= h
                         /\ b \in Anc(s)
  BY <1>1 DEF Approve, IsFinal, IsSettledAnchor, IsAncestorOrEq
<1>3. s \in Block /\ s # NoBlock /\ anchors[s] \in Nat
  BY <1>2, ErgoAssumption, ParamAssumption DEF TypeOK
<1>4. PICK e \in followed : Commits[e] = s /\ Height[e] = anchors[s]
  BY <1>2 DEF FollowInv
<1>5. /\ followTip # NoHeader /\ followTip \in Header /\ h = Height[followTip] - N_MINT
      /\ e \in ErgoAnc[followTip] /\ e \in Header /\ Seen(followTip)
  BY <1>1, <1>4 DEF SettledHeight, TipHeight, FollowInv, BufferInv, BestChain
<1>6. /\ Height[followTip] \in Nat /\ N_MINT \in Nat /\ MaxReorg \in Nat /\ Height[e] \in Nat
      /\ Height[ergoTip] \in Nat
  BY <1>5, HeightType, ErgoAssumption DEF Seen, BufferInv
<1>7. Height[e] + MaxReorg <= Height[followTip]
  BY <1>2, <1>3, <1>4, <1>5, <1>6
<1>8. e \in BestChain(ergoTip) /\ Height[e] + MaxReorg <= Height[ergoTip]
  BY <1>5, <1>6, <1>7 DEF Seen
<1>9. ergoTip' = ergoTip /\ \A a \in approved' : a.id = b
  BY <1>1 DEF ApproveSettled, ergoVars, Approve
<1>. QED
  BY <1>2, <1>3, <1>4, <1>8, <1>9 DEF SettledInv, BestChain

LEMMA SettledStep ==
  ASSUME MaxReorg <= N_MINT, BufferInv, FollowInv, TypeOK, SettledInv, [WatchNext]_watchVars
  PROVE  SettledInv'
<1>1. CASE UNCHANGED watchVars
  BY <1>1 DEF watchVars, vars, obsVars, ergoVars, SettledInv, BestChain
<1>2. ASSUME NEW x \in Header, ErgoMoves(x) PROVE SettledInv'
  <2>1. ergoTip' = x /\ approved' = approved /\ x # NoHeader
    BY <1>2, ErgoAssumption DEF ErgoMoves, vars, obsVars
  <2>2. ASSUME NEW a \in approved
        PROVE  \E e \in ErgoAnc[x] : /\ Commits[e] # NoBlock /\ a.id \in Anc(Commits[e])
                                     /\ Height[e] + MaxReorg <= Height[x]
    <3>1. PICK e \in BestChain(ergoTip) : /\ Commits[e] # NoBlock /\ a.id \in Anc(Commits[e])
                                          /\ Height[e] + MaxReorg <= Height[ergoTip]
      BY DEF SettledInv
    <3>2. /\ ergoTip # NoHeader /\ ergoTip \in Header /\ e \in ErgoAnc[ergoTip]
          /\ e \in Header
      BY <3>1, ErgoHeights DEF BestChain, BufferInv
    <3>3. /\ Height[x] > Height[ergoTip]
          /\ Cardinality(ErgoAnc[ergoTip] \ ErgoAnc[x]) <= MaxReorg
      BY <1>2, <3>2 DEF ErgoMoves, BestChain
    <3>4. e \in ErgoAnc[x]
      BY <3>1, <3>2, <3>3, ReorgKeeps
    <3>5. /\ Height[x] \in Nat /\ Height[ergoTip] \in Nat /\ Height[e] \in Nat
          /\ MaxReorg \in Nat
      BY <3>2, HeightType, ErgoAssumption
    <3>. QED
      BY <3>1, <3>3, <3>4, <3>5
  <2>. QED
    BY <2>1, <2>2 DEF SettledInv, BestChain
<1>3. ASSUME NEW b \in Block, ApproveSettled(b) PROVE SettledInv'
  BY <1>3, SettledMade
<1>4. CASE Call
  <2>1. UNCHANGED approved
    BY <1>4 DEF Call, IngestNewShare, IngestKnownShare, IngestOldShare, IngestBody,
       IngestDeadBody, IngestOldBody, RecordAnchor, vars, obsVars
  <2>. QED
    BY <1>4, <2>1 DEF Call, ergoVars, SettledInv, BestChain
<1>5. CASE ForkChoiceStep
  <2>1. UNCHANGED approved
    BY <1>5 DEF ForkChoiceStep, Steps, SkipUnready, Activate, RejectPermanent,
       RejectTransient, RefreshCanonical, obsVars
  <2>. QED
    BY <1>5, <2>1 DEF ForkChoiceStep, ergoVars, SettledInv, BestChain
<1>6. CASE PassSteps \/ Failures
  <2>1. UNCHANGED <<ergoTip, approved>>
    BY <1>6 DEF PassSteps, Failures, BeginDrive, Rescan, RescanDone, Resolve, ResolveDone,
       Fetch, Apply, ApplyFails, ApplyDone, RescanFails, FetchFails, ApplyUnscanned,
       vars, obsVars, ergoVars
  <2>. QED
    BY <2>1 DEF SettledInv, BestChain
<1>7. ASSUME NEW e \in Header, SyncOne(e) PROVE SettledInv'
  BY <1>7 DEF SyncOne, vars, obsVars, ergoVars, SettledInv, BestChain
<1>8. ASSUME NEW b \in Block, Serve(b) PROVE SettledInv'
  BY <1>8 DEF Serve, vars, obsVars, ergoVars, SettledInv, BestChain
<1>. QED
  BY <1>1, <1>2, <1>3, <1>4, <1>5, <1>6, <1>7, <1>8 DEF WatchNext

\* A mint the node approved at its settled reference keeps its inclusion in the
\* chain the Ergo node follows, as long as that chain never reorganises by more
\* than N_MINT headers (settled_is_final, N_MINT).
THEOREM ApprovedSettledCorrect ==
  ASSUME MaxReorg <= N_MINT
  PROVE  WatchSpec => []ApprovedIsSettled
<1>1. WatchSpec => [](BufferInv /\ FollowInv)
  BY BufferInit, BufferStep, FollowInit, FollowStep, PTL DEF WatchSpec
<1>2. WatchSpec => []TypeOK
  BY WatchDrivesForkChoice, TypeCorrect, PTL
<1>3. WatchInit => SettledInv
  BY DEF WatchInit, Init, SettledInv
<1>4. BufferInv /\ FollowInv /\ TypeOK /\ SettledInv /\ [WatchNext]_watchVars => SettledInv'
  BY SettledStep
<1>5. SettledInv => ApprovedIsSettled
  BY DEF SettledInv, ApprovedIsSettled
<1>. QED
  BY <1>1, <1>2, <1>3, <1>4, <1>5, PTL DEF WatchSpec

--------------------------------------------------------------------------------
(* No commitment is lost *)

\* Verdicts are final, and the Ergo height of a share only falls.
LEMMA SharesKept ==
  ASSUME TypeOK, [Next]_vars
  PROVE  /\ dead \subseteq dead'
         /\ DOMAIN shares \subseteq DOMAIN shares'
         /\ \A b \in DOMAIN shares : shares'[b] \in Nat /\ shares'[b] <= shares[b]
<1>0. \A b \in DOMAIN shares : shares[b] \in Nat
  BY ParamAssumption DEF TypeOK
<1>1. CASE UNCHANGED <<dead, shares>>
  BY <1>0, <1>1
<1>2. ASSUME NEW b, MarkDead(b), UNCHANGED shares
      PROVE  dead \subseteq dead' /\ UNCHANGED shares
  BY <1>2 DEF MarkDead
<1>3. ASSUME NEW b \in Block, NEW h \in ErgoHeight,
             shares' = Lower(shares, b, h), UNCHANGED dead
      PROVE  /\ DOMAIN shares \subseteq DOMAIN shares'
             /\ \A c \in DOMAIN shares : shares'[c] \in Nat /\ shares'[c] <= shares[c]
  <2>1. h \in Nat
    BY ParamAssumption
  <2>2. ASSUME NEW c \in DOMAIN shares PROVE shares'[c] \in Nat /\ shares'[c] <= shares[c]
    <3>1. CASE c # b
      BY <1>0, <1>3, <3>1 DEF Lower, Put
    <3>2. CASE c = b
      <4>1. shares'[b] = IF shares[b] <= h THEN shares[b] ELSE h
        BY <1>3, <2>2, <3>2 DEF Lower, Put
      <4>. QED
        BY <1>0, <2>1, <2>2, <3>2, <4>1
    <3>. QED
      BY <3>1, <3>2
  <2>. QED
    BY <1>3, <2>2 DEF Lower, Put
<1>4. CASE \E b \in Block, h \in ErgoHeight : IngestKnownShare(b, h) \/ IngestNewShare(b, h)
  BY <1>3, <1>4 DEF IngestKnownShare, IngestNewShare
<1>5. CASE \E b \in Block, body \in Bodies : IngestDeadBody(b, body)
  BY <1>0, <1>2, <1>5 DEF IngestDeadBody
<1>6. CASE RejectPermanent
  BY <1>0, <1>2, <1>6 DEF RejectPermanent, obsVars
<1>7. CASE \/ \E b \in Block, body \in Bodies : IngestBody(b, body)
           \/ \E b \in Block, h \in ErgoHeight : RecordAnchor(b, h) \/ Approve(b, h)
           \/ \E t \in 0 .. MaxNow : Tick(t)
           \/ SkipUnready \/ Activate \/ RejectTransient \/ RefreshCanonical
           \/ UNCHANGED vars
  BY <1>1, <1>7 DEF IngestBody, RecordAnchor, Approve, Tick, SkipUnready, Activate,
     RejectTransient, RefreshCanonical, treeVars, obsVars, vars
<1>. QED
  BY <1>4, <1>5, <1>6, <1>7 DEF Next, Calls, Steps

LEMMA FedKept ==
  ASSUME TypeOK, [Next]_vars, NEW e \in Header, Fed(e)
  PROVE  Fed(e)'
<1>1. CASE Commits[e] \in dead
  BY <1>1, SharesKept DEF Fed
<1>2. CASE Commits[e] \in DOMAIN shares /\ shares[Commits[e]] <= Height[e]
  <2>1. /\ Commits[e] \in DOMAIN shares' /\ shares'[Commits[e]] \in Nat
        /\ shares'[Commits[e]] <= shares[Commits[e]]
    BY <1>2, SharesKept
  <2>2. shares[Commits[e]] \in Nat /\ Height[e] \in Nat
    BY <1>2, HeightType, ParamAssumption DEF TypeOK
  <2>. QED
    BY <1>2, <2>1, <2>2 DEF Fed
<1>. QED
  BY <1>1, <1>2 DEF Fed

\* Scanning an entry of the window keeps it, or makes its share call.
LEMMA ScanKeeps ==
  ASSUME NEW S \in SUBSET Header, unresolved \in Seq(Entry(S)),
         NEW u \in Entry(S), NEW tip \in Header, Height[u.header] <= Height[tip],
         u.header \notin Refused, Commits[u.header] # NoBlock,
         Scan(u, tip) \/ ResolveAndFeed(u, tip)
  PROVE  \/ u \in Entries(unresolved')
         \/ FeedShare(u.header) \in Entries(calls')
         \/ Height[u.header] < Height[tip] - K_LAG
<1>1. ResolveAndFeed(u, tip)
  BY DEF Scan
<1>2. CASE Deferred(Commits[u.header])
  <2>1. unresolved' = Append(unresolved, u)
    BY <1>1, <1>2 DEF ResolveAndFeed
  <2>2. Entries(Append(unresolved, u)) = Entries(unresolved) \cup {u}
    BY EntriesAppend
  <2>. QED
    BY <2>1, <2>2
<1>3. CASE ~ Deferred(Commits[u.header]) /\ VerifyShare(u.header, tip)
  <2>1. calls' = WatchFeed(u)
    BY <1>1, <1>3 DEF ResolveAndFeed
  <2>2. 1 \in DOMAIN WatchFeed(u) /\ WatchFeed(u)[1] = FeedShare(u.header)
    BY DEF WatchFeed
  <2>. QED
    BY <2>1, <2>2 DEF Entries
<1>4. CASE ~ Deferred(Commits[u.header]) /\ ~ VerifyShare(u.header, tip)
  <2>1. /\ Height[u.header] \in Nat /\ Height[tip] \in Nat /\ K_LAG \in Nat
    BY HeightType, ErgoAssumption DEF Entry
  <2>2. Parent[Commits[u.header]] \in nodes
    BY <1>4 DEF Deferred
  <2>. QED
    BY <1>4, <2>1, <2>2 DEF VerifyShare
<1>. QED
  BY <1>2, <1>3, <1>4

LEMMA ScanGrows ==
  ASSUME NEW S, unresolved \in Seq(S), NEW u \in S, NEW tip,
         Scan(u, tip) \/ ResolveAndFeed(u, tip)
  PROVE  Entries(unresolved) \subseteq Entries(unresolved')
<1>1. unresolved' = Append(unresolved, u) \/ unresolved' = unresolved
  BY DEF Scan, ResolveAndFeed
<1>2. Entries(Append(unresolved, u)) = Entries(unresolved) \cup {u}
  BY EntriesAppend
<1>. QED
  BY <1>1, <1>2

\* e is kept in one of the buffers or in what the pass has left.
Kept(e) ==
  \/ \E u \in Entries(unscanned) \cup Entries(unresolved) : u.header = e
  \/ pass \in {"rescan", "resolve"} /\ \E u \in Entries(todo) : u.header = e

LEMMA HeldIs == \A e : e \in Held <=> Kept(e)
BY DEF Held, Headers, Kept, Entries

LEMMA BeingFedIs == \A e : BeingFed(e) <=> FeedShare(e) \in Entries(calls)
BY DEF BeingFed, Entries

\* What becomes of a commitment.
Handled(e) ==
  \/ Fed(e)
  \/ FeedShare(e) \in Entries(calls)
  \/ Kept(e)
  \/ Height[e] < TipHeight - K_LAG

LEMMA HandledIs ==
  NoCommitmentLost <=> \A e \in followed \ Refused : Commits[e] # NoBlock => Handled(e)
BY HeldIs, BeingFedIs DEF NoCommitmentLost, Handled

\* The share call of a header feeds its commitment.
LEMMA CallFeeds ==
  ASSUME TypeOK, ShareInv, BufferInv, Call, NEW e \in Header, Commits[e] # NoBlock,
         Head(calls) = FeedShare(e)
  PROVE  Fed(e)'
<1>. DEFINE b == Commits[e]
            h == Height[e]
<1>1. b \in Block /\ b # Genesis /\ h \in Nat /\ h \in ErgoHeight
  BY HeightType, ErgoAssumption, TreeAssumption
<1>2. Head(calls).op = "share" /\ Head(calls).id = b /\ Head(calls).height = h
  BY DEF FeedShare
<1>3. IngestNewShare(b, h) \/ IngestKnownShare(b, h) \/ IngestOldShare(b, h)
  BY <1>2 DEF Call
<1>4. CASE IngestNewShare(b, h) \/ IngestKnownShare(b, h)
  <2>1. shares' = Lower(shares, b, h)
    BY <1>4 DEF IngestNewShare, IngestKnownShare
  <2>2. b \in DOMAIN shares' /\ shares'[b] = IF b \in DOMAIN shares /\ shares[b] <= h
                                             THEN shares[b] ELSE h
    BY <2>1 DEF Lower, Put
  <2>. QED
    BY <1>1, <2>2 DEF Fed
<1>5. CASE IngestOldShare(b, h)
  <2>1. b \in dead \/ (b \in nodes /\ ergo[b] <= h)
    BY <1>5 DEF IngestOldShare
  <2>2. Fed(e)
    BY <1>1, <2>1 DEF Fed, ShareInv
  <2>3. UNCHANGED <<dead, shares>>
    BY <1>5 DEF IngestOldShare, vars, treeVars, obsVars
  <2>. QED
    BY <2>2, <2>3 DEF Fed
<1>. QED
  BY <1>3, <1>4, <1>5

\* A step that takes no call and keeps the follower only has to answer for what
\* waits.
LEMMA HandledFrame ==
  ASSUME TypeOK, [Next]_vars, NEW e \in Header, Handled(e), UNCHANGED followTip,
         Entries(calls) \subseteq Entries(calls'), Kept(e) => Handled(e)'
  PROVE  Handled(e)'
<1>1. CASE Fed(e)
  BY <1>1, FedKept DEF Handled
<1>2. CASE FeedShare(e) \in Entries(calls)
  BY <1>2 DEF Handled, FeedShare
<1>3. CASE Height[e] < TipHeight - K_LAG
  BY <1>3 DEF Handled, TipHeight
<1>. QED
  BY <1>1, <1>2, <1>3 DEF Handled

\* A commitment that is handled stays so, whatever the next step is.
LEMMA HandledStep ==
  ASSUME TypeOK, ShareInv, BufferInv, FollowInv, WatchNext,
         NEW e \in followed, e \notin Refused, Commits[e] # NoBlock, Handled(e)
  PROVE  Handled(e)'
<1>0. e \in Header /\ [Next]_vars /\ followTip \in Header /\ followTip # NoHeader
  BY WatchStep, ErgoAssumption DEF BufferInv
<1>. USE <1>0
<1>1. CASE \/ \E x \in Header : ErgoMoves(x)
           \/ \E b \in Block : Serve(b) \/ ApproveSettled(b)
           \/ ForkChoiceStep \/ FetchFails \/ Fetch \/ ApplyFails \/ ApplyDone
  <2>1. UNCHANGED <<followTip, unscanned, unresolved, calls>>
    BY <1>1 DEF ErgoMoves, Serve, ApproveSettled, ForkChoiceStep, FetchFails, Fetch,
       ApplyFails, ApplyDone, followVars, bufferVars
  <2>2. pass \in {"rescan", "resolve"} => UNCHANGED <<pass, todo>>
    BY <1>1 DEF ErgoMoves, Serve, ApproveSettled, ForkChoiceStep, FetchFails, Fetch,
       ApplyFails, ApplyDone, passVars
  <2>3. Kept(e) => Handled(e)'
    BY <2>1, <2>2 DEF Kept, Handled
  <2>. QED
    BY <2>1, <2>3, HandledFrame
<1>2. CASE \E x \in Header : SyncOne(x)
  <2>1. /\ calls = <<>>
        /\ UNCHANGED <<followTip, unscanned, unresolved, pass, todo>>
    BY <1>2 DEF SyncOne, Free, followVars, bufferVars, passVars
  <2>2. Kept(e) => Handled(e)'
    BY <2>1 DEF Kept, Handled
  <2>. QED
    BY <2>1, <2>2, EntriesEmpty, HandledFrame
<1>3. CASE Call
  <2>1. /\ Entries(calls) = {Head(calls)} \cup Entries(Tail(calls)) /\ calls' = Tail(calls)
        /\ UNCHANGED <<followTip, unscanned, unresolved, pass, todo>>
    BY <1>3, EntriesTail DEF Call, BufferInv, followVars, bufferVars, passVars
  <2>2. CASE Head(calls) = FeedShare(e)
    BY <1>3, <2>2, CallFeeds DEF Handled
  <2>3. CASE FeedShare(e) \in Entries(Tail(calls))
    BY <2>1, <2>3 DEF Handled, FeedShare
  <2>4. CASE Fed(e)
    BY <2>4, FedKept DEF Handled
  <2>5. CASE Kept(e) \/ Height[e] < TipHeight - K_LAG
    BY <2>1, <2>5 DEF Kept, Handled, TipHeight
  <2>. QED
    BY <2>1, <2>2, <2>3, <2>4, <2>5 DEF Handled
<1>4. CASE BeginDrive
  <2>1. /\ pass = "idle" /\ calls' = calls /\ followTip' = followTip
        /\ pass' = "rescan" /\ todo' = Recent(unscanned) /\ unresolved' = Recent(unresolved)
    BY <1>4 DEF BeginDrive, followVars
  <2>2. /\ Entries(todo') = {u \in Entries(unscanned) : AboveWindow(u)}
        /\ Entries(unresolved') = {u \in Entries(unresolved) : AboveWindow(u)}
    BY <2>1, EntriesRecent DEF BufferInv
  <2>3. ASSUME Kept(e) PROVE Handled(e)'
    <3>1. PICK u \in Entries(unscanned) \cup Entries(unresolved) : u.header = e
      BY <2>1, <2>3 DEF Kept
    <3>2. CASE AboveWindow(u)
      BY <2>1, <2>2, <3>1, <3>2 DEF Kept, Handled
    <3>3. CASE ~ AboveWindow(u)
      <4>1. Height[e] \in Nat /\ TipHeight \in Nat /\ K_LAG \in Nat
        BY HeightType, ErgoAssumption DEF TipHeight
      <4>2. Height[e] < TipHeight - K_LAG
        BY <3>1, <3>3, <4>1 DEF AboveWindow
      <4>. QED
        BY <2>1, <4>2 DEF Handled, TipHeight
    <3>. QED
      BY <3>2, <3>3
  <2>. QED
    BY <2>1, <2>3, HandledFrame
<1>5. CASE Rescan \/ Resolve
  <2>. DEFINE u == Head(todo)
  <2>1. /\ pass \in {"rescan", "resolve"} /\ todo # <<>> /\ todo \in Seq(Entry(followed))
        /\ Scan(u, followTip) \/ ResolveAndFeed(u, followTip)
        /\ calls = <<>> /\ todo' = Tail(todo)
        /\ UNCHANGED <<followTip, unscanned, pass>>
    BY <1>5 DEF Rescan, Resolve, Free, BufferInv, followVars
  <2>2. u \in Entry(followed) /\ Entries(todo) = {u} \cup Entries(todo')
    BY <2>1, EntriesTail
  <2>3. Entries(unresolved) \subseteq Entries(unresolved')
    BY <2>1, <2>2, ScanGrows DEF BufferInv
  <2>4. ASSUME u.header = e PROVE Handled(e)'
    <3>1. Height[e] <= Height[followTip]
      BY ErgoHeights, HeightType DEF FollowInv, BestChain
    <3>2. \/ u \in Entries(unresolved') \/ FeedShare(e) \in Entries(calls')
          \/ Height[e] < Height[followTip] - K_LAG
      BY <2>1, <2>2, <2>4, <3>1, ScanKeeps DEF BufferInv
    <3>. HIDE DEF u
    <3>. QED
      BY <2>1, <2>4, <3>2 DEF Handled, Kept, TipHeight, FeedShare
  <2>5. Kept(e) => Handled(e)'
    <3>. HIDE DEF u
    <3>. QED
      BY <2>1, <2>2, <2>3, <2>4 DEF Kept, Handled
  <2>. QED
    BY <2>1, <2>5, EntriesEmpty, HandledFrame
<1>6. CASE RescanFails
  <2>1. /\ todo \in Seq(Entry(followed)) /\ unscanned' = unscanned \o todo
        /\ UNCHANGED <<followTip, unresolved, calls>>
    BY <1>6 DEF RescanFails, BufferInv, followVars
  <2>2. Entries(unscanned') = Entries(unscanned) \cup Entries(todo)
    BY <2>1, EntriesConcat DEF BufferInv
  <2>3. Kept(e) => Handled(e)'
    BY <2>1, <2>2 DEF Kept, Handled
  <2>. QED
    BY <2>1, <2>3, HandledFrame
<1>7. CASE RescanDone \/ ResolveDone
  <2>1. /\ todo = <<>> /\ UNCHANGED <<followTip, unscanned, calls>>
        /\ \/ pass' = "resolve" /\ todo' = unresolved
           \/ UNCHANGED unresolved
    BY <1>7 DEF RescanDone, ResolveDone, followVars, bufferVars
  <2>2. Kept(e) => Handled(e)'
    BY <2>1, EntriesEmpty DEF Kept, Handled
  <2>. QED
    BY <2>1, <2>2, HandledFrame
<1>8. CASE Apply \/ ApplyUnscanned
  <2>. DEFINE x == Head(todo)
              u == Item(x, HeavierTip(x))
              S == followed \cup {x}
  <2>1. /\ Follow(x) /\ pass = "apply" /\ todo # <<>> /\ calls = <<>>
    BY <1>8 DEF Apply, ApplyUnscanned, Free
  <2>2. x \in Header /\ Height[x] = Reached + 1
    BY <2>1, PageStep
  <2>3. followTip' = x /\ NextTip(x) = x /\ Height[followTip] < Height[x]
    BY <2>1, <2>2, FollowExtends DEF BufferInv
  <2>4. /\ Entries(unscanned) \subseteq Entries(unscanned')
        /\ Entries(unresolved) \subseteq Entries(unresolved')
    <3>1. /\ unscanned \in Seq(Entry(S)) /\ unresolved \in Seq(Entry(S))
      <4>1. Entry(followed) \subseteq Entry(S)
        BY DEF Entry
      <4>. HIDE DEF S
      <4>. QED
        BY <4>1, SeqMonotonic DEF BufferInv
    <3>2. u \in Entry(S)
      BY DEF Item, HeavierTip, Entry
    <3>. HIDE DEF u, S
    <3>3. CASE Apply
      <4>1. Scan(u, x) /\ unscanned' = unscanned
        BY <2>3, <3>3 DEF Apply, u
      <4>. QED
        BY <3>1, <3>2, <4>1, ScanGrows
    <3>4. CASE ApplyUnscanned
      <4>1. unscanned' = Append(unscanned, u) /\ unresolved' = unresolved
        BY <3>4 DEF ApplyUnscanned, u
      <4>2. Entries(Append(unscanned, u)) = Entries(unscanned) \cup {u}
        BY <3>1, <3>2, EntriesAppend
      <4>. QED
        BY <4>1, <4>2
    <3>. QED
      BY <1>8, <3>3, <3>4
  <2>5. CASE Fed(e)
    BY <2>5, FedKept DEF Handled
  <2>6. CASE Kept(e)
    BY <2>1, <2>4, <2>6 DEF Kept, Handled
  <2>7. CASE Height[e] < TipHeight - K_LAG
    <3>1. /\ Height[e] \in Nat /\ Height[followTip] \in Nat /\ Height[x] \in Nat
          /\ K_LAG \in Nat
      BY <2>2, HeightType, ErgoAssumption
    <3>2. Height[e] < Height[x] - K_LAG
      BY <2>3, <2>7, <3>1 DEF TipHeight
    <3>. QED
      BY <2>3, <3>2 DEF Handled, TipHeight
  <2>. QED
    BY <2>1, <2>5, <2>6, <2>7, EntriesEmpty DEF Handled
<1>. QED
  BY <1>1, <1>2, <1>3, <1>4, <1>5, <1>6, <1>7, <1>8 DEF WatchNext, PassSteps, Failures

\* A header that joins the follower is scanned against its own window, or kept.
LEMMA HandledNew ==
  ASSUME BufferInv, FollowInv, Apply \/ ApplyUnscanned,
         NEW x, x = Head(todo), x \notin Refused, Commits[x] # NoBlock
  PROVE  Handled(x)'
<1>. DEFINE u == Item(x, HeavierTip(x))
            S == followed \cup {x}
<1>1. /\ Follow(x) /\ pass = "apply" /\ todo # <<>> /\ calls = <<>>
  BY DEF Apply, ApplyUnscanned, Free
<1>2. x \in Header /\ Height[x] = Reached + 1
  BY <1>1, PageStep
<1>3. followTip' = x /\ NextTip(x) = x
  BY <1>1, <1>2, FollowExtends DEF BufferInv
<1>4. /\ unscanned \in Seq(Entry(S)) /\ unresolved \in Seq(Entry(S))
  <2>1. Entry(followed) \subseteq Entry(S)
    BY DEF Entry
  <2>. HIDE DEF S
  <2>. QED
    BY <2>1, SeqMonotonic DEF BufferInv
<1>5. u \in Entry(S) /\ u.header = x /\ S \in SUBSET Header
  BY <1>2 DEF Item, HeavierTip, Entry, BufferInv
<1>. HIDE DEF u, S
<1>6. CASE Apply
  <2>1. Scan(u, x)
    BY <1>3, <1>6 DEF Apply, u
  <2>2. Height[x] <= Height[x]
    BY <1>2, HeightType
  <2>3. \/ u \in Entries(unresolved') \/ FeedShare(x) \in Entries(calls')
        \/ Height[x] < Height[x] - K_LAG
    BY <1>2, <1>4, <1>5, <2>1, <2>2, ScanKeeps
  <2>. QED
    BY <1>3, <1>5, <2>3 DEF Handled, Kept, TipHeight, FeedShare
<1>7. CASE ApplyUnscanned
  <2>1. unscanned' = Append(unscanned, u)
    BY <1>7 DEF ApplyUnscanned, u
  <2>2. Entries(Append(unscanned, u)) = Entries(unscanned) \cup {u}
    BY <1>4, <1>5, EntriesAppend
  <2>. QED
    BY <1>5, <2>1, <2>2 DEF Handled, Kept
<1>. QED
  BY <1>6, <1>7

LEMMA CommitmentStep ==
  ASSUME TypeOK, ShareInv, BufferInv, FollowInv, NoCommitmentLost, [WatchNext]_watchVars
  PROVE  NoCommitmentLost'
<1>1. CASE UNCHANGED watchVars
  BY <1>1 DEF watchVars, vars, treeVars, obsVars, followVars, bufferVars, passVars,
     NoCommitmentLost, Fed, BeingFed, Held, Headers, TipHeight
<1>2. CASE WatchNext
  <2>1. \A e \in followed \ Refused : Commits[e] # NoBlock => Handled(e)'
    BY <1>2, HandledIs, HandledStep
  <2>2. ASSUME NEW e \in followed', e \notin followed
        PROVE  (Apply \/ ApplyUnscanned) /\ e = Head(todo)
    <3>1. Apply \/ ApplyUnscanned
      BY <1>2, <2>2 DEF WatchNext, PassSteps, Failures, ErgoMoves, SyncOne, Serve,
         ApproveSettled, Call, ForkChoiceStep, BeginDrive, Rescan, RescanDone, Resolve,
         ResolveDone, Fetch, ApplyFails, ApplyDone, RescanFails, FetchFails, followVars
    <3>. QED
      BY <2>2, <3>1 DEF Apply, ApplyUnscanned, Follow
  <2>3. ASSUME NEW e \in followed', e \notin Refused, Commits[e] # NoBlock
        PROVE  Handled(e)'
    <3>1. CASE e \in followed
      BY <2>1, <2>3, <3>1
    <3>2. CASE e \notin followed
      BY <2>2, <2>3, <3>2, HandledNew
    <3>. QED
      BY <3>1, <3>2
  <2>4. NoCommitmentLost' <=>
          (\A e \in followed \ Refused : Commits[e] # NoBlock => Handled(e))'
    BY HandledIs, PTL
  <2>. QED
    BY <2>3, <2>4
<1>. QED
  BY <1>1, <1>2

\* Wherever a pass ends and whatever failed in it, every followed header has had
\* its commitment fed, is kept for a later pass, or has left the window (drive:
\* "all fork-choice and buffer effects up to the failure are applied").
THEOREM CommitmentsCorrect == WatchSpec => []CommitmentsKept
<1>1. WatchSpec => [](BufferInv /\ FollowInv)
  BY BufferInit, BufferStep, FollowInit, FollowStep, PTL DEF WatchSpec
<1>2. WatchSpec => []TypeInv
  BY WatchDrivesForkChoice, TypeInit, TypeStep, PTL DEF Spec
<1>3. WatchSpec => []ShareInv
  <2>1. Init => ShareInv
    BY OfferInit DEF OfferInv
  <2>. QED
    BY <1>2, <2>1, WatchDrivesForkChoice, ShareStep, PTL DEF Spec
<1>4. WatchInit => NoCommitmentLost
  BY DEF WatchInit, NoCommitmentLost
<1>5. /\ TypeInv /\ ShareInv /\ BufferInv /\ FollowInv /\ NoCommitmentLost
      /\ [WatchNext]_watchVars
      => NoCommitmentLost'
  BY CommitmentStep DEF TypeInv
<1>6. TypeInv /\ BufferInv /\ NoCommitmentLost => CommitmentsKept
  BY DEF TypeInv, BufferInv, CommitmentsKept, WatchTypeOK, Entry
<1>. QED
  BY <1>1, <1>2, <1>3, <1>4, <1>5, <1>6, PTL DEF WatchSpec

===============================================================================
