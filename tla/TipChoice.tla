------------------------------- MODULE TipChoice -------------------------------
(***************************************************************************)
(* What the fork choice promises (module doc of mm_forkchoice.rs): shares  *)
(* and bodies are offered in any order, and whenever a call returns the    *)
(* canonical tip is a function of the set offered so far.  There is no     *)
(* buffer and no cursor here, and a call is one offer and one choice.      *)
(***************************************************************************)
EXTENDS Integers

CONSTANTS Block, Genesis, Parent, Path, SumWork, Rank, Fault, ErgoHeight, Bodies

VARIABLES
  shares,       \* block -> lowest Ergo height of the shares offered for it
  offered,      \* pairs of a block and the bytes offered for its body
  tip,          \* canonical_tip
  due           \* a call is in progress: the tip is still to be chosen

Anc(b) == {Path[b][i] : i \in DOMAIN Path[b]}

\* A valid block whose whole branch was offered, shares and bodies.
Supported(b) ==
  \A x \in Anc(b) \ {Genesis} :
    x \in DOMAIN shares /\ <<x, "good">> \in offered /\ Fault[x] = "none"

Tree == {Genesis} \cup {b \in Block : Supported(b)}

TotalWork(b) == SumWork[Anc(b) \ {Genesis}]

\* The block at which the branch of a leaves the branch of b.
Leaves(x, a, b) == x \in Anc(a) \ Anc(b) /\ Parent[x] \in Anc(b)

Earlier(x, y) ==
  shares[x] < shares[y] \/ (shares[x] = shares[y] /\ Rank[x] < Rank[y])

Beats(a, b) ==
  \/ TotalWork(a) > TotalWork(b)
  \/ /\ TotalWork(a) = TotalWork(b)
     /\ \E x, y \in Block : Leaves(x, a, b) /\ Leaves(y, b, a) /\ Earlier(x, y)

Init ==
  /\ shares = [b \in {} |-> 0]
  /\ offered = {}
  /\ tip = Genesis
  /\ due = FALSE

OfferShare(b, h) ==
  /\ ~ due
  /\ due' = TRUE
  /\ shares' = [x \in DOMAIN shares \cup {b} |->
                  IF x # b THEN shares[x]
                  ELSE IF b \in DOMAIN shares /\ shares[b] <= h THEN shares[b]
                  ELSE h]
  /\ UNCHANGED <<offered, tip>>

\* A body that cannot count for the tree asks for no choice.
OfferBody(b, body) ==
  /\ ~ due
  /\ offered' = offered \cup {<<b, body>>}
  /\ due' \in BOOLEAN
  /\ due' \/ Tree' = Tree
  /\ UNCHANGED <<shares, tip>>

Choose ==
  /\ due
  /\ due' = FALSE
  /\ tip' \in Tree
  /\ \A n \in Tree : ~ Beats(n, tip')
  /\ UNCHANGED <<shares, offered>>

Next ==
  \/ \E b \in Block, h \in ErgoHeight : OfferShare(b, h)
  \/ \E b \in Block, body \in Bodies : OfferBody(b, body)
  \/ Choose

vars == <<shares, offered, tip, due>>

Spec == Init /\ [][Next]_vars
===============================================================================
