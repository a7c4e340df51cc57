---------------------------- MODULE MCMmForkChoice ----------------------------
(***************************************************************************)
(* Instances of MmForkChoice for TLC.  The constants that describe the     *)
(* header tree are computed from a parent function.                        *)
(***************************************************************************)
EXTENDS MmForkChoice, FiniteSetsExt

CONSTANTS a1, a2, b1, b2, g

RECURSIVE PathUp(_, _)
PathUp(up, b) == IF b = g THEN <<g>> ELSE Append(PathUp(up, up[b]), b)

SumOf(S) == MapThenSumSet(LAMBDA b : Work[b], S)

MCSumWork == [S \in SUBSET Block |-> SumOf(S)]
MCPath == [b \in Block \cup {g} |-> PathUp(Parent, b)]

\* Two branches of two blocks each from genesis.
ForkBlocks == {a1, a2, b1, b2}
ForkParent == [b \in ForkBlocks |->
  CASE b = a1 -> g [] b = a2 -> a1 [] b = b1 -> g [] b = b2 -> b1]
ForkRank == [b \in ForkBlocks \cup {g} |->
  CASE b = g -> 0 [] b = b1 -> 1 [] b = a1 -> 2 [] b = a2 -> 3 [] b = b2 -> 4]
\* The branches tie at heights 1 and 2.
ForkWork == [b \in ForkBlocks |-> IF b \in {a1, b1} THEN 1 ELSE 2]
NoFault == [b \in ForkBlocks |-> "none"]
ZeroTs == [b \in ForkBlocks |-> 0]

\* A fork below the tip: a2 and b1 are children of a1, b2 of b1.  b1 breaks a
\* state rule; a2 is timestamped in the future.
MixedParent == [b \in ForkBlocks |->
  CASE b = a1 -> g [] b = a2 -> a1 [] b = b1 -> a1 [] b = b2 -> b1]
MixedFault == [b \in ForkBlocks |-> IF b = b1 THEN "state" ELSE "none"]
MixedTs == [b \in ForkBlocks |-> IF b = a2 THEN 2 ELSE 0]
===============================================================================
