----------------------------- MODULE MCAnchorWatch -----------------------------
(***************************************************************************)
(* Instances of AnchorWatch for TLC: a block a against a branch b1, b2,    *)
(* committed to by an Ergo chain that can fork behind its second header.   *)
(***************************************************************************)
EXTENDS AnchorWatch, FiniteSetsExt

CONSTANTS a, b1, b2, g, e1, e2, e3, e4, f2, f3, f4

MCBlock == {a, b1, b2}
MCParent == [b \in MCBlock |-> IF b = b2 THEN b1 ELSE g]
MCPath ==
  [b \in MCBlock \cup {g} |->
     CASE b = g -> <<g>>
       [] b = b2 -> <<g, b1, b2>>
       [] OTHER -> <<g, b>>]
MCWork == [b \in MCBlock |-> CASE b = a -> 2 [] b = b1 -> 1 [] b = b2 -> 2]
MCSumWork ==
  [S \in SUBSET MCBlock |-> FoldSet(LAMBDA b, sum : sum + MCWork[b], 0, S)]
MCRank ==
  [b \in MCBlock \cup {g} |->
     CASE b = g -> 0 [] b = a -> 1 [] b = b1 -> 2 [] b = b2 -> 3]
MCFault == [b \in MCBlock |-> "none"]
MCTs == [b \in MCBlock |-> 0]

MCHeader == {e1, e2, e3, e4, f2, f3, f4}
MCErgoParent ==
  [e \in MCHeader |->
     CASE e = e1 -> NoHeader [] e = e2 -> e1 [] e = e3 -> e2 [] e = e4 -> e3
       [] e = f2 -> e1 [] e = f3 -> f2 [] e = f4 -> f3]
MCHeight ==
  [e \in MCHeader |->
     CASE e = e1 -> 1 [] e \in {e2, f2} -> 2 [] e \in {e3, f3} -> 3
       [] e \in {e4, f4} -> 4]
MCErgoAnc[e \in MCHeader] ==
  {e} \cup (IF MCErgoParent[e] = NoHeader THEN {} ELSE MCErgoAnc[MCErgoParent[e]])
MCCommits ==
  [e \in MCHeader |->
     CASE e = e1 -> a [] e = e2 -> b2 [] e = e3 -> b1
       [] e = f2 -> b1 [] e = f4 -> a [] OTHER -> NoBlock]
===============================================================================
