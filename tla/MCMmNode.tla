-------------------------------- MODULE MCMmNode --------------------------------
(***************************************************************************)
(* Instances for TLC, in one run: a node that is a producer with two       *)
(* siblings and a child next to a seed that moves between branches, this   *)
(* node's own among them; and the tier through which seeds are asked, with *)
(* a lying seed before the modelled one.  `part` says which of the two     *)
(* behaves; they share no state.                                           *)
(***************************************************************************)
EXTENDS MmNode

CONSTANTS m1, n1, m2, b1, b2, g, s1, peer1, home

MCBlock == {m1, n1, m2, b1, b2}
MCParent ==
  [b \in MCBlock |-> CASE b = m2 -> m1 [] b = b2 -> b1 [] OTHER -> g]
MCPath ==
  [b \in MCBlock \cup {g} |->
     CASE b = g -> <<g>>
       [] b = m2 -> <<g, m1, m2>>
       [] b = b2 -> <<g, b1, b2>>
       [] OTHER -> <<g, b>>]
MCSumWork == [S \in SUBSET MCBlock |-> Cardinality(S)]
MCRank ==
  [b \in MCBlock \cup {g} |->
     CASE b = g -> 0 [] b = m1 -> 1 [] b = n1 -> 2 [] b = m2 -> 3
       [] b = b1 -> 4 [] b = b2 -> 5]
MCErgoAt == [b \in MCBlock |-> IF b = n1 THEN 1 ELSE 2]
MCMine == {m1, n1, m2}

--------------------------------------------------------------------------------
VARIABLES
  part,   \* "node" | "tier"
  canonical, bodies, tierWitnesses, writer, backlog, handling, stage, stop, job, strangers,
  records

\* b2 is a child of b1.
TierBlock == {b1, b2}
TierHeight == [b \in TierBlock |-> IF b = b1 THEN 1 ELSE 2]
TierParent == [b \in TierBlock |-> IF b = b1 THEN g ELSE b1]
TierSeeds == <<peer1, home>>
Whole(b) == [id |-> b, tx_root_fits |-> TRUE, claim_fits |-> TRUE]
TierServed == {Whole(b2), [Whole(b2) EXCEPT !.tx_root_fits = FALSE]}
TierRequests ==
  {<<"body", <<b2>>>>, <<"witness", <<b1>>>>, <<"tips", <<>>>>, <<"chain", <<>>>>,
   <<"bodies", <<b2, b1>>>>}

Tier == INSTANCE SeedTier WITH
  Block <- TierBlock, Parent <- TierParent, Height <- TierHeight, Seeds <- TierSeeds,
  Home <- home, Requests <- TierRequests, Served <- TierServed, TIPS_RECENT_LEN <- 1,
  CHAIN_PAGE_MAX <- 1, MAX_BODIES_PER_BATCH <- 1, PENDING_WITNESS_RETENTION <- 1,
  MaxConnections <- 1, MaxRecords <- 2, witnesses <- tierWitnesses

tierVars ==
  <<canonical, bodies, tierWitnesses, writer, backlog, handling, stage, stop, job, strangers,
    records>>

PartsInit == part \in {"node", "tier"} /\ Init /\ Tier!SeedInit

PartsNext ==
  \/ part = "node" /\ Next /\ UNCHANGED <<part, tierVars>>
  \/ part = "tier" /\ Tier!SeedNext /\ UNCHANGED <<part, vars>>

\* Fairness and SeedFairness, each for the part that behaves.
PartsFairness ==
  /\ WF_vars(part = "node" /\ (Boot \/ BootRefused))
  /\ WF_vars(part = "node" /\ PersistBlock)
  /\ WF_vars(part = "node" /\ PersistWitness)
  /\ SF_vars(part = "node" /\ SyncFrom(FirstSeed, {}))
  /\ WF_tierVars(part = "tier" /\ Tier!Server)
  /\ WF_tierVars(part = "tier" /\ Tier!WriteLock)
  /\ WF_tierVars(part = "tier" /\ Tier!Client)

PartsSpec == PartsInit /\ [][PartsNext]_<<part, vars, tierVars>> /\ PartsFairness

--------------------------------------------------------------------------------
(* Properties of the tier *)

WithholdNeverForge == Tier!WithholdNeverForge

NobodyWaitsForever == Tier!NobodyWaitsForever
================================================================================
