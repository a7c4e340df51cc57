\* Crashes and failed writes anywhere in a node that produces and syncs; the calls of
\* a client to a lying seed and the modelled one.
CONSTANTS
  m1 = m1
  n1 = n1
  m2 = m2
  b1 = b1
  b2 = b2
  g = g
  s1 = s1
  peer1 = peer1
  home = home
  Block <- MCBlock
  Genesis = g
  Parent <- MCParent
  Path <- MCPath
  SumWork <- MCSumWork
  Rank <- MCRank
  ErgoAt <- MCErgoAt
  Mine <- MCMine
  Seed = {s1}
  FirstSeed = s1
  Torn = Torn
  PENDING_WITNESS_RETENTION = 0
  MaxFaults = 2
CHECK_DEADLOCK FALSE \* every call is over, the server is joined
SPECIFICATION PartsSpec
INVARIANTS
  LogsPaired
  CrashNeverRefuses
  NodeResumes
  WithholdNeverForge
PROPERTIES
  FollowsFirstSeed
  NobodyWaitsForever
