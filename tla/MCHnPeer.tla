-------------------------------- MODULE MCHnPeer -------------------------------
(***************************************************************************)
(* Instances of HnPeer for TLC: a producer and a follower, whose producer  *)
(* may itself ask the follower.                                            *)
(***************************************************************************)
EXTENDS HnPeer, TLC

MCPair == {"p" :> "p" @@ "f" :> "p"}
MCPairOrMutual == MCPair \union {"p" :> "f" @@ "f" :> "p"}
================================================================================
